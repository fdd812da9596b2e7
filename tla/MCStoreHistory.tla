--------------------------- MODULE MCStoreHistory ---------------------------
(* Small instances of StoreHistory for TLC. *)
EXTENDS StoreHistory, MCTimeEntryStore

HistoryView == <<WithoutAnswers, wasIdle, stay>>
=============================================================================
