---------------------------- MODULE MCMatchFinder ----------------------------
(* One finder of every kind, all with the same history. *)
EXTENDS MatchFinder

CONSTANTS HistorySize

EveryKind == [kind : Kinds, historySize : {HistorySize}]

\* Two settings whose arrays have the same size.
SameSize == {[kind |-> "Bt4", historySize |-> HistorySize],
             [kind |-> "Bt3", historySize |-> HistorySize + 1]}
=============================================================================
