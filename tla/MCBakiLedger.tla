---------------------------- MODULE MCBakiLedger ----------------------------
(* Small instances of BakiLedger for TLC.                                  *)
EXTENDS BakiLedger, FiniteSetsExt, TLC

CONSTANTS e1, e2, c1, c2, c3, r1, r2

\* A new user starts at 500 (user.schema.ts, default of bakiScore).
DefaultScores == [c \in Consumers |-> 500]

\* A new consumer, and two whose earlier entries took them from 500 to a step
\* away from each clamp.
EdgeScores ==
    [c \in Consumers |->
        CASE c = c1 -> 1000 [] c = c2 -> 10 [] OTHER -> 500]

\* "Consumer sees exact history of what affected their score" (doc.md:162):
\* when every request ended well and no two of them met, the score is the
\* start plus the impacts shown on the consumer's entries (no clamp applies
\* from DefaultScores).
ScoreExplainedByLedger ==
    (/\ contended = {} /\ contested = {}
     /\ \A r \in Requests : pc[r] \in {"idle", "done"}) =>
        \A c \in Consumers :
            LET owed == {e \in Entries : ledger[e] # NoEntry
                                            /\ ledger[e].consumer = c}
                Impact(e) == ledger[e].impact
            IN  score[c] = StartScore[c] + MapThenSumSet(Impact, owed)

=============================================================================
