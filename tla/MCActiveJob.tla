------------------------------ MODULE MCActiveJob ------------------------------
(* ActiveJob with two Cloud messages and three tab messages of one or two  *)
(* sessions; the last tab message is a frozen canonical group turn.        *)
EXTENDS ActiveJob

CONSTANTS c1, c2, t1, t2, g1, chat, group

MCJobs == {c1, c2, t1, t2, g1}
MCTabJobs == {t1, t2, g1}
MCCanonical == {g1}
MCSessions == {chat, group}
MCSessionOf == [j \in MCTabJobs |-> IF j = g1 THEN group ELSE chat]
=============================================================================
