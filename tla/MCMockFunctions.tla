-------------------------- MODULE MCMockFunctions --------------------------
(* Two mock objects with a function each and a function of its own; what   *)
(* tests expect covers each limit, both kinds of constraint, sequences,    *)
(* a missing action, limits nothing fits, which cut the chain off, and     *)
(* actions that own one of the objects.                                    *)
EXTENDS MockFunctions
CONSTANTS mocks, table, log, send, ping, q, x, y, s1, s2

MCContext == [f \in {log, send, ping} |-> CASE f = log -> Root [] f = send -> mocks [] f = ping -> table]
MCExpected ==
    {Expectation(Exactly(1), Anything, TRUE, {q}, None),
     Expectation(Between(1, 2), x, TRUE, {q}, None),
     Expectation(AtMost(1), x, FALSE, {}, None),
     Expectation(Exactly(0), Anything, TRUE, {}, None),
     Expectation(AtLeast(1), Anything, TRUE, {}, mocks),
     Expectation(Unlimited, y, TRUE, {}, None),
     Expectation(Between(2, 1), y, FALSE, {q}, None),
     Expectation(Exactly(1), Anything, TRUE, {}, table)}
Alike == Permutations(Slots)
=============================================================================
