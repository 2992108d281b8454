--------------------------- MODULE MockFunctions ---------------------------
(***************************************************************************)
(* The mocking library of the unit tests (src/turtle): mock functions with *)
(* their expectations, the sequences that order expectations, the contexts *)
(* (mock objects and the root) that verify and reset the functions used,   *)
(* and the objects that the action of an expectation keeps alive.          *)
(*                                                                         *)
(* Slots are the addresses expectations live at and are used again after   *)
(* they were destroyed.  A reset of a context is taken in one step per     *)
(* entry of the copy the code makes of its group, because a step may       *)
(* destroy what a later entry points to; every other call is one step.     *)
(***************************************************************************)
EXTENDS Integers, Sequences, SequencesExt

CONSTANTS Root, Objects, Functions, Slots, Orders, Args, Anything, None,
          Context,   \* the object or the root that a function belongs to
          Largest,   \* the largest std::size_t
          Expected   \* the expectations tests state, built with Expectation

ASSUME MockAssumption ==
    /\ Context \in [Functions -> Objects \cup {Root}]
    /\ Root \notin Objects /\ None \notin Objects /\ Anything \notin Args
    /\ Functions \cap (Objects \cup {Root}) = {}
    /\ Largest \in Nat \ {0}
    /\ Expected \subseteq [min : Nat, max : Nat, count : {0},
                           with : Args \cup {Anything}, acts : BOOLEAN,
                           in : SUBSET Orders, holds : Objects \cup {None}]

(* The constructor of between throws when no number fits the limits; the   *)
(* expectation is there already then, and keeps the limits it has without. *)
Between(min, max) ==
    IF min <= max THEN [min |-> min, max |-> max] ELSE [min |-> 0, max |-> Largest]
Exactly(n) == Between(n, n)
AtLeast(n) == Between(n, Largest)
AtMost(n) == Between(0, n)
Unlimited == AtLeast(0)

(* An expectation: its limits, its constraint, whether it has an action,   *)
(* the sequences it is in and the object its action owns.                  *)
Expectation(limits, with, acts, in, holds) ==
    [min |-> limits.min, max |-> limits.max, count |-> 0,
     with |-> with, acts |-> acts, in |-> in, holds |-> holds]

VARIABLES
    live,          \* the mock objects that exist
    hooked,        \* the functions whose context_ is set
    group,         \* per context: the functions and objects in its group_
    expectations,  \* per function: the slots of its expectations, in order
    made,          \* per slot in use: the expectation there
    elements,      \* per sequence: the slots that may still be invoked
    declared,      \* per sequence: the slots put into it (history)
    valid,         \* per function: valid_
    resetting,     \* the entries a reset of contexts has still to visit
    outcome        \* what the last call reported

objects == <<live, hooked, group>>
vars == <<objects, expectations, made, elements, declared, valid, resetting, outcome>>

(* The functions of an object come and go with it. A function of the root  *)
(* lives on its own: one that was destroyed is as one yet to be made.      *)
Exists(f) == Context[f] \in live \cup {Root}
Quiet == resetting = <<>>

Fulfilled(s) == made[s].min <= made[s].count /\ made[s].count <= made[s].max
Exhausted(s) == made[s].count >= made[s].max

Init ==
    /\ live = {} /\ hooked = {}
    /\ group = [c \in Objects \cup {Root} |-> <<>>]
    /\ expectations = [f \in Functions |-> <<>>]
    /\ made = <<>>
    /\ elements = [q \in Orders |-> <<>>] /\ declared = elements
    /\ valid = [f \in Functions |-> Context[f] = Root]
    /\ resetting = <<>> /\ outcome = "none"

(* Every use of a mock function first puts it into the group of its        *)
(* context, and a mock object that had no children into the root's.        *)
Hooked(f) ==
    LET c == Context[f] IN
    IF f \in hooked THEN group
    ELSE [group EXCEPT ![Root] = IF c # Root /\ group[c] = <<>> THEN Append(@, c) ELSE @,
                       ![c] = Append(@, f)]

Use(f) ==
    /\ Quiet /\ Exists(f)
    /\ group' = Hooked(f)
    /\ hooked' = hooked \cup {f}
    /\ UNCHANGED live

(* The objects that die with those of D, an expectation owning the object  *)
(* its action holds: the least set with D and what its functions own.      *)
SlotsOf(fs) == UNION {ToSet(expectations[f]) : f \in fs}
Owned(fs) == {made[s].holds : s \in SlotsOf(fs)} \ {None}
FunctionsOf(D) == {f \in Functions : Context[f] \in D}
Closed(S) == Owned(FunctionsOf(S)) \subseteq S
Dying(D) == {o \in Objects : \A S \in SUBSET Objects : D \subseteq S /\ Closed(S) => o \in S}

(* The expectations of fs are destroyed, and the functions ended, and with *)
(* them the objects D and all their functions: out of the sequences, and   *)
(* out of the groups.                                                      *)
Kept(seq, gone) ==
    LET upTo[i \in 0 .. Len(seq)] ==
            IF i = 0 THEN <<>>
            ELSE IF seq[i] \in gone THEN upTo[i - 1] ELSE Append(upTo[i - 1], seq[i]) IN
    upTo[Len(seq)]
Dispose(fs, ended, D) ==
    LET dead == FunctionsOf(D) \cup ended
        gone == SlotsOf(fs \cup dead)
        left == [c \in DOMAIN group |-> Kept(group[c], dead)] IN
    /\ expectations' = [f \in Functions |-> IF f \in fs \cup dead THEN <<>> ELSE expectations[f]]
    /\ made' = [s \in DOMAIN made \ gone |-> made[s]]
    /\ elements' = [q \in Orders |-> Kept(elements[q], gone)]
    /\ declared' = [q \in Orders |-> Kept(declared[q], gone)]
    /\ group' = [left EXCEPT ![Root] = Kept(@, D)]
    /\ hooked' = hooked \ dead
    /\ live' = live \ D

Construct(o) ==
    /\ Quiet /\ o \notin live
    /\ live' = live \cup {o}
    /\ valid' = [f \in Functions |-> valid[f] \/ Context[f] = o]
    /\ outcome' = "none"
    /\ UNCHANGED <<hooked, group, expectations, made, elements, declared, resetting>>

(* The destructors of an object's functions report what was not triggered, *)
(* unless an earlier failure was reported already.                         *)
Untriggered(dead) ==
    \E f \in dead : valid[f] /\ \E s \in ToSet(expectations[f]) : ~Fulfilled(s)
Destroy(o) ==
    /\ Quiet /\ o \in live
    /\ \A s \in DOMAIN made : made[s].holds # o
    /\ LET D == Dying({o}) IN
       /\ Dispose({}, {}, D)
       /\ valid' = [f \in Functions |-> valid[f] /\ f \notin FunctionsOf(D)]
       /\ outcome' = IF Untriggered(FunctionsOf(D)) THEN "untriggered" ELSE "none"
    /\ UNCHANGED resetting

(* A function of the root goes out of scope, and what it owns dies.        *)
DestroyFunction(f) ==
    /\ Quiet /\ Context[f] = Root
    /\ LET D == Dying(Owned({f})) IN
       /\ Dispose({f}, {f}, D)
       /\ valid' = [g \in Functions |-> g = f \/ (valid[g] /\ g \notin FunctionsOf(D))]
       /\ outcome' = IF Untriggered({f} \cup FunctionsOf(D)) THEN "untriggered" ELSE "none"
    /\ UNCHANGED resetting

(* MOCK_EXPECT(f) with what is chained to it, an expectation of Expected.  *)
(* An expectation may own an object nobody else does and whose death does  *)
(* not take f with it.                                                     *)
Ownable(f, o) ==
    /\ o \in live /\ Context[f] \notin Dying({o})
    /\ \A s \in DOMAIN made : made[s].holds # o
Expect(f, s, e) ==
    /\ Use(f)
    /\ s \notin DOMAIN made
    /\ e.holds # None => Ownable(f, e.holds)
    /\ made' = [t \in DOMAIN made \cup {s} |-> IF t = s THEN e ELSE made[t]]
    /\ expectations' = [expectations EXCEPT ![f] = Append(@, s)]
    /\ elements' = [q \in Orders |-> IF q \in e.in THEN Append(elements[q], s) ELSE elements[q]]
    /\ declared' = [q \in Orders |-> IF q \in e.in THEN Append(declared[q], s) ELSE declared[q]]
    /\ valid' = [valid EXCEPT ![f] = TRUE]
    /\ outcome' = "none"
    /\ UNCHANGED resetting

(* A call is answered by the first expectation that is not exhausted and   *)
(* whose constraint holds; it fails when an expectation after that one in  *)
(* a sequence was invoked before, and nothing further is tried.            *)
Matches(with, arg) == with \in {Anything, arg}
IsValid(s, arg) == ~Exhausted(s) /\ Matches(made[s].with, arg)
Candidates(f, arg) == {i \in DOMAIN expectations[f] : IsValid(expectations[f][i], arg)}
Chosen(f, arg) == expectations[f][Min(Candidates(f, arg))]
InSequence(s) == \A q \in made[s].in : Contains(elements[q], s)

(* What comes before s in its sequences may no longer be invoked.          *)
MutantKeepsEarlier(s) == elements
From(seq, s) == SubSeq(seq, Min({i \in DOMAIN seq : seq[i] = s}), Len(seq))
Invalidated(s) ==
    [q \in Orders |-> IF q \in made[s].in THEN From(elements[q], s) ELSE elements[q]]

CallFails(f, arg) ==
    /\ Use(f)
    /\ \/ Candidates(f, arg) = {} /\ outcome' = "unexpected call"
       \/ Candidates(f, arg) # {} /\ ~InSequence(Chosen(f, arg)) /\ outcome' = "sequence failed"
    /\ valid' = [valid EXCEPT ![f] = FALSE]
    /\ UNCHANGED <<expectations, made, elements, declared, resetting>>

CallInvokes(f, arg) ==
    /\ Use(f)
    /\ Candidates(f, arg) # {}
    /\ LET s == Chosen(f, arg) IN
       /\ InSequence(s)
       /\ made' = [made EXCEPT ![s].count = @ + 1]
       /\ elements' = Invalidated(s)
       /\ valid' = [valid EXCEPT ![f] = made[s].acts]
       /\ outcome' = IF made[s].acts THEN "fulfilled" ELSE "missing action"
    /\ UNCHANGED <<expectations, declared, resetting>>

(* The functions a context verifies, and what each then answers.           *)
Covered(c) ==
    LET members == ToSet(group[c]) IN
    (members \cap Functions) \cup UNION {ToSet(group[o]) : o \in members \ Functions}
Met(f) == \A s \in ToSet(expectations[f]) : Fulfilled(s)
MutantAnyVerdict(fs) == fs = {} \/ \E f \in fs : valid[f] /\ Met(f)
Verdict(fs) == \A f \in fs : valid[f] /\ Met(f)
Marked(fs) == [f \in Functions |-> valid[f] /\ (f \in fs => Met(f))]

VerifyFunction(f) ==
    /\ Use(f)
    /\ valid' = Marked({f})
    /\ outcome' = "none"
    /\ UNCHANGED <<expectations, made, elements, declared, resetting>>
Verify(c) ==
    /\ Quiet /\ c \in live \cup {Root}
    /\ valid' = Marked(Covered(c))
    /\ outcome' = IF c = Root /\ Verdict(Covered(c)) THEN "passed" ELSE "none"
    /\ UNCHANGED <<objects, expectations, made, elements, declared, resetting>>

(* A function that is reset is valid and expects nothing.                  *)
ResetNow(f) ==
    LET D == Dying(Owned({f})) IN
    /\ Dispose({f}, {}, D)
    /\ valid' = [g \in Functions |-> g = f \/ (valid[g] /\ g \notin FunctionsOf(D))]

ResetFunction(f) ==
    /\ Quiet /\ Exists(f)
    /\ \/ f \in hooked /\ ResetNow(f)
       \/ /\ f \notin hooked /\ Use(f)
          /\ valid' = [valid EXCEPT ![f] = TRUE]
          /\ UNCHANGED <<expectations, made, elements, declared>>
    /\ outcome' = "none"
    /\ UNCHANGED resetting

Entries(c) == [i \in DOMAIN group[c] |-> <<c, group[c][i]>>]
Ended(rest) == IF rest # <<>> THEN outcome ELSE IF outcome = "resetting all" THEN "all reset" ELSE "none"
Reset(c) ==
    /\ Quiet /\ c \in live \cup {Root} /\ group[c] # <<>>
    /\ resetting' = Entries(c)
    /\ outcome' = IF c = Root THEN "resetting all" ELSE "resetting"
    /\ UNCHANGED <<objects, expectations, made, elements, declared, valid>>

(* An entry is visited only if it is still in the group.                   *)
MutantVisitsGone(c, v) == TRUE
Present(c, v) == Contains(group[c], v)
MutantForgetsRest(v) == Entries(v)
Deeper(v) == Entries(v) \o Tail(resetting)
ResetEntry ==
    /\ ~Quiet
    /\ LET c == Head(resetting)[1]
           v == Head(resetting)[2] IN
       \/ /\ Present(c, v) /\ v \in Functions
          /\ ResetNow(v)
          /\ resetting' = Tail(resetting)
       \/ /\ Present(c, v) /\ v \in Objects
          /\ resetting' = Deeper(v)
          /\ UNCHANGED <<objects, expectations, made, elements, declared, valid>>
       \/ /\ ~Present(c, v)
          /\ resetting' = Tail(resetting)
          /\ UNCHANGED <<objects, expectations, made, elements, declared, valid>>
    /\ outcome' = Ended(resetting')

Next ==
    \/ \E o \in Objects : Construct(o) \/ Destroy(o)
    \/ \E f \in Functions :
          \/ \E s \in Slots, e \in Expected : Expect(f, s, e)
          \/ \E arg \in Args : CallFails(f, arg) \/ CallInvokes(f, arg)
          \/ VerifyFunction(f) \/ ResetFunction(f) \/ DestroyFunction(f)
    \/ \E c \in Objects \cup {Root} : Verify(c) \/ Reset(c)
    \/ ResetEntry

Spec == Init /\ [][Next]_vars
-----------------------------------------------------------------------------
(* The variables have their types, and no expectation was invoked more     *)
(* often than its limit (between::invoke).                                 *)
TypeOK ==
    /\ live \subseteq Objects /\ hooked \subseteq Functions
    /\ group \in [Objects \cup {Root} -> Seq(Functions \cup Objects)]
    /\ expectations \in [Functions -> Seq(Slots)]
    /\ DOMAIN made \subseteq Slots
    /\ \A s \in DOMAIN made : made[s].count \in 0..made[s].max
    /\ elements \in [Orders -> Seq(Slots)] /\ declared \in [Orders -> Seq(Slots)]
    /\ valid \in [Functions -> BOOLEAN]
    /\ resetting \in Seq((Objects \cup {Root}) \X (Functions \cup Objects))

(* However expectations, functions and objects are destroyed, directly, by *)
(* a reset or with their owner, no sequence points to an expectation that  *)
(* is gone and no group to a function or an object that is, and an object  *)
(* that an expectation owns exists.                                        *)
NothingDangling ==
    /\ \A s \in DOMAIN made : made[s].holds \in live \cup {None}
    /\ \A q \in Orders : ToSet(elements[q]) \subseteq DOMAIN made
    /\ DOMAIN made = SlotsOf(Functions)
    /\ \A c \in Objects \cup {Root} : \A v \in ToSet(group[c]) :
          IF v \in Functions THEN Exists(v) /\ Context[v] = c /\ v \in hooked
          ELSE c = Root /\ group[v] # <<>>

(* A reset goes into nothing that died earlier in the same reset.          *)
VisitsLive ==
    ~Quiet => LET c == Head(resetting)[1]
                  v == Head(resetting)[2] IN
              Present(c, v) => (v \in live \/ (v \in Functions /\ Exists(v)))

(* No pointer of the library is used after what it points to died.         *)
PointersHold == TypeOK /\ NothingDangling /\ VisitsLive

(* Expectations of a sequence are invoked in the order they were put into  *)
(* it: after a later one, an earlier one is never invoked again.           *)
InOrder ==
    [][\A q \in Orders : \A i, j \in DOMAIN declared[q] :
          LET early == declared[q][i] late == declared[q][j] IN
          i < j /\ made[late].count > 0 /\ early \in DOMAIN made'
             => made'[early].count = made[early].count]_vars

(* When mock::verify answers yes, every expectation of every mock function *)
(* in the program was invoked as often as it asks for.                     *)
PassedMeansMet == outcome = "passed" => \A s \in DOMAIN made : Fulfilled(s)

(* When mock::reset returns no expectation is left, whatever the objects   *)
(* that were destroyed on its way.                                         *)
ResetClears == outcome = "all reset" => DOMAIN made = {}
=============================================================================
