------------------------- MODULE MasterKeysProofs --------------------------
(***************************************************************************)
(* Proofs about the memory that holds private keys, for every number of    *)
(* users and every failure.                                                *)
(*                                                                         *)
(* What a call does is fixed when it starts, but for the order of loops    *)
(* and for failures.  The inductive invariant therefore looks ahead: the   *)
(* steps that are left run to the end, each with what it needs, and leave  *)
(* everything locked and owned.  That a call starts like this is shown by  *)
(* putting together what is known of the functions that it calls.          *)
(***************************************************************************)
EXTENDS MasterKeys, SequenceTheorems, TLAPS

Addresses == Memories \union {BackupKey}

Step ==
    [op : {"allocate"}, memory : Addresses]
    \union [op : {"unlock", "use"}, memory : Addresses, mode : Modes]
    \union [op : {"end"}]
    \union [op : {"own", "exportProtobuf", "import"}, memories : SUBSET Memories]

\* A state of the memory: its protection, the user store, the Unlockers in scope
State(p, owners, scopes) == [protection |-> p, users |-> owners, unlockers |-> scopes]

Now == State(protection, users, unlockers)

\* All of the memory ms is locked
AllLocked(ms) == [x \in ms |-> "noaccess"]

\* p, but the memory ms is locked
LockedIn(p, ms) == [x \in DOMAIN p |-> IF x \in ms THEN "noaccess" ELSE p[x]]

\* Between two calls: everything is locked, and it belongs to a user
Idle(s) ==
    \E ms \in SUBSET Addresses :
        /\ s = State(AllLocked(ms), ms \ {BackupKey}, <<>>)

\* Whatever is open has an Unlocker in scope, except for the memory ms
InScopeBut(s, ms) ==
    \A x \in DOMAIN s.protection \ ms : s.protection[x] # "noaccess" =>
        \E i \in 1..Len(s.unlockers) : s.unlockers[i] = x

\* Nothing in scope or in the user store was freed
WellFormed(s) ==
    /\ \E D \in SUBSET Addresses : s.protection \in [D -> Modes]
    /\ s.unlockers \in Seq(DOMAIN s.protection)
    /\ s.users \subseteq DOMAIN s.protection \cap Memories

\* A failure can be cleaned up
Recoverable(s) == WellFormed(s) /\ InScopeBut(s, {})

\* What the steps do
Allocated(s, m) ==
    State([x \in DOMAIN s.protection \union {m} |->
              IF x # m THEN s.protection[x]
              ELSE IF m = BackupKey THEN "readwrite" ELSE "noaccess"],
          s.users, s.unlockers)

Unlocked(s, m, mode) ==
    State([s.protection EXCEPT ![m] = mode], s.users, Append(s.unlockers, m))

Locked(s) ==
    State([s.protection EXCEPT ![Last(s.unlockers)] = "noaccess"], s.users,
          Front(s.unlockers))

Owned(s, ms) ==
    State(Restrict(s.protection, (ms \union {BackupKey}) \cap DOMAIN s.protection),
          ms, s.unlockers)

Exported(s, ms) == State(LockedIn(s.protection, ms), s.users, s.unlockers)

Imported(s, ms) ==
    State([x \in DOMAIN s.protection \union ms |->
              IF x \in ms THEN "noaccess" ELSE s.protection[x]],
          s.users, s.unlockers)

\* The step finds what it needs in s, and leads to t
Does(s, step, t) ==
    \/ /\ step.op = "allocate" /\ Recoverable(s)
       /\ step.memory \notin DOMAIN s.protection
       /\ t = Allocated(s, step.memory)
    \/ /\ step.op = "unlock"
       /\ step.memory \in DOMAIN s.protection
       /\ t = Unlocked(s, step.memory, step.mode)
    \/ /\ step.op = "use" /\ Recoverable(s)
       /\ step.memory \in DOMAIN s.protection
       /\ s.protection[step.memory] \in {step.mode, "readwrite"}
       /\ t = s
    \/ /\ step.op = "end"
       /\ s.unlockers # <<>> /\ Last(s.unlockers) \in DOMAIN s.protection
       /\ t = Locked(s)
    \/ /\ step.op = "own" /\ Recoverable(s)
       /\ s.unlockers = <<>> /\ step.memories \subseteq DOMAIN s.protection
       /\ t = Owned(s, step.memories)
    \/ /\ step.op = "exportProtobuf" /\ Recoverable(s)
       /\ step.memories \subseteq DOMAIN s.protection
       /\ t = Exported(s, step.memories)
    \/ /\ step.op = "import" /\ Recoverable(s)
       /\ step.memories \cap DOMAIN s.protection = {}
       /\ t = Imported(s, step.memories)

\* The steps run from s to t, and each finds what it needs
Runs(steps, s, t) ==
    \E run :
        /\ run[1] = s
        /\ run[Len(steps) + 1] = t
        /\ \A i \in 1..Len(steps) : Does(run[i], steps[i], run[i + 1])

\* What is left of the current call runs to the end
CallInv ==
    /\ todo \in Seq(Step)
    /\ \E t : Idle(t) /\ Runs(todo, Now, t)

-----------------------------------------------------------------------------
(***************************************************************************)
(* Running steps one after the other                                       *)
(***************************************************************************)

\* Nothing to do changes nothing.
LEMMA RunsNone ==
    ASSUME NEW s, NEW t
    PROVE  Runs(<<>>, s, t) <=> s = t
<1>1. Runs(<<>>, s, t) => s = t
    BY DEF Runs
<1>2. ASSUME s = t PROVE Runs(<<>>, s, t)
  <2> DEFINE run == [i \in 1..1 |-> s]
  <2>1. run[1] = s /\ run[Len(<<>>) + 1] = t /\ 1..Len(<<>>) = {}
      BY <1>2
  <2> HIDE DEF run
  <2> QED BY <2>1 DEF Runs
<1> QED BY <1>1, <1>2

\* A single step.
LEMMA RunsOne ==
    ASSUME NEW step, NEW s, NEW t, Does(s, step, t)
    PROVE  Runs(<<step>>, s, t)
<1> DEFINE run == [i \in 1..2 |-> IF i = 1 THEN s ELSE t]
<1>1. /\ Len(<<step>>) = 1 /\ <<step>>[1] = step
      /\ run[1] = s /\ run[2] = t
    OBVIOUS
<1> HIDE DEF run
<1>2. \A i \in 1..Len(<<step>>) : Does(run[i], <<step>>[i], run[i + 1])
  <2> SUFFICES ASSUME NEW i \in 1..1 PROVE Does(run[i], <<step>>[i], run[i + 1])
      BY <1>1
  <2>1. i = 1 /\ i + 1 = 2
      OBVIOUS
  <2> QED BY <1>1, <2>1
<1>3. run[Len(<<step>>) + 1] = t
    BY <1>1
<1> QED BY <1>1, <1>2, <1>3 DEF Runs

\* Two sequences of steps, one after the other.
LEMMA RunsConcat ==
    ASSUME NEW a \in Seq(Step), NEW b \in Seq(Step), NEW s, NEW t, NEW u,
           Runs(a, s, t), Runs(b, t, u)
    PROVE  a \o b \in Seq(Step) /\ Runs(a \o b, s, u)
<1> DEFINE n == Len(a)
           k == Len(b)
<1>1. /\ n \in Nat /\ k \in Nat /\ Len(a \o b) = n + k /\ a \o b \in Seq(Step)
      /\ \A i \in 1..(n + k) : (a \o b)[i] = IF i <= n THEN a[i] ELSE b[i - n]
    BY ConcatProperties, LenProperties
<1>2. PICK first :
         /\ first[1] = s /\ first[n + 1] = t
         /\ \A i \in 1..n : Does(first[i], a[i], first[i + 1])
    BY DEF Runs
<1>3. PICK second :
         /\ second[1] = t /\ second[k + 1] = u
         /\ \A i \in 1..k : Does(second[i], b[i], second[i + 1])
    BY DEF Runs
<1> DEFINE run == [i \in 1..(n + k + 1) |-> IF i <= n THEN first[i] ELSE second[i - n]]
<1> HIDE DEF n, k
<1>4. /\ \A i \in 1..n : run[i] = first[i]
      /\ \A i \in (n + 1)..(n + k + 1) : run[i] = second[i - n]
    BY <1>1
<1> HIDE DEF run
<1>5. run[1] = s
  <2>1. CASE n = 0
      BY <1>1, <1>2, <1>3, <1>4, <2>1
  <2>2. CASE n # 0
      BY <1>1, <1>2, <1>4, <2>2
  <2> QED BY <2>1, <2>2
<1>6. run[n + k + 1] = u
  <2>1. n + k + 1 \in (n + 1)..(n + k + 1) /\ (n + k + 1) - n = k + 1
      BY <1>1
  <2> QED BY <1>3, <1>4, <2>1
<1>7. ASSUME NEW i \in 1..(n + k) PROVE Does(run[i], (a \o b)[i], run[i + 1])
  <2>1. CASE i < n
    <3>1. i \in 1..n /\ i + 1 \in 1..n /\ (a \o b)[i] = a[i]
        BY <1>1, <2>1
    <3> QED BY <1>2, <1>4, <3>1
  <2>2. CASE i = n
    <3>1. i \in 1..n /\ i + 1 \in (n + 1)..(n + k + 1) /\ (i + 1) - n = 1
          /\ (a \o b)[i] = a[i]
        BY <1>1, <2>2
    <3>2. run[i + 1] = first[i + 1]
        BY <1>2, <1>3, <1>4, <2>2, <3>1
    <3> QED BY <1>2, <1>4, <3>1, <3>2
  <2>3. CASE i > n
    <3> DEFINE j == i - n
    <3>1. /\ i \in (n + 1)..(n + k + 1) /\ i + 1 \in (n + 1)..(n + k + 1)
          /\ (i + 1) - n = j + 1 /\ j \in 1..k /\ (a \o b)[i] = b[j]
        BY <1>1, <2>3
    <3>2. run[i] = second[j] /\ run[i + 1] = second[j + 1]
        BY <1>4, <3>1
    <3> QED BY <1>3, <3>1, <3>2
  <2> QED BY <1>1, <2>1, <2>2, <2>3
<1> QED BY <1>1, <1>5, <1>6, <1>7 DEF Runs

\* The first step and what is left after it.
LEMMA RunsHead ==
    ASSUME NEW steps \in Seq(Step), steps # <<>>, NEW s, NEW u, Runs(steps, s, u)
    PROVE  /\ Tail(steps) \in Seq(Step)
           /\ \E t : Does(s, Head(steps), t) /\ Runs(Tail(steps), t, u)
<1> DEFINE n == Len(steps)
           rest == Tail(steps)
<1>1. /\ n \in Nat /\ n >= 1 /\ Head(steps) = steps[1]
      /\ rest \in Seq(Step) /\ Len(rest) = n - 1
      /\ \A i \in 1..(n - 1) : rest[i] = steps[i + 1]
    BY HeadTailProperties, EmptySeq, LenProperties
<1>2. PICK run :
         /\ run[1] = s /\ run[n + 1] = u
         /\ \A i \in 1..n : Does(run[i], steps[i], run[i + 1])
    BY DEF Runs
<1> HIDE DEF n, rest
<1> DEFINE later == [i \in 1..n |-> run[i + 1]]
<1>3. 1 \in 1..n /\ n \in 1..n /\ 1 + 1 = 2 /\ (n - 1) + 1 = n
    BY <1>1
<1>4. later[1] = run[2] /\ later[(n - 1) + 1] = u
    BY <1>2, <1>3
<1>5. ASSUME NEW i \in 1..(n - 1) PROVE Does(later[i], rest[i], later[i + 1])
  <2>1. i \in 1..n /\ i + 1 \in 1..n
      BY <1>1
  <2>2. later[i] = run[i + 1] /\ later[i + 1] = run[(i + 1) + 1]
      BY <2>1
  <2> QED BY <1>1, <1>2, <2>1, <2>2
<1> HIDE DEF later
<1>6. Does(s, Head(steps), run[2])
    BY <1>1, <1>2, <1>3
<1>7. Runs(rest, run[2], u)
    BY <1>1, <1>4, <1>5 DEF Runs
<1> QED BY <1>1, <1>6, <1>7 DEF rest

-----------------------------------------------------------------------------
(***************************************************************************)
(* The functions of the library                                            *)
(***************************************************************************)

\* The steps have their types.
LEMMA StepTypes ==
    /\ \A m \in Addresses : Allocate(m) \in Seq(Step)
    /\ \A m \in Addresses, mode \in Modes :
          Unlock(m, mode) \in Seq(Step) /\ Use(m, mode) \in Seq(Step)
    /\ ScopeEnd \in Seq(Step)
    /\ \A ms \in SUBSET Memories :
          /\ Own(ms) \in Seq(Step)
          /\ exportUsers(ms) \in Seq(Step)
          /\ importUsers(ms) \in Seq(Step)
<1>1. \A step \in Step : <<step>> \in Seq(Step)
    OBVIOUS
<1>2. \A m \in Addresses : [op |-> "allocate", memory |-> m] \in Step
    BY DEF Step
<1>3. \A m \in Addresses, mode \in Modes :
         /\ [op |-> "unlock", memory |-> m, mode |-> mode] \in Step
         /\ [op |-> "use", memory |-> m, mode |-> mode] \in Step
    BY DEF Step
<1>4. [op |-> "end"] \in Step
    BY DEF Step
<1>5. \A ms \in SUBSET Memories :
         /\ [op |-> "own", memories |-> ms] \in Step
         /\ [op |-> "exportProtobuf", memories |-> ms] \in Step
         /\ [op |-> "import", memories |-> ms] \in Step
    BY DEF Step
<1> HIDE DEF Step
<1> QED BY <1>1, <1>2, <1>3, <1>4, <1>5
        DEF Allocate, Unlock, Use, ScopeEnd, Own, exportUsers, importUsers

\* The Unlocker that was constructed last.
LEMMA LastUnlocker ==
    ASSUME NEW S, NEW scopes \in Seq(S), NEW m \in S
    PROVE  /\ Append(scopes, m) \in Seq(S)
           /\ Append(scopes, m) # <<>>
           /\ Last(Append(scopes, m)) = m
           /\ Front(Append(scopes, m)) = scopes
           /\ \E i \in 1..Len(Append(scopes, m)) : Append(scopes, m)[i] = m
           /\ \A i \in 1..Len(scopes) : /\ i \in 1..Len(Append(scopes, m))
                                        /\ Append(scopes, m)[i] = scopes[i]
<1> DEFINE n == Len(scopes)
           more == Append(scopes, m)
<1>1. /\ more \in Seq(S) /\ Len(more) = n + 1 /\ more[n + 1] = m
      /\ \A i \in 1..n : more[i] = scopes[i]
      /\ n \in Nat /\ scopes \in [1..n -> S] /\ n + 1 \in 1..(n + 1)
    BY AppendProperties, LenProperties
<1>2. more # <<>>
    BY <1>1, EmptySeq
<1>3. Last(more) = m
    BY <1>1 DEF Last
<1>4. Front(more) = scopes
    BY <1>1 DEF Front
<1> QED BY <1>1, <1>2, <1>3, <1>4

\* After Unlocker's constructor a failure can be cleaned up, and the memory is open.
LEMMA UnlockRuns ==
    ASSUME NEW s, WellFormed(s), NEW m \in DOMAIN s.protection, NEW mode \in Modes,
           InScopeBut(s, {m})
    PROVE  /\ Unlock(m, mode) \in Seq(Step)
           /\ Runs(Unlock(m, mode), s, Unlocked(s, m, mode))
           /\ Recoverable(Unlocked(s, m, mode))
<1> DEFINE t == Unlocked(s, m, mode)
           step == [op |-> "unlock", memory |-> m, mode |-> mode]
<1>1. PICK D \in SUBSET Addresses : s.protection \in [D -> Modes]
    BY DEF WellFormed
<1>2. /\ t.protection = [s.protection EXCEPT ![m] = mode]
      /\ t.users = s.users
      /\ t.unlockers = Append(s.unlockers, m)
    BY DEF Unlocked, State
<1> HIDE DEF t
<1>3. Does(s, step, t)
    BY DEF Does, t
<1>4. Runs(Unlock(m, mode), s, t)
    BY <1>3, RunsOne DEF Unlock
<1>5. Unlock(m, mode) \in Seq(Step)
    BY <1>1, StepTypes
<1>6. t.protection \in [D -> Modes] /\ DOMAIN t.protection = D /\ DOMAIN s.protection = D
      /\ t.protection[m] = mode
      /\ \A x \in D : x # m => t.protection[x] = s.protection[x]
    BY <1>1, <1>2
<1>7. WellFormed(t)
  <2>1. Append(s.unlockers, m) \in Seq(D)
      BY <1>6, LastUnlocker DEF WellFormed
  <2> QED BY <1>2, <1>6, <2>1 DEF WellFormed
<1>8. InScopeBut(t, {})
  <2> SUFFICES ASSUME NEW x \in D, t.protection[x] # "noaccess"
               PROVE  \E i \in 1..Len(t.unlockers) : t.unlockers[i] = x
      BY <1>6 DEF InScopeBut
  <2>1. s.unlockers \in Seq(D) /\ m \in D
      BY <1>6 DEF WellFormed
  <2>2. CASE x = m
      BY <1>2, <2>1, <2>2, LastUnlocker
  <2>3. CASE x # m
    <3>1. PICK i \in 1..Len(s.unlockers) : s.unlockers[i] = x
        BY <1>6, <2>3 DEF InScopeBut
    <3> QED BY <1>2, <2>1, <3>1, LastUnlocker
  <2> QED BY <2>2, <2>3
<1> QED BY <1>4, <1>5, <1>7, <1>8 DEF Recoverable, t

\* What Unlocker's constructor changes.
LEMMA UnlockedFields ==
    ASSUME NEW s, NEW m \in DOMAIN s.protection, NEW mode
    PROVE  /\ Unlocked(s, m, mode).protection = [s.protection EXCEPT ![m] = mode]
           /\ DOMAIN Unlocked(s, m, mode).protection = DOMAIN s.protection
           /\ Unlocked(s, m, mode).protection[m] = mode
           /\ Unlocked(s, m, mode).users = s.users
           /\ Unlocked(s, m, mode).unlockers = Append(s.unlockers, m)
    BY DEF Unlocked, State

\* Memory that is open is used.
LEMMA UseRuns ==
    ASSUME NEW s, Recoverable(s), NEW m \in DOMAIN s.protection, NEW mode \in Modes,
           s.protection[m] = mode
    PROVE  Use(m, mode) \in Seq(Step) /\ Runs(Use(m, mode), s, s)
<1>1. m \in Addresses
    BY DEF Recoverable, WellFormed
<1>2. Does(s, [op |-> "use", memory |-> m, mode |-> mode], s)
    BY DEF Does
<1> QED BY <1>1, <1>2, StepTypes, RunsOne DEF Use

\* Unlocker's destructor.
LEMMA EndRuns ==
    ASSUME NEW s, NEW D, D = DOMAIN s.protection, NEW scopes \in Seq(D), NEW m \in D,
           s.unlockers = Append(scopes, m)
    PROVE  /\ ScopeEnd \in Seq(Step)
           /\ Runs(ScopeEnd, s, State([s.protection EXCEPT ![m] = "noaccess"],
                                      s.users, scopes))
<1> DEFINE t == State([s.protection EXCEPT ![m] = "noaccess"], s.users, scopes)
<1>1. s.unlockers # <<>> /\ Last(s.unlockers) = m /\ Front(s.unlockers) = scopes
    BY LastUnlocker
<1>2. t = Locked(s)
    BY <1>1 DEF Locked
<1>3. Does(s, [op |-> "end"], t)
  <2> HIDE DEF t
  <2> QED BY <1>1, <1>2 DEF Does
<1>4. Runs(ScopeEnd, s, t)
    BY <1>3, RunsOne DEF ScopeEnd
<1> QED BY <1>4, StepTypes

\* An Unlocker around the use of memory leaves it locked, whatever it was before.
LEMMA ScopeRuns ==
    ASSUME NEW s, WellFormed(s), NEW m \in DOMAIN s.protection, NEW mode \in Modes,
           InScopeBut(s, {m})
    PROVE  /\ Scope(m, mode) \in Seq(Step)
           /\ Runs(Scope(m, mode), s,
                   State(LockedIn(s.protection, {m}), s.users, s.unlockers))
<1> DEFINE t == Unlocked(s, m, mode)
           D == DOMAIN s.protection
           u == State(LockedIn(s.protection, {m}), s.users, s.unlockers)
<1>1. /\ Unlock(m, mode) \in Seq(Step) /\ Runs(Unlock(m, mode), s, t) /\ Recoverable(t)
      /\ DOMAIN t.protection = D /\ t.protection[m] = mode
      /\ t.protection = [s.protection EXCEPT ![m] = mode]
      /\ t.users = s.users /\ t.unlockers = Append(s.unlockers, m)
  <2>1. Unlock(m, mode) \in Seq(Step) /\ Runs(Unlock(m, mode), s, t) /\ Recoverable(t)
      BY UnlockRuns
  <2> QED BY <2>1, UnlockedFields
<1> HIDE DEF t
<1>2. Use(m, mode) \in Seq(Step) /\ Runs(Use(m, mode), t, t)
    BY <1>1, UseRuns
<1>3. s.unlockers \in Seq(D) /\ s.protection = [x \in D |-> s.protection[x]]
    BY DEF WellFormed
<1>4. /\ ScopeEnd \in Seq(Step)
      /\ Runs(ScopeEnd, t, State([t.protection EXCEPT ![m] = "noaccess"],
                                 t.users, s.unlockers))
  <2> HIDE DEF D
  <2> QED BY <1>1, <1>3, EndRuns DEF D
<1>5. State([t.protection EXCEPT ![m] = "noaccess"], t.users, s.unlockers) = u
  <2>1. [t.protection EXCEPT ![m] = "noaccess"]
           = [[s.protection EXCEPT ![m] = mode] EXCEPT ![m] = "noaccess"]
      BY <1>1
  <2>2. [[s.protection EXCEPT ![m] = mode] EXCEPT ![m] = "noaccess"]
           = LockedIn(s.protection, {m})
      BY <1>3 DEF LockedIn
  <2> QED BY <1>1, <2>1, <2>2
<1> HIDE DEF u
<1>6. /\ Unlock(m, mode) \o Use(m, mode) \in Seq(Step)
      /\ Runs(Unlock(m, mode) \o Use(m, mode), s, t)
    BY <1>1, <1>2, RunsConcat
<1>7. /\ Unlock(m, mode) \o Use(m, mode) \o ScopeEnd \in Seq(Step)
      /\ Runs(Unlock(m, mode) \o Use(m, mode) \o ScopeEnd, s, u)
    BY <1>4, <1>5, <1>6, RunsConcat
<1> QED BY <1>7 DEF Scope, u

\* Locking memory early does not keep a failure from being cleaned up.
LEMMA LockedRecoverable ==
    ASSUME NEW s, Recoverable(s), NEW ms
    PROVE  Recoverable(State(LockedIn(s.protection, ms), s.users, s.unlockers))
<1> DEFINE t == State(LockedIn(s.protection, ms), s.users, s.unlockers)
<1>1. PICK D \in SUBSET Addresses : s.protection \in [D -> Modes]
    BY DEF Recoverable, WellFormed
<1>2. t.protection = LockedIn(s.protection, ms) /\ t.users = s.users
      /\ t.unlockers = s.unlockers
    BY DEF State
<1> HIDE DEF t
<1>3. /\ t.protection \in [D -> Modes]
      /\ \A x \in D :
            t.protection[x] = IF x \in ms THEN "noaccess" ELSE s.protection[x]
    BY <1>1, <1>2 DEF LockedIn, Modes
<1>4. DOMAIN t.protection = D /\ DOMAIN s.protection = D
    BY <1>1, <1>3
<1>5. WellFormed(t)
    BY <1>2, <1>3, <1>4 DEF Recoverable, WellFormed
<1>6. InScopeBut(t, {})
    BY <1>2, <1>3, <1>4 DEF Recoverable, InScopeBut
<1> QED BY <1>5, <1>6 DEF Recoverable, t

\* UserStore::exportProtobuf leaves the keys of every user locked.
LEMMA ExportUsersRuns ==
    ASSUME NEW s, Recoverable(s), NEW ms \in SUBSET Memories, ms \subseteq DOMAIN s.protection
    PROVE  /\ exportUsers(ms) \in Seq(Step)
           /\ Runs(exportUsers(ms), s,
                   State(LockedIn(s.protection, ms), s.users, s.unlockers))
<1>1. Does(s, [op |-> "exportProtobuf", memories |-> ms],
           State(LockedIn(s.protection, ms), s.users, s.unlockers))
    BY DEF Does, Exported
<1> QED BY <1>1, RunsOne, StepTypes DEF exportUsers

\* export_all leaves the keys of every user and the backup key locked, also if one
\* of them was open before.
LEMMA ExportAllRuns ==
    ASSUME NEW s, Recoverable(s), BackupKey \in DOMAIN s.protection,
           NEW ms \in SUBSET Memories, ms \subseteq DOMAIN s.protection
    PROVE  /\ export_all(ms, TRUE) \in Seq(Step)
           /\ Runs(export_all(ms, TRUE), s,
                   State(LockedIn(s.protection, ms \union {BackupKey}),
                         s.users, s.unlockers))
<1> DEFINE D == DOMAIN s.protection
           bk == BackupKey
           mode == "readonly"
           s1 == Unlocked(s, bk, mode)
           s2 == State(LockedIn(s1.protection, ms), s1.users, s1.unlockers)
           t == State(LockedIn(s.protection, ms \union {bk}), s.users, s.unlockers)
           begin == Unlock(bk, mode)
           loop == exportUsers(ms)
           encrypt == Use(bk, mode)
<1>1. /\ WellFormed(s) /\ InScopeBut(s, {bk}) /\ mode \in Modes /\ bk \in D /\ bk \notin ms
      /\ s.unlockers \in Seq(D) /\ s.protection = [x \in D |-> s.protection[x]]
      /\ ms \subseteq D
    BY MasterKeysAssumption DEF Recoverable, WellFormed, InScopeBut, Modes
<1> HIDE DEF bk, mode
<1>2. /\ begin \in Seq(Step) /\ Runs(begin, s, s1)
      /\ Recoverable(s1) /\ DOMAIN s1.protection = D
      /\ s1.protection = [s.protection EXCEPT ![bk] = mode]
      /\ s1.protection[bk] = mode
      /\ s1.users = s.users /\ s1.unlockers = Append(s.unlockers, bk)
  <2>1. begin \in Seq(Step) /\ Runs(begin, s, s1) /\ Recoverable(s1)
      BY <1>1, UnlockRuns
  <2> QED BY <1>1, <2>1, UnlockedFields
<1> HIDE DEF s1
<1>3. loop \in Seq(Step) /\ Runs(loop, s1, s2)
    BY <1>1, <1>2, ExportUsersRuns
<1>4. /\ s2.protection = LockedIn(s1.protection, ms)
      /\ s2.users = s.users /\ s2.unlockers = Append(s.unlockers, bk)
    BY <1>2 DEF State
<1>5. /\ Recoverable(s2) /\ DOMAIN s2.protection = D
      /\ s2.protection[bk] = mode
  <2>1. Recoverable(s1)
      BY <1>2
  <2>2. Recoverable(s2)
      BY <2>1, LockedRecoverable
  <2> HIDE DEF s2
  <2> QED BY <1>1, <1>2, <1>4, <2>2 DEF LockedIn
<1> HIDE DEF s2
<1>6. encrypt \in Seq(Step) /\ Runs(encrypt, s2, s2)
    BY <1>1, <1>5, UseRuns
<1>7. ScopeEnd \in Seq(Step) /\ Runs(ScopeEnd, s2, t)
  <2>1. Runs(ScopeEnd, s2, State([s2.protection EXCEPT ![bk] = "noaccess"],
                                 s2.users, s.unlockers))
        /\ ScopeEnd \in Seq(Step)
    <3> HIDE DEF D
    <3> QED BY <1>1, <1>4, <1>5, EndRuns
  <2>2. [s2.protection EXCEPT ![bk] = "noaccess"] = LockedIn(s.protection, ms \union {bk})
      BY <1>1, <1>2, <1>4 DEF LockedIn
  <2> QED BY <1>4, <2>1, <2>2
<1> HIDE DEF t, begin, loop, encrypt
<1>8. begin \o loop \in Seq(Step) /\ Runs(begin \o loop, s, s2)
    BY <1>2, <1>3, RunsConcat
<1>9. begin \o loop \o encrypt \in Seq(Step) /\ Runs(begin \o loop \o encrypt, s, s2)
    BY <1>6, <1>8, RunsConcat
<1>10. /\ begin \o loop \o encrypt \o ScopeEnd \in Seq(Step)
       /\ Runs(begin \o loop \o encrypt \o ScopeEnd, s, t)
    BY <1>7, <1>9, RunsConcat
<1>11. export_all(ms, TRUE) = begin \o loop \o encrypt \o ScopeEnd
    BY DEF export_all, begin, loop, encrypt, bk, mode
<1> QED BY <1>10, <1>11 DEF t, bk

\* MasterKeys::import and MasterKeys::create leave the new memory locked.
LEMMA ImportRuns ==
    ASSUME NEW s, Recoverable(s), NEW m \in Memories, m \notin DOMAIN s.protection,
           NEW t, t = Imported(s, {m})
    PROVE  /\ import(m) \in Seq(Step) /\ Runs(import(m), s, t)
           /\ create(m) \in Seq(Step) /\ Runs(create(m), s, t)
           /\ Recoverable(t)
<1> DEFINE D == DOMAIN s.protection
<1>1. PICK s1 : s1 = Allocated(s, m)
    OBVIOUS
<1>2. /\ s1.users = s.users /\ s1.unlockers = s.unlockers
      /\ s1.protection = [x \in D \union {m} |->
                            IF x # m THEN s.protection[x]
                            ELSE IF m = BackupKey THEN "readwrite" ELSE "noaccess"]
    BY <1>1 DEF Allocated, State
<1>3. m # BackupKey /\ m \in Addresses /\ "readwrite" \in Modes
    BY MasterKeysAssumption DEF Addresses, Modes
<1>4. s1.protection = [x \in D \union {m} |->
                         IF x \in {m} THEN "noaccess" ELSE s.protection[x]]
    BY <1>2, <1>3
<1>5. s1 = t
    BY <1>1, <1>3 DEF Allocated, Imported, State
<1>6. PICK E \in SUBSET Addresses : s.protection \in [E -> Modes]
    BY DEF Recoverable, WellFormed
<1>7. DOMAIN s1.protection = D \union {m} /\ s1.protection \in [E \union {m} -> Modes]
    BY <1>4, <1>6 DEF Modes
<1>8. Recoverable(s1)
  <2>1. WellFormed(s1)
    <3>1. s.unlockers \in Seq(D) => s.unlockers \in Seq(D \union {m})
        OBVIOUS
    <3> QED BY <1>2, <1>3, <1>7, <3>1 DEF Recoverable, WellFormed
  <2>2. InScopeBut(s1, {})
      BY <1>2, <1>4 DEF Recoverable, InScopeBut
  <2> QED BY <2>1, <2>2 DEF Recoverable
<1>9. Allocate(m) \in Seq(Step) /\ Runs(Allocate(m), s, s1)
  <2>1. Does(s, [op |-> "allocate", memory |-> m], s1)
      BY <1>1 DEF Does
  <2> QED BY <1>3, <2>1, RunsOne, StepTypes DEF Allocate
<1>10. /\ Scope(m, "readwrite") \in Seq(Step)
       /\ Runs(Scope(m, "readwrite"), s1,
               State(LockedIn(s1.protection, {m}), s1.users, s1.unlockers))
  <2>1. WellFormed(s1) /\ InScopeBut(s1, {m}) /\ m \in DOMAIN s1.protection
      BY <1>7, <1>8 DEF Recoverable, InScopeBut
  <2> QED BY <1>3, <2>1, ScopeRuns
<1>11. LockedIn(s1.protection, {m}) = s1.protection
    BY <1>4 DEF LockedIn
<1>12. State(LockedIn(s1.protection, {m}), s1.users, s1.unlockers) = s1
    BY <1>1, <1>11 DEF Allocated, State
<1>13. /\ Allocate(m) \o Scope(m, "readwrite") \in Seq(Step)
       /\ Runs(Allocate(m) \o Scope(m, "readwrite"), s, t)
    BY <1>5, <1>9, <1>10, <1>12, RunsConcat
<1> QED BY <1>5, <1>8, <1>13 DEF import, create

\* No Unlocker is in scope, and all of the memory ms is locked
Quiet(ms, owners) == State(AllLocked(ms), owners, <<>>)

\* A state without open memory and what locking does to it.
LEMMA QuietState ==
    ASSUME NEW ms \in SUBSET Addresses, NEW owners \in SUBSET (ms \cap Memories)
    PROVE  LET s == Quiet(ms, owners)
           IN  /\ Recoverable(s)
               /\ s.protection = AllLocked(ms) /\ DOMAIN s.protection = ms
               /\ s.users = owners /\ s.unlockers = <<>>
               /\ \A more : LockedIn(AllLocked(ms), more) = AllLocked(ms)
<1> DEFINE s == Quiet(ms, owners)
<1>1. /\ s.protection = AllLocked(ms) /\ DOMAIN s.protection = ms
      /\ s.users = owners /\ s.unlockers = <<>>
      /\ AllLocked(ms) \in [ms -> Modes]
      /\ \A x \in ms : s.protection[x] = "noaccess"
    BY DEF Quiet, State, AllLocked, Modes
<1>2. \A more : LockedIn(AllLocked(ms), more) = AllLocked(ms)
    BY DEF LockedIn, AllLocked
<1> HIDE DEF s
<1>3. WellFormed(s)
    BY <1>1 DEF WellFormed
<1>4. InScopeBut(s, {})
    BY <1>1 DEF InScopeBut
<1> QED BY <1>1, <1>2, <1>3, <1>4 DEF Recoverable, s

\* MasterKeys::create, called while everything is locked.
LEMMA QuietCreate ==
    ASSUME NEW ms \in SUBSET Addresses, NEW owners \in SUBSET (ms \cap Memories),
           NEW m \in Memories, m \notin ms
    PROVE  /\ create(m) \in Seq(Step)
           /\ Runs(create(m), Quiet(ms, owners), Quiet(ms \union {m}, owners))
<1> DEFINE s == Quiet(ms, owners)
<1>1. /\ Recoverable(s) /\ s.protection = AllLocked(ms) /\ DOMAIN s.protection = ms
      /\ s.users = owners /\ s.unlockers = <<>>
    BY QuietState
<1> HIDE DEF s
<1>2. Imported(s, {m}) = Quiet(ms \union {m}, owners)
    BY <1>1 DEF Imported, Quiet, AllLocked
<1>3. create(m) \in Seq(Step) /\ Runs(create(m), s, Imported(s, {m}))
    BY <1>1, ImportRuns
<1> QED BY <1>2, <1>3 DEF s

\* UserStore::import, called while everything is locked.
LEMMA QuietImport ==
    ASSUME NEW ms \in SUBSET Addresses, NEW owners \in SUBSET (ms \cap Memories),
           NEW new \in SUBSET Memories, new \cap ms = {}
    PROVE  /\ importUsers(new) \in Seq(Step)
           /\ Runs(importUsers(new), Quiet(ms, owners), Quiet(ms \union new, owners))
<1> DEFINE s == Quiet(ms, owners)
           t == Quiet(ms \union new, owners)
<1>1. /\ Recoverable(s) /\ s.protection = AllLocked(ms) /\ DOMAIN s.protection = ms
      /\ s.users = owners /\ s.unlockers = <<>>
    BY QuietState
<1> HIDE DEF s
<1>2. Imported(s, new) = t
    BY <1>1 DEF Imported, Quiet, AllLocked
<1> HIDE DEF t
<1>3. Does(s, [op |-> "import", memories |-> new], t)
    BY <1>1, <1>2 DEF Does
<1>4. Runs(importUsers(new), s, t)
    BY <1>3, RunsOne DEF importUsers
<1> QED BY <1>4, StepTypes DEF s, t

\* The user store changes while everything is locked.
LEMMA QuietOwn ==
    ASSUME NEW ms \in SUBSET Addresses, NEW owners \in SUBSET (ms \cap Memories),
           NEW new \in SUBSET (ms \cap Memories)
    PROVE  /\ Own(new) \in Seq(Step)
           /\ Runs(Own(new), Quiet(ms, owners), Quiet((new \union {BackupKey}) \cap ms, new))
<1> DEFINE s == Quiet(ms, owners)
           t == Quiet((new \union {BackupKey}) \cap ms, new)
<1>1. /\ Recoverable(s) /\ s.protection = AllLocked(ms) /\ DOMAIN s.protection = ms
      /\ s.users = owners /\ s.unlockers = <<>>
    BY QuietState
<1> HIDE DEF s
<1>2. Owned(s, new) = t
    BY <1>1 DEF Owned, Quiet, AllLocked, Restrict
<1> HIDE DEF t
<1>3. Does(s, [op |-> "own", memories |-> new], t)
    BY <1>1, <1>2 DEF Does
<1>4. Runs(Own(new), s, t)
    BY <1>3, RunsOne DEF Own
<1> QED BY <1>4, StepTypes DEF s, t

\* MasterKeys::sign and export_conversation, called while everything is locked.
LEMMA QuietScope ==
    ASSUME NEW ms \in SUBSET Addresses, NEW owners \in SUBSET (ms \cap Memories),
           NEW m \in ms, NEW mode \in Modes
    PROVE  /\ Scope(m, mode) \in Seq(Step)
           /\ Runs(Scope(m, mode), Quiet(ms, owners), Quiet(ms, owners))
<1> DEFINE s == Quiet(ms, owners)
<1>1. /\ Recoverable(s) /\ s.protection = AllLocked(ms) /\ DOMAIN s.protection = ms
      /\ s.users = owners /\ s.unlockers = <<>>
      /\ LockedIn(AllLocked(ms), {m}) = AllLocked(ms)
    BY QuietState
<1> HIDE DEF s
<1>2. WellFormed(s) /\ InScopeBut(s, {m})
    BY <1>1 DEF Recoverable, InScopeBut
<1>3. /\ Scope(m, mode) \in Seq(Step)
      /\ Runs(Scope(m, mode), s, State(LockedIn(s.protection, {m}), s.users, s.unlockers))
    BY <1>1, <1>2, ScopeRuns
<1>4. State(LockedIn(s.protection, {m}), s.users, s.unlockers) = s
    BY <1>1 DEF s, Quiet
<1> QED BY <1>3, <1>4 DEF s

\* export_all, called while everything is locked.
LEMMA QuietExport ==
    ASSUME NEW ms \in SUBSET Addresses, NEW owners \in SUBSET (ms \cap Memories),
           NEW some \in SUBSET (ms \cap Memories), NEW backup \in BOOLEAN,
           backup => BackupKey \in ms
    PROVE  /\ export_all(some, backup) \in Seq(Step)
           /\ Runs(export_all(some, backup), Quiet(ms, owners), Quiet(ms, owners))
<1> DEFINE s == Quiet(ms, owners)
           both == some \union {BackupKey}
<1>1. /\ Recoverable(s) /\ s.protection = AllLocked(ms) /\ DOMAIN s.protection = ms
      /\ s.users = owners /\ s.unlockers = <<>>
      /\ LockedIn(AllLocked(ms), both) = AllLocked(ms)
    BY QuietState
<1> HIDE DEF s
<1>2. CASE backup = TRUE
  <2>1. /\ export_all(some, TRUE) \in Seq(Step)
        /\ Runs(export_all(some, TRUE), s,
                State(LockedIn(s.protection, both), s.users, s.unlockers))
      BY <1>1, <1>2, ExportAllRuns
  <2>2. State(LockedIn(s.protection, both), s.users, s.unlockers) = s
      BY <1>1 DEF s, Quiet
  <2> QED BY <1>2, <2>1, <2>2 DEF s
<1>3. CASE backup = FALSE
  <2>1. export_all(some, backup) = <<>>
      BY <1>3 DEF export_all
  <2>2. <<>> \in Seq(Step)
      OBVIOUS
  <2> QED BY <2>1, <2>2, RunsNone
<1> QED BY <1>2, <1>3

\* update_backup_key, called while everything is locked.
LEMMA QuietBackupKey ==
    ASSUME NEW ms \in SUBSET Addresses, NEW owners \in SUBSET (ms \cap Memories),
           BackupKey \in DOMAIN protection <=> BackupKey \in ms
    PROVE  /\ update_backup_key \in Seq(Step)
           /\ Runs(update_backup_key, Quiet(ms, owners),
                   Quiet(ms \union {BackupKey}, owners))
<1> DEFINE s == Quiet(ms, owners)
           t == Quiet(ms \union {BackupKey}, owners)
           change == Scope(BackupKey, "readwrite")
<1>1. BackupKey \in Addresses /\ "readwrite" \in Modes
    BY DEF Addresses, Modes
<1>2. CASE BackupKey \in ms
  <2>1. change \in Seq(Step) /\ Runs(change, s, s)
      BY <1>1, <1>2, QuietScope
  <2>2. ms \union {BackupKey} = ms
      BY <1>2
  <2>3. update_backup_key = <<>> \o change
      BY <1>2 DEF update_backup_key
  <2>4. <<>> \in Seq(Step) /\ Runs(<<>>, s, s)
      BY RunsNone
  <2> HIDE DEF s, change
  <2>5. <<>> \o change \in Seq(Step) /\ Runs(<<>> \o change, s, s)
      BY <2>1, <2>4, RunsConcat
  <2> QED BY <2>2, <2>3, <2>5 DEF s
<1>3. CASE BackupKey \notin ms
  <2>1. /\ Recoverable(s) /\ s.protection = AllLocked(ms) /\ DOMAIN s.protection = ms
        /\ s.users = owners /\ s.unlockers = <<>>
      BY QuietState
  <2> HIDE DEF s
  <2> DEFINE s1 == Allocated(s, BackupKey)
             more == ms \union {BackupKey}
  <2>2. /\ s1.users = owners /\ s1.unlockers = <<>>
        /\ s1.protection = [x \in more |-> IF x # BackupKey THEN AllLocked(ms)[x]
                                           ELSE "readwrite"]
      BY <2>1 DEF Allocated, State
  <2>3. Does(s, [op |-> "allocate", memory |-> BackupKey], s1)
    <3> HIDE DEF s1
    <3> QED BY <1>3, <2>1 DEF Does, s1
  <2>4. Allocate(BackupKey) \in Seq(Step) /\ Runs(Allocate(BackupKey), s, s1)
      BY <1>1, <2>3, RunsOne, StepTypes DEF Allocate
  <2> HIDE DEF s1
  <2>5. /\ DOMAIN s1.protection = more /\ s1.protection \in [more -> Modes]
        /\ \A x \in more : x # BackupKey => s1.protection[x] = "noaccess"
      BY <2>2 DEF AllLocked, Modes
  <2>6. WellFormed(s1) /\ InScopeBut(s1, {BackupKey}) /\ BackupKey \in DOMAIN s1.protection
    <3>1. more \in SUBSET Addresses /\ BackupKey \in more
        BY <1>1
    <3> HIDE DEF more
    <3>2. owners \subseteq more \cap Memories
        BY DEF more
    <3> QED BY <2>2, <2>5, <3>1, <3>2 DEF WellFormed, InScopeBut
  <2>7. /\ change \in Seq(Step)
        /\ Runs(change, s1, State(LockedIn(s1.protection, {BackupKey}),
                                  s1.users, s1.unlockers))
      BY <1>1, <2>6, ScopeRuns
  <2>8. LockedIn(s1.protection, {BackupKey}) = AllLocked(more)
      BY <2>5 DEF LockedIn, AllLocked
  <2>9. State(LockedIn(s1.protection, {BackupKey}), s1.users, s1.unlockers) = t
      BY <2>2, <2>8 DEF Quiet
  <2> HIDE DEF t, change
  <2>10. /\ Allocate(BackupKey) \o change \in Seq(Step)
         /\ Runs(Allocate(BackupKey) \o change, s, t)
      BY <2>4, <2>7, <2>9, RunsConcat
  <2>11. update_backup_key = Allocate(BackupKey) \o change
      BY <1>3 DEF update_backup_key, change
  <2> QED BY <2>10, <2>11 DEF s, t
<1> QED BY <1>2, <1>3

-----------------------------------------------------------------------------
(***************************************************************************)
(* The calls of the library                                                *)
(***************************************************************************)

\* The call runs to the end from here
WillEnd(steps) ==
    /\ steps \in Seq(Step)
    /\ \E t : Idle(t) /\ Runs(steps, Now, t)

\* The state in which a call begins, ms being all memory that is allocated
Ready(ms) ==
    /\ ms \in SUBSET Addresses
    /\ protection = AllLocked(ms)
    /\ users = ms \ {BackupKey}
    /\ unlockers = <<>>

\* In that state everything is locked and has its owner.
LEMMA ReadyState ==
    ASSUME NEW ms, Ready(ms)
    PROVE  /\ ms \in SUBSET Addresses /\ DOMAIN protection = ms
           /\ users \in SUBSET (ms \cap Memories) /\ users \in SUBSET Memories
           /\ users = ms \ {BackupKey}
           /\ Now = Quiet(ms, users)
           /\ BackupKey \in Addresses /\ BackupKey \notin users
<1>1. ms \in SUBSET Addresses /\ users = ms \ {BackupKey} /\ DOMAIN protection = ms
    BY DEF Ready, AllLocked
<1>2. Now = Quiet(ms, users)
    BY DEF Ready, Now, Quiet
<1> QED BY <1>1, <1>2, MasterKeysAssumption DEF Addresses

\* Where a call may end.
LEMMA QuietIdle ==
    ASSUME NEW ms \in SUBSET Addresses
    PROVE  Idle(Quiet(ms, ms \ {BackupKey}))
    BY DEF Idle, Quiet

\* molch_update_backup_key
LEMMA UpdateBackupKeyEnds ==
    ASSUME NEW ms, Ready(ms) PROVE WillEnd(update_backup_key)
<1> DEFINE more == ms \union {BackupKey}
<1>1. /\ update_backup_key \in Seq(Step)
      /\ Runs(update_backup_key, Now, Quiet(more, users))
    BY ReadyState, QuietBackupKey
<1>2. users = more \ {BackupKey} /\ more \in SUBSET Addresses
    BY ReadyState
<1> HIDE DEF more
<1>3. Idle(Quiet(more, users))
    BY <1>2, QuietIdle
<1> QED BY <1>1, <1>3 DEF WillEnd

\* molch_destroy_all_users
LEMMA DestroyAllUsersEnds ==
    ASSUME NEW ms, Ready(ms) PROVE WillEnd(Own({}))
<1> DEFINE left == ({} \union {BackupKey}) \cap ms
<1>1. /\ ms \in SUBSET Addresses /\ users \in SUBSET (ms \cap Memories)
      /\ Now = Quiet(ms, users) /\ {} \in SUBSET (ms \cap Memories)
    BY ReadyState
<1>2. Own({}) \in Seq(Step) /\ Runs(Own({}), Now, Quiet(left, {}))
    BY <1>1, QuietOwn
<1>3. left \in SUBSET Addresses /\ {} = left \ {BackupKey}
    BY <1>1
<1> HIDE DEF left
<1>4. Idle(Quiet(left, {}))
    BY <1>3, QuietIdle
<1> QED BY <1>2, <1>4 DEF WillEnd

\* molch_create_user
LEMMA CreateUserEnds ==
    ASSUME NEW ms, Ready(ms), NEW m \in Free, NEW backup \in BOOLEAN
    PROVE  WillEnd(create_user(m, backup))
<1> DEFINE more == ms \union {BackupKey}
           most == more \union {m}
           owners == users \union {m}
           a == update_backup_key
           b == create(m)
           c == Own(owners)
           d == create_prekey_list(m)
           e == export_all(owners, backup)
<1>1. /\ ms \in SUBSET Addresses /\ DOMAIN protection = ms /\ users = ms \ {BackupKey}
      /\ users \in SUBSET (ms \cap Memories) /\ Now = Quiet(ms, users)
      /\ BackupKey \in Addresses /\ BackupKey \notin users
    BY ReadyState
<1>2. m \in Memories /\ m \notin ms /\ m # BackupKey /\ m \in Addresses
    BY <1>1, MasterKeysAssumption DEF Free, Addresses
<1>3. /\ more \in SUBSET Addresses /\ most \in SUBSET Addresses /\ m \notin more
      /\ users \in SUBSET (more \cap Memories) /\ users \in SUBSET (most \cap Memories)
      /\ owners \in SUBSET (most \cap Memories)
      /\ (owners \union {BackupKey}) \cap most = most
      /\ owners = most \ {BackupKey} /\ BackupKey \in most /\ m \in most
    BY <1>1, <1>2
<1> HIDE DEF more, most, owners
<1>4. a \in Seq(Step) /\ Runs(a, Now, Quiet(more, users))
    BY <1>1, QuietBackupKey DEF more
<1>5. b \in Seq(Step) /\ Runs(b, Quiet(more, users), Quiet(most, users))
    BY <1>2, <1>3, QuietCreate DEF most
<1>6. c \in Seq(Step) /\ Runs(c, Quiet(most, users), Quiet(most, owners))
  <2>1. /\ c \in Seq(Step)
        /\ Runs(c, Quiet(most, users), Quiet((owners \union {BackupKey}) \cap most, owners))
      BY <1>3, QuietOwn
  <2> QED BY <1>3, <2>1
<1>7. d \in Seq(Step) /\ Runs(d, Quiet(most, owners), Quiet(most, owners))
  <2>1. "readonly" \in Modes
      BY DEF Modes
  <2> QED BY <1>3, <2>1, QuietScope DEF create_prekey_list, sign
<1>8. e \in Seq(Step) /\ Runs(e, Quiet(most, owners), Quiet(most, owners))
    BY <1>3, QuietExport
<1> DEFINE t == Quiet(most, owners)
<1>9. Idle(t)
    BY <1>3, QuietIdle
<1>10. create_user(m, backup) = a \o b \o c \o d \o e
    BY DEF create_user, owners
<1> HIDE DEF a, b, c, d, e, t
<1>11. a \o b \in Seq(Step) /\ Runs(a \o b, Now, Quiet(most, users))
    BY <1>4, <1>5, RunsConcat
<1>12. a \o b \o c \in Seq(Step) /\ Runs(a \o b \o c, Now, t)
    BY <1>6, <1>11, RunsConcat DEF t
<1>13. a \o b \o c \o d \in Seq(Step) /\ Runs(a \o b \o c \o d, Now, t)
    BY <1>7, <1>12, RunsConcat DEF t
<1>14. a \o b \o c \o d \o e \in Seq(Step) /\ Runs(a \o b \o c \o d \o e, Now, t)
    BY <1>8, <1>13, RunsConcat DEF t
<1> QED BY <1>9, <1>10, <1>14 DEF WillEnd

\* molch_import
LEMMA ImportAllEnds ==
    ASSUME NEW ms, Ready(ms), NEW new \in SUBSET Free
    PROVE  WillEnd(import_all(new))
<1> DEFINE more == ms \union new
           most == more \union {BackupKey}
           left == (new \union {BackupKey}) \cap most
           a == importUsers(new)
           b == update_backup_key
           c == Own(new)
           t == Quiet(left, new)
<1>1. /\ ms \in SUBSET Addresses /\ DOMAIN protection = ms /\ users = ms \ {BackupKey}
      /\ users \in SUBSET (ms \cap Memories) /\ Now = Quiet(ms, users)
      /\ BackupKey \in Addresses /\ BackupKey \notin users
    BY ReadyState
<1>2. new \in SUBSET Memories /\ new \cap ms = {} /\ BackupKey \notin new
    BY <1>1, MasterKeysAssumption DEF Free
<1>3. /\ more \in SUBSET Addresses /\ most \in SUBSET Addresses /\ left \in SUBSET Addresses
      /\ users \in SUBSET (more \cap Memories) /\ users \in SUBSET (most \cap Memories)
      /\ new \in SUBSET (most \cap Memories)
      /\ new = left \ {BackupKey}
      /\ BackupKey \in DOMAIN protection <=> BackupKey \in more
    BY <1>1, <1>2 DEF Addresses
<1> HIDE DEF more, most, left
<1>4. a \in Seq(Step) /\ Runs(a, Now, Quiet(more, users))
    BY <1>1, <1>2, QuietImport DEF more
<1>5. b \in Seq(Step) /\ Runs(b, Quiet(more, users), Quiet(most, users))
    BY <1>3, QuietBackupKey DEF most
<1>6. c \in Seq(Step) /\ Runs(c, Quiet(most, users), t)
    BY <1>3, QuietOwn DEF left
<1>7. Idle(t)
    BY <1>3, QuietIdle
<1>8. import_all(new) = a \o b \o c
    BY DEF import_all
<1> HIDE DEF a, b, c, t
<1>9. a \o b \in Seq(Step) /\ Runs(a \o b, Now, Quiet(most, users))
    BY <1>4, <1>5, RunsConcat
<1>10. a \o b \o c \in Seq(Step) /\ Runs(a \o b \o c, Now, t)
    BY <1>6, <1>9, RunsConcat
<1> QED BY <1>7, <1>8, <1>10 DEF WillEnd

\* molch_get_prekey_list, molch_conversation_export and the export at the end of
\* encrypting and decrypting, molch_export
LEMMA ScopedCallsEnd ==
    ASSUME NEW ms, Ready(ms)
    PROVE  /\ \A m \in users : WillEnd(create_prekey_list(m))
           /\ BackupKey \in ms =>
                 WillEnd(export_conversation) /\ WillEnd(export_all(users, TRUE))
<1>1. /\ ms \in SUBSET Addresses /\ users = ms \ {BackupKey}
      /\ users \in SUBSET (ms \cap Memories) /\ Now = Quiet(ms, users)
      /\ "readonly" \in Modes
    BY ReadyState DEF Modes
<1>2. Idle(Now)
    BY <1>1, QuietIdle
<1>3. ASSUME NEW m \in users PROVE WillEnd(create_prekey_list(m))
  <2>1. Scope(m, "readonly") \in Seq(Step) /\ Runs(Scope(m, "readonly"), Now, Now)
      BY <1>1, QuietScope
  <2> QED BY <1>2, <2>1 DEF WillEnd, create_prekey_list, sign
<1>4. ASSUME BackupKey \in ms PROVE WillEnd(export_conversation)
  <2>1. /\ Scope(BackupKey, "readonly") \in Seq(Step)
        /\ Runs(Scope(BackupKey, "readonly"), Now, Now)
      BY <1>1, <1>4, QuietScope
  <2> QED BY <1>2, <2>1 DEF WillEnd, export_conversation
<1>5. ASSUME BackupKey \in ms PROVE WillEnd(export_all(users, TRUE))
  <2>1. /\ export_all(users, TRUE) \in Seq(Step)
        /\ Runs(export_all(users, TRUE), Now, Now)
      BY <1>1, <1>5, QuietExport
  <2> QED BY <1>2, <2>1 DEF WillEnd
<1> QED BY <1>3, <1>4, <1>5

\* molch_destroy_user
LEMMA DestroyUserEnds ==
    ASSUME NEW ms, Ready(ms), BackupKey \in ms, NEW m \in users, NEW backup \in BOOLEAN
    PROVE  WillEnd(destroy_user(m, backup))
<1> DEFINE owners == users \ {m}
           left == (owners \union {BackupKey}) \cap ms
           t == Quiet(left, owners)
           a == Own(owners)
           b == export_all(owners, backup)
<1>1. /\ ms \in SUBSET Addresses /\ users = ms \ {BackupKey}
      /\ users \in SUBSET (ms \cap Memories) /\ Now = Quiet(ms, users)
    BY ReadyState
<1>2. /\ left \in SUBSET Addresses /\ owners = left \ {BackupKey} /\ BackupKey \in left
      /\ owners \in SUBSET (ms \cap Memories) /\ owners \in SUBSET (left \cap Memories)
    BY <1>1
<1> HIDE DEF owners, left
<1>3. a \in Seq(Step) /\ Runs(a, Now, t)
    BY <1>1, <1>2, QuietOwn DEF left
<1>4. b \in Seq(Step) /\ Runs(b, t, t)
    BY <1>2, QuietExport
<1>5. Idle(t)
    BY <1>2, QuietIdle
<1>6. destroy_user(m, backup) = a \o b
    BY DEF destroy_user, owners
<1> HIDE DEF a, b, t
<1>7. a \o b \in Seq(Step) /\ Runs(a \o b, Now, t)
    BY <1>3, <1>4, RunsConcat
<1> QED BY <1>5, <1>6, <1>7 DEF WillEnd

\* Locking memory twice.
LEMMA LockedTwice ==
    ASSUME NEW p, NEW a, NEW b
    PROVE  /\ LockedIn(LockedIn(p, a), b) = LockedIn(p, a \union b)
           /\ DOMAIN LockedIn(p, a) = DOMAIN p
    BY DEF LockedIn

\* export_all inside the scope of an Unlocker, if a backup was asked for.
LEMMA NestedExport ==
    ASSUME NEW p, NEW owners, NEW scopes, Recoverable(State(p, owners, scopes)),
           p = [x \in DOMAIN p |-> p[x]], BackupKey \in DOMAIN p,
           NEW ms \in SUBSET Memories, ms \subseteq DOMAIN p, NEW backup \in BOOLEAN
    PROVE  /\ export_all(ms, backup) \in Seq(Step)
           /\ \E more : Runs(export_all(ms, backup), State(p, owners, scopes),
                             State(LockedIn(p, more), owners, scopes))
<1> DEFINE s == State(p, owners, scopes)
<1>1. s.protection = p /\ s.users = owners /\ s.unlockers = scopes
    BY DEF State
<1>2. CASE backup = TRUE
  <2> HIDE DEF s
  <2>1. /\ export_all(ms, TRUE) \in Seq(Step)
        /\ Runs(export_all(ms, TRUE), s,
                State(LockedIn(s.protection, ms \union {BackupKey}), s.users, s.unlockers))
      BY <1>1, ExportAllRuns DEF s
  <2> QED BY <1>1, <1>2, <2>1 DEF s
<1>3. CASE backup = FALSE
  <2>1. export_all(ms, backup) = <<>> /\ <<>> \in Seq(Step)
      BY <1>3 DEF export_all
  <2>2. LockedIn(p, {}) = p
      BY DEF LockedIn
  <2>3. Runs(<<>>, s, State(LockedIn(p, {}), owners, scopes))
      BY <2>2, RunsNone
  <2> QED BY <2>1, <2>3
<1> QED BY <1>2, <1>3

\* All of the memory ms is locked, but m can be read
Opened(ms, m) == [AllLocked(ms) EXCEPT ![m] = "readonly"]

\* The Unlocker of m is the only one in scope
Alone(m) == <<m>>

\* The outer Unlocker of start_send_conversation and start_receive_conversation: it
\* opens the keys of the user, and whatever is locked before its scope ends, in the
\* end everything is.
LEMMA OuterScope ==
    ASSUME NEW ms, Ready(ms), NEW m \in users,
           NEW p, p = Opened(ms, m), NEW scopes, scopes = Alone(m)
    PROVE  /\ Unlock(m, "readonly") \o Use(m, "readonly") \in Seq(Step)
           /\ Runs(Unlock(m, "readonly") \o Use(m, "readonly"), Now, State(p, users, scopes))
           /\ Recoverable(State(p, users, scopes))
           /\ DOMAIN p = ms /\ p = [x \in DOMAIN p |-> p[x]]
           /\ ScopeEnd \in Seq(Step)
           /\ \A more : Runs(ScopeEnd, State(LockedIn(p, more), users, scopes), Now)
<1> DEFINE begin == Unlock(m, "readonly")
           agree == Use(m, "readonly")
           s1 == State(p, users, scopes)
           none == <<>>
<1>1. /\ ms \in SUBSET Addresses /\ users \in SUBSET (ms \cap Memories) /\ m \in ms
      /\ Now = Quiet(ms, users) /\ "readonly" \in Modes
    BY ReadyState DEF Modes
<1>2. /\ Recoverable(Now) /\ Now.protection = AllLocked(ms) /\ DOMAIN Now.protection = ms
      /\ Now.users = users /\ Now.unlockers = none
  <2>1. LET s == Quiet(ms, users)
        IN  /\ Recoverable(s)
            /\ s.protection = AllLocked(ms) /\ DOMAIN s.protection = ms
            /\ s.users = users /\ s.unlockers = <<>>
      BY <1>1, QuietState
  <2> QED BY <1>1, <2>1
<1>3. s1 = Unlocked(Now, m, "readonly")
    BY <1>2 DEF Unlocked, Opened, Alone
<1>4. /\ begin \in Seq(Step) /\ Runs(begin, Now, s1) /\ Recoverable(s1)
      /\ DOMAIN s1.protection = ms /\ s1.protection[m] = "readonly"
  <2>1. WellFormed(Now) /\ InScopeBut(Now, {m}) /\ m \in DOMAIN Now.protection
      BY <1>1, <1>2 DEF Recoverable, InScopeBut
  <2> DEFINE mode == "readonly"
  <2>2. PICK s : s = Now
      OBVIOUS
  <2>3. /\ WellFormed(s) /\ InScopeBut(s, {m}) /\ m \in DOMAIN s.protection
        /\ mode \in Modes /\ s1 = Unlocked(s, m, mode)
      BY <1>1, <1>3, <2>1, <2>2
  <2> HIDE DEF s1, mode
  <2>4. /\ Unlock(m, mode) \in Seq(Step)
        /\ Runs(Unlock(m, mode), s, Unlocked(s, m, mode))
        /\ Recoverable(Unlocked(s, m, mode))
      BY <2>3, UnlockRuns
  <2>5. /\ DOMAIN Unlocked(s, m, mode).protection = DOMAIN s.protection
        /\ Unlocked(s, m, mode).protection[m] = mode
    <3>1. m \in DOMAIN s.protection
        BY <2>3
    <3> QED BY <3>1 DEF Unlocked, State
  <2> QED BY <1>2, <2>2, <2>3, <2>4, <2>5 DEF mode
<1>5. agree \in Seq(Step) /\ Runs(agree, s1, s1)
  <2> HIDE DEF s1
  <2> QED BY <1>1, <1>4, UseRuns
<1>6. begin \o agree \in Seq(Step) /\ Runs(begin \o agree, Now, s1)
  <2> HIDE DEF begin, agree, s1
  <2> QED BY <1>4, <1>5, RunsConcat
<1>7. DOMAIN p = ms /\ p = [x \in DOMAIN p |-> p[x]]
    BY <1>1 DEF AllLocked, Opened
<1>8. ScopeEnd \in Seq(Step)
    BY StepTypes
<1>9. ASSUME NEW more
      PROVE  Runs(ScopeEnd, State(LockedIn(p, more), users, scopes), Now)
  <2> DEFINE s == State(LockedIn(p, more), users, scopes)
  <2>1. /\ s.protection = LockedIn(p, more) /\ s.users = users
        /\ s.unlockers = Append(none, m) /\ DOMAIN s.protection = ms
      BY <1>7 DEF State, LockedIn, Alone
  <2>2. [LockedIn(p, more) EXCEPT ![m] = "noaccess"] = AllLocked(ms)
      BY <1>1, <1>7 DEF LockedIn, AllLocked, Opened
  <2>3. none \in Seq(ms)
      OBVIOUS
  <2> HIDE DEF s, none
  <2>4. Runs(ScopeEnd, s, State([s.protection EXCEPT ![m] = "noaccess"], s.users, none))
      BY <1>1, <2>1, <2>3, EndRuns
  <2>5. State([s.protection EXCEPT ![m] = "noaccess"], s.users, none) = Now
      BY <1>1, <2>1, <2>2 DEF Quiet, none
  <2> QED BY <2>4, <2>5 DEF s
<1> QED BY <1>4, <1>6, <1>7, <1>8, <1>9

\* molch_start_send_conversation
LEMMA StartSendEnds ==
    ASSUME NEW ms, Ready(ms), BackupKey \in ms, NEW m \in users, NEW backup \in BOOLEAN
    PROVE  WillEnd(start_send_conversation(m, backup))
<1> DEFINE a == Unlock(m, "readonly") \o Use(m, "readonly")
           b == export_all(users, backup)
           c == ScopeEnd
<1>1. PICK p, scopes : p = Opened(ms, m) /\ scopes = Alone(m)
    OBVIOUS
<1> DEFINE s1 == State(p, users, scopes)
           S(more) == State(LockedIn(p, more), users, scopes)
<1>2. /\ ms \in SUBSET Addresses /\ users \in SUBSET Memories /\ users \subseteq ms
      /\ users = ms \ {BackupKey} /\ Now = Quiet(ms, users)
    BY ReadyState
<1>3. /\ a \in Seq(Step) /\ Runs(a, Now, s1) /\ Recoverable(s1)
      /\ DOMAIN p = ms /\ p = [x \in DOMAIN p |-> p[x]]
      /\ c \in Seq(Step) /\ \A more : Runs(c, S(more), Now)
    BY <1>1, OuterScope
<1>4. b \in Seq(Step) /\ \E more : Runs(b, s1, S(more))
    BY <1>2, <1>3, NestedExport
<1>5. PICK more : Runs(b, s1, S(more))
    BY <1>4
<1>6. Idle(Now)
    BY <1>2, QuietIdle
<1>7. start_send_conversation(m, backup) = a \o b \o c
    BY DEF start_send_conversation
<1> HIDE DEF a, b, c, s1, S
<1>8. a \o b \in Seq(Step) /\ Runs(a \o b, Now, S(more))
    BY <1>3, <1>4, <1>5, RunsConcat
<1>9. a \o b \o c \in Seq(Step) /\ Runs(a \o b \o c, Now, Now)
    BY <1>3, <1>8, RunsConcat
<1> QED BY <1>6, <1>7, <1>9 DEF WillEnd

\* molch_start_receive_conversation: the list of prekeys is signed in a scope of its
\* own, which locks the keys before the outer scope ends.
LEMMA StartReceiveEnds ==
    ASSUME NEW ms, Ready(ms), BackupKey \in ms, NEW m \in users, NEW backup \in BOOLEAN
    PROVE  WillEnd(start_receive_conversation(m, backup))
<1> DEFINE a == Unlock(m, "readonly") \o Use(m, "readonly")
           l == create_prekey_list(m)
           b == export_all(users, backup)
           c == ScopeEnd
<1>1. PICK p, scopes : p = Opened(ms, m) /\ scopes = Alone(m)
    OBVIOUS
<1> DEFINE s1 == State(p, users, scopes)
           S(more) == State(LockedIn(p, more), users, scopes)
<1>2. /\ ms \in SUBSET Addresses /\ users \in SUBSET Memories /\ users \subseteq ms
      /\ users = ms \ {BackupKey} /\ Now = Quiet(ms, users) /\ m \in ms
      /\ "readonly" \in Modes
    BY ReadyState DEF Modes
<1>3. /\ a \in Seq(Step) /\ Runs(a, Now, s1) /\ Recoverable(s1)
      /\ DOMAIN p = ms /\ p = [x \in DOMAIN p |-> p[x]]
      /\ c \in Seq(Step) /\ \A more : Runs(c, S(more), Now)
    BY <1>1, OuterScope
<1>4. s1.protection = p /\ s1.users = users /\ s1.unlockers = scopes
    BY DEF State
<1>5. l \in Seq(Step) /\ Runs(l, s1, S({m}))
  <2>1. WellFormed(s1) /\ InScopeBut(s1, {m}) /\ m \in DOMAIN s1.protection
      BY <1>2, <1>3, <1>4 DEF Recoverable, InScopeBut
  <2> HIDE DEF s1
  <2>2. /\ Scope(m, "readonly") \in Seq(Step)
        /\ Runs(Scope(m, "readonly"), s1,
                State(LockedIn(s1.protection, {m}), s1.users, s1.unlockers))
      BY <1>2, <2>1, ScopeRuns
  <2> QED BY <1>4, <2>2 DEF create_prekey_list, sign
<1>6. Recoverable(S({m}))
  <2> HIDE DEF s1
  <2>1. Recoverable(State(LockedIn(s1.protection, {m}), s1.users, s1.unlockers))
      BY <1>3, LockedRecoverable
  <2> QED BY <1>4, <2>1
<1>7. b \in Seq(Step) /\ \E more : Runs(b, S({m}), S(more))
  <2> DEFINE q == LockedIn(p, {m})
  <2>1. DOMAIN q = ms /\ q = [x \in DOMAIN q |-> q[x]]
      BY <1>3 DEF LockedIn
  <2>2. \A more : LockedIn(q, more) = LockedIn(p, {m} \union more)
      BY LockedTwice
  <2> HIDE DEF q
  <2>3. /\ b \in Seq(Step)
        /\ \E more : Runs(b, State(q, users, scopes),
                          State(LockedIn(q, more), users, scopes))
      BY <1>2, <1>6, <2>1, NestedExport DEF q
  <2>4. PICK more : Runs(b, State(q, users, scopes), State(LockedIn(q, more), users, scopes))
      BY <2>3
  <2>5. Runs(b, S({m}), S({m} \union more))
      BY <2>2, <2>4 DEF q
  <2> QED BY <2>3, <2>5
<1>8. PICK more : Runs(b, S({m}), S(more))
    BY <1>7
<1>9. Idle(Now)
    BY <1>2, QuietIdle
<1>10. start_receive_conversation(m, backup) = a \o l \o b \o c
    BY DEF start_receive_conversation
<1> HIDE DEF a, l, b, c, s1, S
<1>11. a \o l \in Seq(Step) /\ Runs(a \o l, Now, S({m}))
    BY <1>3, <1>5, RunsConcat
<1>12. a \o l \o b \in Seq(Step) /\ Runs(a \o l \o b, Now, S(more))
    BY <1>7, <1>8, <1>11, RunsConcat
<1>13. a \o l \o b \o c \in Seq(Step) /\ Runs(a \o l \o b \o c, Now, Now)
    BY <1>3, <1>12, RunsConcat
<1> QED BY <1>9, <1>10, <1>13 DEF WillEnd

\* Every call that the application can make runs to its end.
LEMMA CallsEnd ==
    ASSUME NEW ms, Ready(ms), NEW steps \in Calls
    PROVE  WillEnd(steps)
<1>1. DOMAIN protection = ms
    BY ReadyState
<1>2. CASE steps \in {update_backup_key, Own({})}
    BY <1>2, UpdateBackupKeyEnds, DestroyAllUsersEnds
<1>3. CASE \E m \in Free, backup \in BOOLEAN : steps = create_user(m, backup)
    BY <1>3, CreateUserEnds
<1>4. CASE \E new \in SUBSET Free : steps = import_all(new)
    BY <1>4, ImportAllEnds
<1>5. CASE \E m \in users : steps = create_prekey_list(m)
    BY <1>5, ScopedCallsEnd
<1>6. CASE BackupKey \in ms /\ steps \in {export_conversation, export_all(users, TRUE)}
    BY <1>6, ScopedCallsEnd
<1>7. CASE BackupKey \in ms /\ \E m \in users, backup \in BOOLEAN :
              steps \in {destroy_user(m, backup), start_send_conversation(m, backup),
                         start_receive_conversation(m, backup)}
    BY <1>7, DestroyUserEnds, StartSendEnds, StartReceiveEnds
<1> DEFINE creations == {create_user(m, backup) : m \in Free, backup \in BOOLEAN}
           imports == {import_all(new) : new \in SUBSET Free}
           lists == {create_prekey_list(m) : m \in users}
           exports == {export_conversation, export_all(users, TRUE)}
           others == UNION {{destroy_user(m, backup),
                             start_send_conversation(m, backup),
                             start_receive_conversation(m, backup)}
                               : m \in users, backup \in BOOLEAN}
<1>8. steps \in others => \E m \in users, backup \in BOOLEAN :
              steps \in {destroy_user(m, backup), start_send_conversation(m, backup),
                         start_receive_conversation(m, backup)}
    OBVIOUS
<1>9. /\ steps \in creations =>
            \E m \in Free, backup \in BOOLEAN : steps = create_user(m, backup)
      /\ steps \in imports => \E new \in SUBSET Free : steps = import_all(new)
      /\ steps \in lists => \E m \in users : steps = create_prekey_list(m)
    OBVIOUS
<1>10. Calls = {update_backup_key, Own({})} \union creations \union imports \union lists
                 \union (IF BackupKey \in DOMAIN protection THEN exports \union others
                         ELSE {})
    BY DEF Calls
<1> HIDE DEF creations, imports, lists, others
<1>11. \/ steps \in {update_backup_key, Own({})}
       \/ steps \in creations \/ steps \in imports \/ steps \in lists
       \/ BackupKey \in ms /\ (steps \in exports \/ steps \in others)
    BY <1>1, <1>10
<1> QED BY <1>2, <1>3, <1>4, <1>5, <1>6, <1>7, <1>8, <1>9, <1>11

-----------------------------------------------------------------------------
(***************************************************************************)
(* Failures                                                                *)
(***************************************************************************)

\* The destructors of all Unlockers in scope lock everything, if whatever is open
\* has an Unlocker in scope.
LEMMA UnwindRuns ==
    ASSUME NEW p, NEW owners, NEW scopes, NEW s, s = State(p, owners, scopes),
           Recoverable(s), NEW ends, ends = [i \in 1..Len(scopes) |-> [op |-> "end"]]
    PROVE  ends \in Seq(Step) /\ Runs(ends, s, Quiet(DOMAIN p, owners))
<1> DEFINE n == Len(scopes)
           D == DOMAIN p
           P(k) == [x \in D |-> IF \E j \in (k + 1)..n : scopes[j] = x
                                THEN "noaccess" ELSE p[x]]
           Left(k) == [i \in 1..k |-> scopes[i]]
           At(k) == State(P(k), owners, Left(k))
           run == [i \in 1..(n + 1) |-> At(n + 1 - i)]
<1>1. s.protection = p /\ s.users = owners /\ s.unlockers = scopes
    BY DEF State
<1>2. p = [x \in D |-> p[x]] /\ scopes \in Seq(D)
      /\ \A x \in D : p[x] # "noaccess" => \E i \in 1..n : scopes[i] = x
    BY <1>1 DEF Recoverable, WellFormed, InScopeBut
<1>3. n \in Nat /\ scopes \in [1..n -> D]
    BY <1>2, LenProperties
<1>4. ends \in Seq(Step) /\ Len(ends) = n /\ \A i \in 1..n : ends[i] = [op |-> "end"]
  <2>1. [op |-> "end"] \in Step
      BY DEF Step
  <2> HIDE DEF Step
  <2>2. ends \in [1..n -> Step]
      BY <2>1
  <2> QED BY <1>3, <2>2
<1> HIDE DEF n, D
<1>5. At(n) = s
  <2>1. P(n) = p
      BY <1>2, <1>3
  <2>2. Left(n) = scopes
      BY <1>3
  <2> QED BY <2>1, <2>2
<1>6. At(0) = Quiet(D, owners)
  <2>1. P(0) = AllLocked(D)
      BY <1>2, <1>3 DEF AllLocked
  <2>2. Left(0) = <<>>
      OBVIOUS
  <2> QED BY <2>1, <2>2 DEF Quiet
<1>7. ASSUME NEW k \in 1..n PROVE Does(At(k), [op |-> "end"], At(k - 1))
  <2> DEFINE m == scopes[k]
             before == Left(k - 1)
  <2>1. m \in D /\ k - 1 \in Nat
      BY <1>3
  <2>2. before \in Seq(D)
      BY <1>3, <2>1
  <2>3. Left(k) = Append(before, m)
      BY <1>3, <2>1
  <2>4. [P(k) EXCEPT ![m] = "noaccess"] = P(k - 1)
    <3>1. \A j : j \in ((k - 1) + 1)..n <=> j = k \/ j \in (k + 1)..n
        BY <1>3
    <3>2. \A x \in D : (\E j \in ((k - 1) + 1)..n : scopes[j] = x)
                          <=> (x = m \/ \E j \in (k + 1)..n : scopes[j] = x)
        BY <3>1
    <3> QED BY <2>1, <3>2
  <2>5. DOMAIN P(k) = D
      OBVIOUS
  <2> HIDE DEF before, m, P
  <2>6. Append(before, m) # <<>> /\ Last(Append(before, m)) = m
        /\ Front(Append(before, m)) = before
      BY <2>1, <2>2, LastUnlocker
  <2> HIDE DEF Left
  <2>7. /\ At(k).protection = P(k) /\ At(k).users = owners
        /\ At(k).unlockers = Left(k)
      BY DEF State
  <2>8. At(k - 1) = State(P(k - 1), owners, before)
      BY DEF before
  <2> HIDE DEF At
  <2>9. Locked(At(k)) = At(k - 1)
      BY <2>3, <2>4, <2>6, <2>7, <2>8 DEF Locked
  <2>10. At(k).unlockers # <<>> /\ Last(At(k).unlockers) \in DOMAIN At(k).protection
      BY <2>1, <2>3, <2>5, <2>6, <2>7
  <2> QED BY <2>9, <2>10 DEF Does
<1> HIDE DEF At
<1>8. run[1] = s /\ run[n + 1] = Quiet(D, owners)
  <2>1. 1 \in 1..(n + 1) /\ n + 1 \in 1..(n + 1) /\ n + 1 - 1 = n /\ n + 1 - (n + 1) = 0
      BY <1>3
  <2> QED BY <1>5, <1>6, <2>1
<1>9. ASSUME NEW i \in 1..n PROVE Does(run[i], ends[i], run[i + 1])
  <2> DEFINE k == n + 1 - i
  <2>1. i \in 1..(n + 1) /\ i + 1 \in 1..(n + 1) /\ k \in 1..n /\ n + 1 - (i + 1) = k - 1
      BY <1>3
  <2>2. run[i] = At(k) /\ run[i + 1] = At(k - 1)
      BY <2>1
  <2> QED BY <1>4, <1>7, <2>1, <2>2
<1> HIDE DEF run
<1>10. Runs(ends, s, Quiet(D, owners))
    BY <1>4, <1>8, <1>9 DEF Runs
<1> QED BY <1>4, <1>10 DEF D

\* After a failure the scopes are unwound, and what no user owns is freed.
LEMMA FailureEnds ==
    ASSUME Recoverable(Now)
    PROVE  WillEnd(Unwind \o Own(users))
<1> DEFINE D == DOMAIN protection
           left == (users \union {BackupKey}) \cap D
           t == Quiet(D, users)
           u == Quiet(left, users)
<1>1. Now.protection = protection /\ Now.users = users /\ Now.unlockers = unlockers
    BY DEF Now, State
<1>2. /\ D \in SUBSET Addresses /\ users \in SUBSET (D \cap Memories)
      /\ unlockers \in Seq(D)
    BY <1>1 DEF Recoverable, WellFormed
<1>3. Unwind = [i \in 1..Len(unlockers) |-> [op |-> "end"]]
    BY <1>2 DEF Unwind
<1>4. Unwind \in Seq(Step) /\ Runs(Unwind, Now, t)
  <2>1. PICK s, ends : s = Now /\ ends = Unwind
      OBVIOUS
  <2>2. s = State(protection, users, unlockers) /\ Recoverable(s)
      BY <2>1 DEF Now
  <2>3. ends \in Seq(Step) /\ Runs(ends, s, t)
      BY <1>3, <2>1, <2>2, UnwindRuns
  <2> QED BY <2>1, <2>3
<1>5. Own(users) \in Seq(Step) /\ Runs(Own(users), t, u)
    BY <1>2, QuietOwn
<1>6. left \in SUBSET Addresses /\ users = left \ {BackupKey}
    BY <1>2, MasterKeysAssumption
<1> HIDE DEF left
<1>7. Idle(u)
    BY <1>6, QuietIdle
<1> HIDE DEF t, u
<1>8. Unwind \o Own(users) \in Seq(Step) /\ Runs(Unwind \o Own(users), Now, u)
  <2>1. PICK s, a, b : s = Now /\ a = Unwind /\ b = Own(users)
      OBVIOUS
  <2>2. a \o b \in Seq(Step) /\ Runs(a \o b, s, u)
      BY <1>4, <1>5, <2>1, RunsConcat
  <2> QED BY <2>1, <2>2
<1> QED BY <1>7, <1>8 DEF WillEnd

-----------------------------------------------------------------------------
(***************************************************************************)
(* The invariant                                                           *)
(***************************************************************************)

\* The fields of the present state, and of the next one.
LEMMA NowFields ==
    /\ Now.protection = protection /\ Now.users = users /\ Now.unlockers = unlockers
    /\ Now' = State(protection', users', unlockers')
    BY DEF Now, State

\* How the invariant is shown after a step.
LEMMA CallInvNext ==
    ASSUME todo' \in Seq(Step), NEW t, Idle(t), Runs(todo', Now', t)
    PROVE  CallInv'
    BY DEF CallInv

\* At the start there is neither memory nor a call.
LEMMA InitCallInv == Init => CallInv
<1> SUFFICES ASSUME Init PROVE CallInv
    OBVIOUS
<1>1. protection = AllLocked({}) /\ {} = {} \ {BackupKey} /\ {} \in SUBSET Addresses
    BY DEF Init, AllLocked
<1>2. Idle(Now)
    BY <1>1 DEF Init, Now, Idle
<1>3. todo = <<>> /\ todo \in Seq(Step)
    BY DEF Init
<1>4. Runs(todo, Now, Now)
  <2>1. PICK s : s = Now
      OBVIOUS
  <2>2. Runs(<<>>, s, s)
      BY RunsNone
  <2> QED BY <1>3, <2>1, <2>2
<1> QED BY <1>2, <1>3, <1>4 DEF CallInv

\* Between two calls the state is one in which a call begins.
LEMMA BetweenCalls ==
    ASSUME CallInv, todo = <<>>
    PROVE  \E ms : Ready(ms)
<1>1. PICK t : Idle(t) /\ Runs(<<>>, Now, t)
    BY DEF CallInv
<1>2. Now = t
  <2>1. PICK s : s = Now
      OBVIOUS
  <2>2. s = t
      BY <1>1, <2>1, RunsNone
  <2> QED BY <2>1, <2>2
<1>3. PICK ms \in SUBSET Addresses : Now = State(AllLocked(ms), ms \ {BackupKey}, <<>>)
    BY <1>1, <1>2 DEF Idle
<1>4. /\ protection = AllLocked(ms) /\ users = ms \ {BackupKey} /\ unlockers = <<>>
    BY <1>3 DEF Now, State
<1> QED BY <1>4 DEF Ready

\* What the first step of the call needs is there, and what is left runs on from
\* where that step leads.
LEMMA FirstStep ==
    ASSUME CallInv, todo # <<>>
    PROVE  /\ Head(todo) \in Step /\ Tail(todo) \in Seq(Step)
           /\ \E t, u : /\ Does(Now, Head(todo), t)
                        /\ Idle(u) /\ Runs(Tail(todo), t, u)
<1>1. PICK u : Idle(u) /\ Runs(todo, Now, u)
    BY DEF CallInv
<1>2. todo \in Seq(Step)
    BY DEF CallInv
<1>3. PICK s, steps : s = Now /\ steps = todo
    OBVIOUS
<1>4. steps \in Seq(Step) /\ steps # <<>> /\ Runs(steps, s, u)
    BY <1>1, <1>2, <1>3
<1>5. /\ Tail(steps) \in Seq(Step)
      /\ \E t : Does(s, Head(steps), t) /\ Runs(Tail(steps), t, u)
    BY <1>4, RunsHead
<1>6. Head(steps) \in Step
  <2> HIDE DEF Step
  <2> QED BY <1>4
<1> QED BY <1>1, <1>3, <1>5, <1>6

\* A call begins.
LEMMA CallStep == CallInv /\ call => CallInv'
<1> SUFFICES ASSUME CallInv, call PROVE CallInv'
    OBVIOUS
<1>1. PICK ms : Ready(ms)
    BY BetweenCalls DEF call
<1>2. WillEnd(todo')
    BY <1>1, CallsEnd DEF call
<1>3. Now' = Now
    BY DEF call, Now
<1>4. PICK t : Idle(t) /\ Runs(todo', Now, t)
    BY <1>2 DEF WillEnd
<1> QED BY <1>2, <1>3, <1>4, CallInvNext DEF WillEnd

\* A step that is done leaves what comes after it, if it leads where it should.
LEMMA StepDone ==
    ASSUME CallInv, todo # <<>>, todo' = Tail(todo),
           \A t : Does(Now, Head(todo), t) => Now' = t
    PROVE  CallInv'
<1>1. PICK t, u : Does(Now, Head(todo), t) /\ Idle(u) /\ Runs(Tail(todo), t, u)
    BY FirstStep
<1>2. Now' = t /\ Tail(todo) \in Seq(Step)
    BY <1>1, FirstStep
<1> QED BY <1>1, <1>2, CallInvNext

\* Memory is allocated.
LEMMA AllocateStep == CallInv /\ allocate => CallInv'
<1> SUFFICES ASSUME CallInv, allocate PROVE CallInv'
    OBVIOUS
<1>1. todo # <<>> /\ Head(todo).op = "allocate" /\ todo' = Tail(todo)
    BY DEF allocate, Next_
<1>2. Now' = Allocated(Now, Head(todo).memory)
    BY NowFields DEF allocate, Allocated
<1>3. \A t : Does(Now, Head(todo), t) => Now' = t
    BY <1>1, <1>2 DEF Does
<1> QED BY <1>1, <1>3, StepDone

\* Unlocker's constructor.
LEMMA UnlockStep == CallInv /\ unlock => CallInv'
<1> SUFFICES ASSUME CallInv, unlock PROVE CallInv'
    OBVIOUS
<1>1. todo # <<>> /\ Head(todo).op = "unlock" /\ todo' = Tail(todo)
    BY DEF unlock, Next_
<1>2. Now' = Unlocked(Now, Head(todo).memory, Head(todo).mode)
    BY NowFields DEF unlock, Unlocked
<1>3. \A t : Does(Now, Head(todo), t) => Now' = t
    BY <1>1, <1>2 DEF Does
<1> QED BY <1>1, <1>3, StepDone

\* The memory is used.
LEMMA UseStep == CallInv /\ use => CallInv'
<1> SUFFICES ASSUME CallInv, use PROVE CallInv'
    OBVIOUS
<1>1. todo # <<>> /\ Head(todo).op = "use" /\ todo' = Tail(todo)
    BY DEF use, Next_
<1>2. Now' = Now
    BY DEF use, Now
<1>3. \A t : Does(Now, Head(todo), t) => Now' = t
    BY <1>1, <1>2 DEF Does
<1> QED BY <1>1, <1>3, StepDone

\* Unlocker's destructor.
LEMMA LockStep == CallInv /\ lock => CallInv'
<1> SUFFICES ASSUME CallInv, lock PROVE CallInv'
    OBVIOUS
<1>1. todo # <<>> /\ Head(todo).op = "end" /\ todo' = Tail(todo)
    BY DEF lock, Next_
<1>2. Now' = Locked(Now)
    BY NowFields DEF lock, Locked
<1>3. \A t : Does(Now, Head(todo), t) => Now' = t
    BY <1>1, <1>2 DEF Does
<1> QED BY <1>1, <1>3, StepDone

\* The user store changes.
LEMMA OwnStep == CallInv /\ own => CallInv'
<1> SUFFICES ASSUME CallInv, own PROVE CallInv'
    OBVIOUS
<1>1. todo # <<>> /\ Head(todo).op = "own" /\ todo' = Tail(todo)
    BY DEF own, Next_
<1>2. Now' = Owned(Now, Head(todo).memories)
    BY NowFields DEF own, Owned
<1>3. \A t : Does(Now, Head(todo), t) => Now' = t
    BY <1>1, <1>2 DEF Does
<1> QED BY <1>1, <1>3, StepDone

\* A step fails.
LEMMA FailStep == CallInv /\ fail => CallInv'
<1> SUFFICES ASSUME CallInv, fail PROVE CallInv'
    OBVIOUS
<1>1. todo # <<>> /\ Head(todo).op \in {"allocate", "use", "own"}
    BY DEF fail, MayFail
<1>2. Recoverable(Now)
    BY <1>1, FirstStep DEF Does
<1>3. WillEnd(todo')
    BY <1>2, FailureEnds DEF fail
<1>4. Now' = Now
    BY DEF fail, Now
<1>5. PICK t : Idle(t) /\ Runs(todo', Now, t)
    BY <1>3 DEF WillEnd
<1> QED BY <1>3, <1>4, <1>5, CallInvNext DEF WillEnd

\* A round of a loop followed by the rounds that are left, for one of the users.
LEMMA ExportRound ==
    ASSUME NEW s, Recoverable(s), s = State(s.protection, s.users, s.unlockers),
           NEW ms \in SUBSET Memories, ms \subseteq DOMAIN s.protection, NEW m \in ms
    PROVE  LET round == exportProtobuf(m) \o exportUsers(ms \ {m})
           IN  round \in Seq(Step) /\ Runs(round, s, Exported(s, ms))
<1> DEFINE mode == "readonly"
           a == Scope(m, mode)
           b == exportUsers(ms \ {m})
           p == LockedIn(s.protection, {m})
           t == State(p, s.users, s.unlockers)
<1>1. mode \in Modes /\ m \in DOMAIN s.protection /\ WellFormed(s) /\ InScopeBut(s, {m})
    BY DEF Modes, Recoverable, InScopeBut
<1>2. a \in Seq(Step) /\ Runs(a, s, t)
  <2> HIDE DEF mode
  <2> QED BY <1>1, ScopeRuns
<1>3. Recoverable(t)
    BY LockedRecoverable
<1>4. t.protection = p /\ t.users = s.users /\ t.unlockers = s.unlockers
    BY DEF State
<1>5. DOMAIN p = DOMAIN s.protection
    BY LockedTwice
<1> HIDE DEF t, p
<1>6. /\ b \in Seq(Step)
      /\ Runs(b, t, State(LockedIn(t.protection, ms \ {m}), t.users, t.unlockers))
    BY <1>3, <1>4, <1>5, ExportUsersRuns
<1>7. State(LockedIn(t.protection, ms \ {m}), t.users, t.unlockers) = Exported(s, ms)
  <2>1. LockedIn(LockedIn(s.protection, {m}), ms \ {m})
            = LockedIn(s.protection, {m} \union (ms \ {m}))
      BY LockedTwice
  <2>2. {m} \union (ms \ {m}) = ms
      OBVIOUS
  <2> QED BY <1>4, <2>1, <2>2 DEF Exported, p
<1> HIDE DEF a, b
<1>8. a \o b \in Seq(Step) /\ Runs(a \o b, s, Exported(s, ms))
    BY <1>2, <1>6, <1>7, RunsConcat
<1> QED BY <1>8 DEF a, b, mode, exportProtobuf

\* The same for the loop of UserStore::import.
LEMMA ImportRound ==
    ASSUME NEW s, Recoverable(s), NEW ms \in SUBSET Memories,
           ms \cap DOMAIN s.protection = {}, NEW m \in ms
    PROVE  LET round == import(m) \o importUsers(ms \ {m})
           IN  round \in Seq(Step) /\ Runs(round, s, Imported(s, ms))
<1> DEFINE D == DOMAIN s.protection
           a == import(m)
           new == ms \ {m}
           b == importUsers(new)
<1>1. PICK t : t = Imported(s, {m})
    OBVIOUS
<1>2. a \in Seq(Step) /\ Runs(a, s, t) /\ Recoverable(t)
    BY <1>1, ImportRuns
<1>3. /\ t.users = s.users /\ t.unlockers = s.unlockers
      /\ t.protection = [x \in D \union {m} |->
                           IF x \in {m} THEN "noaccess" ELSE s.protection[x]]
    BY <1>1 DEF Imported, State
<1>4. DOMAIN t.protection = D \union {m} /\ new \cap (D \union {m}) = {}
      /\ new \in SUBSET Memories /\ (D \union {m}) \union new = D \union ms
    BY <1>3
<1>5. Imported(t, new) = Imported(s, ms)
  <2> DEFINE p == [x \in (D \union {m}) \union new |->
                     IF x \in new THEN "noaccess" ELSE t.protection[x]]
             q == [x \in D \union ms |-> IF x \in ms THEN "noaccess" ELSE s.protection[x]]
  <2>1. p = q
      BY <1>3, <1>4
  <2>2. Imported(t, new) = State(p, s.users, s.unlockers)
      BY <1>3, <1>4 DEF Imported
  <2> QED BY <2>1, <2>2 DEF Imported
<1>6. b \in Seq(Step) /\ Runs(b, t, Imported(t, new))
  <2>1. Does(t, [op |-> "import", memories |-> new], Imported(t, new))
    <3> HIDE DEF new
    <3> QED BY <1>2, <1>4 DEF Does
  <2> QED BY <1>4, <2>1, RunsOne, StepTypes DEF importUsers
<1> HIDE DEF a, b
<1>7. a \o b \in Seq(Step) /\ Runs(a \o b, s, Imported(s, ms))
    BY <1>2, <1>5, <1>6, RunsConcat
<1> QED BY <1>7 DEF a, b

\* A round of the loop of UserStore::exportProtobuf, or its end.
LEMMA ExportStep == CallInv /\ exportNext => CallInv'
<1> SUFFICES ASSUME CallInv, exportNext PROVE CallInv'
    OBVIOUS
<1> DEFINE ms == Head(todo).memories
<1>1. todo # <<>> /\ Head(todo).op = "exportProtobuf" /\ Now' = Now
    BY DEF exportNext, Now
<1>2. PICK t, u : Does(Now, Head(todo), t) /\ Idle(u) /\ Runs(Tail(todo), t, u)
    BY <1>1, FirstStep
<1>3. Tail(todo) \in Seq(Step) /\ ms \in SUBSET Memories
  <2>1. Head(todo) \in Step
      BY <1>1, FirstStep
  <2>2. ms \in SUBSET Memories
      BY <1>1, <2>1 DEF Step
  <2> QED BY <1>1, <2>2, FirstStep
<1>4. Recoverable(Now) /\ ms \subseteq DOMAIN Now.protection /\ t = Exported(Now, ms)
    BY <1>1, <1>2 DEF Does
<1>5. PICK s, rest : s = Now /\ rest = Tail(todo)
    OBVIOUS
<1>6. s = State(s.protection, s.users, s.unlockers)
    BY <1>5 DEF Now, State
<1> HIDE DEF ms
<1>7. CASE ms = {} /\ todo' = Tail(todo)
  <2>1. s.protection = [x \in DOMAIN s.protection |-> s.protection[x]]
      BY <1>4, <1>5 DEF Recoverable, WellFormed
  <2>2. LockedIn(s.protection, {}) = s.protection
      BY <2>1 DEF LockedIn
  <2>3. Exported(s, {}) = s
      BY <1>6, <2>2 DEF Exported
  <2>4. t = Now'
      BY <1>1, <1>4, <1>5, <1>7, <2>3
  <2> QED BY <1>2, <1>3, <1>7, <2>4, CallInvNext
<1>8. CASE \E m \in ms :
              todo' = exportProtobuf(m) \o exportUsers(ms \ {m}) \o Tail(todo)
  <2>1. PICK m \in ms : todo' = exportProtobuf(m) \o exportUsers(ms \ {m}) \o Tail(todo)
      BY <1>8
  <2> DEFINE round == exportProtobuf(m) \o exportUsers(ms \ {m})
  <2>2. round \in Seq(Step) /\ Runs(round, s, t)
    <3>1. Recoverable(s) /\ ms \subseteq DOMAIN s.protection /\ t = Exported(s, ms)
        BY <1>4, <1>5
    <3> QED BY <1>3, <1>6, <3>1, ExportRound
  <2> HIDE DEF round
  <2>3. round \o rest \in Seq(Step) /\ Runs(round \o rest, s, u)
      BY <1>2, <1>3, <1>5, <2>2, RunsConcat
  <2>4. todo' = round \o rest
      BY <1>5, <2>1 DEF round
  <2> QED BY <1>1, <1>2, <1>5, <2>3, <2>4, CallInvNext
<1> QED BY <1>7, <1>8 DEF exportNext, ms

\* A round of the loop of UserStore::import, or its end.
LEMMA ImportStep == CallInv /\ importNext => CallInv'
<1> SUFFICES ASSUME CallInv, importNext PROVE CallInv'
    OBVIOUS
<1> DEFINE ms == Head(todo).memories
<1>1. todo # <<>> /\ Head(todo).op = "import" /\ Now' = Now
    BY DEF importNext, Now
<1>2. PICK t, u : Does(Now, Head(todo), t) /\ Idle(u) /\ Runs(Tail(todo), t, u)
    BY <1>1, FirstStep
<1>3. Tail(todo) \in Seq(Step) /\ ms \in SUBSET Memories
  <2>1. Head(todo) \in Step
      BY <1>1, FirstStep
  <2>2. ms \in SUBSET Memories
      BY <1>1, <2>1 DEF Step
  <2> QED BY <1>1, <2>2, FirstStep
<1>4. Recoverable(Now) /\ ms \cap DOMAIN Now.protection = {} /\ t = Imported(Now, ms)
    BY <1>1, <1>2 DEF Does
<1>5. PICK s, rest : s = Now /\ rest = Tail(todo)
    OBVIOUS
<1>6. s = State(s.protection, s.users, s.unlockers)
    BY <1>5 DEF Now, State
<1> HIDE DEF ms
<1>7. CASE ms = {} /\ todo' = Tail(todo)
  <2>1. s.protection = [x \in DOMAIN s.protection |-> s.protection[x]]
      BY <1>4, <1>5 DEF Recoverable, WellFormed
  <2>2. [x \in DOMAIN s.protection \union {} |->
           IF x \in {} THEN "noaccess" ELSE s.protection[x]] = s.protection
      BY <2>1
  <2>3. Imported(s, {}) = s
      BY <1>6, <2>2 DEF Imported
  <2>4. t = Now'
      BY <1>1, <1>4, <1>5, <1>7, <2>3
  <2> QED BY <1>2, <1>3, <1>7, <2>4, CallInvNext
<1>8. CASE \E m \in ms : todo' = import(m) \o importUsers(ms \ {m}) \o Tail(todo)
  <2>1. PICK m \in ms : todo' = import(m) \o importUsers(ms \ {m}) \o Tail(todo)
      BY <1>8
  <2> DEFINE round == import(m) \o importUsers(ms \ {m})
  <2>2. round \in Seq(Step) /\ Runs(round, s, t)
    <3>1. Recoverable(s) /\ ms \cap DOMAIN s.protection = {} /\ t = Imported(s, ms)
        BY <1>4, <1>5
    <3> QED BY <1>3, <3>1, ImportRound
  <2> HIDE DEF round
  <2>3. round \o rest \in Seq(Step) /\ Runs(round \o rest, s, u)
      BY <1>2, <1>3, <1>5, <2>2, RunsConcat
  <2>4. todo' = round \o rest
      BY <1>5, <2>1 DEF round
  <2> QED BY <1>1, <1>2, <1>5, <2>3, <2>4, CallInvNext
<1> QED BY <1>7, <1>8 DEF importNext, ms

-----------------------------------------------------------------------------
(***************************************************************************)
(* Theorems                                                                *)
(***************************************************************************)

\* Whatever the library is doing, wherever a step failed and in whatever order loops
\* go over the users: what is left of the call runs to its end, each step finds the
\* memory it needs, and the end is a state with everything locked and owned.
THEOREM CallsRunToTheEnd == Spec => []CallInv
<1>1. Init => CallInv
    BY InitCallInv
<1>2. CallInv /\ [Next]_vars => CallInv'
  <2>1. CallInv /\ Next => CallInv'
      BY CallStep, AllocateStep, UnlockStep, UseStep, LockStep, OwnStep, ExportStep,
         ImportStep, FailStep DEF Next
  <2>2. CallInv /\ UNCHANGED vars => CallInv'
    <3> SUFFICES ASSUME CallInv, UNCHANGED vars PROVE CallInv'
        OBVIOUS
    <3>1. todo' = todo /\ Now' = Now
        BY DEF vars, Now
    <3>2. PICK t : Idle(t) /\ Runs(todo, Now, t)
        BY DEF CallInv
    <3> QED BY <3>1, <3>2, CallInvNext DEF CallInv
  <2> QED BY <2>1, <2>2
<1> QED BY <1>1, <1>2, PTL DEF Spec

\* No call uses memory that its page protection forbids, or that is not allocated
\* any more (the Unlockers of start_receive_conversation() and of create_prekey_list()
\* in it, and the destructors of master-keys.cpp).
THEOREM NoCallFaults == Spec => []NoFault
<1>1. CallInv => NoFault
  <2> SUFFICES ASSUME CallInv, todo # <<>>
               PROVE  LET step == Head(todo)
                      IN  /\ step.op = "use" =>
                                /\ step.memory \in DOMAIN protection
                                /\ protection[step.memory] \in {step.mode, "readwrite"}
                          /\ step.op = "unlock" => step.memory \in DOMAIN protection
                          /\ step.op = "end" =>
                                unlockers # <<>> /\ Last(unlockers) \in DOMAIN protection
      BY DEF NoFault
  <2>1. PICK t : Does(Now, Head(todo), t)
      BY FirstStep
  <2> QED BY <2>1, NowFields DEF Does
<1> QED BY <1>1, CallsRunToTheEnd, PTL

\* Between two calls nothing is readable, wherever the last one failed (the
\* destructors of the Unlockers in master-keys.cpp and molch.cpp).
THEOREM KeysLockedBetweenCalls == Spec => []LockedBetweenCalls
<1>1. CallInv => LockedBetweenCalls
    BY BetweenCalls DEF LockedBetweenCalls, Ready, AllLocked
<1> QED BY <1>1, CallsRunToTheEnd, PTL

\* Between two calls the memory that is allocated for private keys is that of the
\* users in the user store: neither a failed create_user() or import_all() nor
\* destroy_user() leaves keys behind.
THEOREM NoKeysAreLeftBehind == Spec => []NoKeysWithoutUser
<1>1. CallInv => NoKeysWithoutUser
    BY BetweenCalls DEF NoKeysWithoutUser, Ready, AllLocked
<1> QED BY <1>1, CallsRunToTheEnd, PTL
=============================================================================
