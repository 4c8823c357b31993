---------------------------- MODULE RefBaseProofs ----------------------------
(***************************************************************************)
(* Proofs about RefBase for any finite set of handles, for every program   *)
(* in which incStrong/forceIncStrong do not race with promote() for the    *)
(* first strong reference ("all" \notin Races).  The balance of onFirstRef *)
(* and onLastStrongRef is about the programs in which one handle at a time *)
(* tries for the first strong reference (race = "none").                   *)
(***************************************************************************)
EXTENDS RefBase, FiniteSetTheorems, TLAPS

-----------------------------------------------------------------------------
(* The inductive invariant *)

SomeAt(P) == \E h \in Handles : pc[h] \in P
Promoted == {"as_unneeded", "as_fixread", "as_fix"}
Fresh    == {"is_weak", "is_inc", "iw_inc"}
Dying    == {"dw_last", "dw_del"}
Dropped  == {"ds_last", "ds_del"}

\* The two counters, by the places the handles are at.
Counts ==
  refs => /\ mWeak = Cardinality(At(WeakPCs))
          /\ \/ mStrong = Cardinality(At(StrongPCs))
             \/ mStrong = Cardinality(At(StrongPCs)) + INITIAL_STRONG_VALUE

\* What is allocated, and who keeps it so.
Allocated ==
  /\ base => refs
  /\ ~refs => ~raw /\ \A h \in Handles : pc[h] = "null"
  /\ raw => /\ base /\ mStrong = INITIAL_STRONG_VALUE /\ ~table
            /\ \A h \in Handles : pc[h] = "null"
  /\ refs => raw \/ SomeAt(WeakPCs) \/ SomeAt({"is_weak", "iw_inc"}) \/ SomeAt(Dying)
  /\ refs /\ ~base => /\ mFlags = "STRONG" /\ mStrong = 0 /\ ~SomeAt(Dropped)
  /\ base /\ mFlags = "STRONG" => \/ NeverStrong \/ SomeAt(StrongPCs)
                                  \/ SomeAt(Dropped)

\* A source is at rest while it is borrowed, and every copy has a source
\* unless the creator makes it from the fresh pointer, alone.
Sources ==
  \A h \in Handles :
    /\ \A s \in src[h] : pc[s] \in {"sp", "wp"}
    /\ pc[h] \in {"is_weak", "is_inc"} => \A s \in src[h] : pc[s] = "sp"
    /\ pc[h] \in Attempt \cup ForceInc => src[h] # {}
    /\ pc[h] \in Fresh /\ src[h] = {} =>
         /\ base /\ mStrong = INITIAL_STRONG_VALUE /\ ~table
         /\ \A g \in Handles \ {h} : pc[g] = "null"

\* While INITIAL_STRONG_VALUE is still in the count, somebody will take it
\* out, exactly once.
FixUp ==
  /\ NeverStrong /\ refs =>
       /\ \/ \A h \in Handles : pc[h] \notin IncStrong \cup ForceInc
          \/ \A h \in Handles : pc[h] \notin Attempt
       /\ \/ SomeAt({"is_fix"})
          \/ \A h \in Handles : pc[h] \in StrongPCs => pc[h] \in Promoted
  /\ \A h \in Handles : pc[h] = "is_fix" =>
       NeverStrong /\ \A g \in Handles : pc[g] = "is_fix" => g = h

\* What the local curCount and the flags say at the places that use them.
Locals ==
  \A h \in Handles :
    /\ pc[h] \in {"as_cas", "as_cas2", "aw_cas"} => cur[h] > 0
    /\ pc[h] = "as_fix" => cur[h] >= INITIAL_STRONG_VALUE
    /\ pc[h] \in ForceInc \cup {"as_ask", "as_inc", "dw_del"} => mFlags = "WEAK"

\* The end of the strong references, and of all references.
Ends ==
  /\ \A h \in Handles : pc[h] \in Dropped /\ mFlags = "STRONG" =>
       mStrong = 0 /\ \A g \in Handles : pc[g] \in Dropped => g = h
  /\ \A h \in Handles : pc[h] \in Dying =>
       \A g \in Handles \ {h} : pc[g] \in {"null"} \cup AttemptW
  /\ \A h \in Handles : pc[h] = "dw_del" => ~table

\* The table and its mutex.
Table ==
  /\ table => mFlags = "WEAK" /\ refs
  /\ \A h \in Handles : pc[h] \in AttemptW <=> h \in lock
  /\ \A g, h \in lock : g = h
  /\ lock # {} => table

\* Strong references that pin a promotion are still there.
Pinned ==
  \A h \in Handles :
    /\ \A g \in pinned[h] : pc[g] = "sp"
    /\ pc[h] = "as_hard" /\ cur[h] <= 0 => pinned[h] = {}

IInv == /\ TypeOK /\ Counts /\ Allocated /\ Sources /\ FixUp /\ Locals /\ Ends
        /\ Table /\ Pinned

-----------------------------------------------------------------------------
(* Counting handles by the place they are at *)

\* The offset is a positive number; its value matters nowhere else.
LEMMA InitialStrong == INITIAL_STRONG_VALUE \in Nat /\ INITIAL_STRONG_VALUE > 1
  BY DEF INITIAL_STRONG_VALUE

\* The number of handles in a set says whether there are any, and whether
\* there is only one; it is below INITIAL_STRONG_VALUE.
LEMMA CountSet ==
  ASSUME NEW S \in SUBSET Handles
  PROVE  /\ IsFiniteSet(S) /\ Cardinality(S) \in Nat
         /\ Cardinality(S) < INITIAL_STRONG_VALUE
         /\ S # {} <=> Cardinality(S) >= 1
         /\ Cardinality(S) = 1 => \A g, h \in S : g = h
<1>1. IsFiniteSet(S) /\ Cardinality(S) <= Cardinality(Handles)
  BY FS_Subset, HandlesAssumption
<1>2. Cardinality(S) \in Nat /\ Cardinality(Handles) \in Nat
  BY <1>1, FS_CardinalityType, HandlesAssumption
<1>3. S # {} <=> Cardinality(S) >= 1
  BY <1>1, <1>2, FS_EmptySet
<1>4. Cardinality(S) = 1 => \A g, h \in S : g = h
  BY <1>1, FS_Singleton
<1> QED
  BY <1>1, <1>2, <1>3, <1>4, HandlesAssumption DEF INITIAL_STRONG_VALUE

\* The same for the handles at the places P.
LEMMA CountAt ==
  ASSUME NEW P
  PROVE  /\ Cardinality(At(P)) \in Nat
         /\ Cardinality(At(P)) < INITIAL_STRONG_VALUE
         /\ SomeAt(P) <=> Cardinality(At(P)) >= 1
         /\ \A g, h \in Handles :
              Cardinality(At(P)) = 1 /\ pc[g] \in P /\ pc[h] \in P => g = h
  BY CountSet, At(P) \in SUBSET Handles DEF At, SomeAt

\* How a number of handles changes when one of them moves.
LEMMA CountMove ==
  ASSUME NEW P, NEW h \in Handles, NEW p, pc \in [Handles -> PCs], 
         pc' = [pc EXCEPT ![h] = p]
  PROVE  /\ Cardinality(At(P))' =
              IF (pc[h] \in P) = (p \in P) THEN Cardinality(At(P))
              ELSE IF p \in P THEN Cardinality(At(P)) + 1
              ELSE Cardinality(At(P)) - 1
         /\ Cardinality(At(P))' < INITIAL_STRONG_VALUE
         /\ SomeAt(P)' <=> Cardinality(At(P))' >= 1
<1>1. At(P)' = IF p \in P THEN At(P) \cup {h} ELSE At(P) \ {h}
  BY DEF At
<1>2. At(P) \in SUBSET Handles /\ At(P)' \in SUBSET Handles
  BY DEF At
<1>3. h \in At(P) <=> pc[h] \in P
  BY DEF At
<1>4. /\ Cardinality(At(P) \cup {h}) =
           IF h \in At(P) THEN Cardinality(At(P)) ELSE Cardinality(At(P)) + 1
      /\ Cardinality(At(P) \ {h}) =
           IF h \in At(P) THEN Cardinality(At(P)) - 1 ELSE Cardinality(At(P))
  BY <1>2, CountSet, FS_AddElement, FS_RemoveElement
<1>5. /\ Cardinality(At(P))' < INITIAL_STRONG_VALUE
      /\ At(P)' # {} <=> Cardinality(At(P))' >= 1
  BY <1>2, CountSet
<1>6. SomeAt(P)' <=> At(P)' # {}
  BY DEF SomeAt, At
<1> QED
  BY <1>1, <1>3, <1>4, <1>5, <1>6

-----------------------------------------------------------------------------
(* Every action preserves the invariant *)

USE InitialStrong
USE DEF PCs, Rest, IncStrong, ForceInc, Attempt, DecStrong, DecWeak, IncWeak,
        AttemptW, StrongPCs, WeakPCs, Promoted, Fresh, Dying, Dropped,
        Goto, Finish, Continue, Load, counts, memory, users

\* The invariant and what its counts say about the handles.
LEMMA Before ==
  ASSUME IInv
  PROVE  /\ TypeOK /\ Counts /\ Allocated /\ Sources /\ FixUp /\ Locals /\ Ends
         /\ Table /\ Pinned
         /\ Cardinality(At(StrongPCs)) \in Nat
         /\ Cardinality(At(StrongPCs)) < INITIAL_STRONG_VALUE
         /\ SomeAt(StrongPCs) <=> Cardinality(At(StrongPCs)) >= 1
         /\ \A g, h \in Handles :
              pc[g] \in StrongPCs /\ pc[h] \in StrongPCs
                /\ Cardinality(At(StrongPCs)) = 1 => g = h
         /\ Cardinality(At(WeakPCs)) \in Nat
         /\ SomeAt(WeakPCs) <=> Cardinality(At(WeakPCs)) >= 1
         /\ \A g, h \in Handles :
              pc[g] \in WeakPCs /\ pc[h] \in WeakPCs
                /\ Cardinality(At(WeakPCs)) = 1 => g = h
  BY CountAt DEF IInv

\* The counts after handle h has moved to p.
CountsMoved(h, p) ==
  /\ Cardinality(At(StrongPCs))' =
       IF (pc[h] \in StrongPCs) = (p \in StrongPCs)
         THEN Cardinality(At(StrongPCs))
       ELSE IF p \in StrongPCs THEN Cardinality(At(StrongPCs)) + 1
       ELSE Cardinality(At(StrongPCs)) - 1
  /\ Cardinality(At(StrongPCs))' < INITIAL_STRONG_VALUE
  /\ SomeAt(StrongPCs)' <=> Cardinality(At(StrongPCs))' >= 1
  /\ Cardinality(At(WeakPCs))' =
       IF (pc[h] \in WeakPCs) = (p \in WeakPCs)
         THEN Cardinality(At(WeakPCs))
       ELSE IF p \in WeakPCs THEN Cardinality(At(WeakPCs)) + 1
       ELSE Cardinality(At(WeakPCs)) - 1
  /\ SomeAt(WeakPCs)' <=> Cardinality(At(WeakPCs))' >= 1

\* Those counts, from CountMove.
LEMMA After ==
  ASSUME IInv, NEW h \in Handles, NEW p, pc' = [pc EXCEPT ![h] = p]
  PROVE  CountsMoved(h, p)
<1>1. pc \in [Handles -> PCs]
  BY DEF IInv, TypeOK
<1> QED
  BY <1>1, CountMove DEF CountsMoved


\* force_set borrows a weak reference; MayInc keeps promotions away.
LEMMA SpForceSet_Inv ==
  ASSUME IInv, race # "all", NEW h \in Handles, SpForceSet(h)
  PROVE  IInv'
<1>1. PICK p : pc' = [pc EXCEPT ![h] = p]
  BY DEF SpForceSet, StartFrom, MayInc, NeverStrong
<1>2. CountsMoved(h, p)
  BY <1>1, After
<1>3. TypeOK'
  BY Before DEF TypeOK, SpForceSet, StartFrom, MayInc, NeverStrong, At
<1>4. Counts'
  BY <1>1, <1>2, Before DEF TypeOK, Counts, Allocated, FixUp, SpForceSet,
       StartFrom, MayInc, NeverStrong, CountsMoved
<1>5. Allocated' /\ Sources' /\ FixUp' /\ Locals' /\ Ends' /\ Table' /\ Pinned'
  BY <1>1, <1>2, Before DEF TypeOK, Counts, Allocated, Sources, FixUp,
       Locals, Ends, Table, Pinned, SpForceSet, StartFrom, MayInc,
       NeverStrong, At, SomeAt, CountsMoved
<1> QED
  BY <1>3, <1>4, <1>5 DEF IInv

\* promote() borrows a weak reference; MayPromote keeps incStrong away.
LEMMA Promote_Inv ==
  ASSUME IInv, race # "all", NEW h \in Handles, Promote(h)
  PROVE  IInv'
<1>1. PICK p : pc' = [pc EXCEPT ![h] = p]
  BY DEF Promote, StartFrom, MayPromote, NeverStrong
<1>2. CountsMoved(h, p)
  BY <1>1, After
<1>3. TypeOK'
  BY Before DEF TypeOK, Promote, StartFrom, MayPromote, NeverStrong, At
<1>4. Counts'
  BY <1>1, <1>2, Before DEF TypeOK, Counts, Allocated, FixUp, Promote,
       StartFrom, MayPromote, NeverStrong, CountsMoved
<1>5. Allocated' /\ Sources' /\ FixUp' /\ Locals' /\ Ends' /\ Table' /\ Pinned'
  BY <1>1, <1>2, Before DEF TypeOK, Counts, Allocated, Sources, FixUp,
       Locals, Ends, Table, Pinned, Promote, StartFrom, MayPromote,
       NeverStrong, At, SomeAt, CountsMoved
<1> QED
  BY <1>3, <1>4, <1>5 DEF IInv

\* A new sp<> copies a strong reference, or takes over the fresh pointer.
LEMMA SpCtor_Inv ==
  ASSUME IInv, race # "all", NEW h \in Handles, SpCtor(h)
  PROVE  IInv'
<1>1. PICK p : pc' = [pc EXCEPT ![h] = p]
  BY DEF SpCtor, StartRaw, StartFrom
<1>2. CountsMoved(h, p)
  BY <1>1, After
<1>3. TypeOK'
  <2>1. CASE StartRaw(h, "is_weak")
    BY <2>1, Before DEF TypeOK, StartRaw
  <2>2. ASSUME NEW s \in At({"sp"}), StartFrom(h, s, "is_weak"), UNCHANGED pinned
        PROVE  TypeOK'
    BY <2>2, Before DEF TypeOK, StartFrom, At
  <2> QED
    BY <2>1, <2>2 DEF SpCtor
<1>4. Counts'
  <2>1. UNCHANGED <<mStrong, mWeak, refs>> /\ pc[h] = "null" /\ pc'[h] = "is_weak"
    BY Before DEF TypeOK, SpCtor, StartRaw, StartFrom
  <2> QED
    BY <1>1, <1>2, <2>1, Before DEF TypeOK, Counts, CountsMoved
<1>5. Allocated' /\ Sources' /\ FixUp' /\ Locals' /\ Ends' /\ Table' /\ Pinned'
  <2>1. CASE StartRaw(h, "is_weak")
    BY <1>1, <1>2, <2>1, Before DEF TypeOK, Counts, Allocated, Sources, FixUp,
       Locals, Ends, Table, Pinned, StartRaw, NeverStrong, SomeAt, CountsMoved
  <2>2. ASSUME NEW s \in At({"sp"}), StartFrom(h, s, "is_weak"), UNCHANGED pinned
        PROVE  Allocated' /\ Sources' /\ FixUp' /\ Locals' /\ Ends' /\ Table' /\ Pinned'
    BY <1>1, <1>2, <2>2, Before DEF TypeOK, Counts, Allocated, Sources, FixUp,
       Locals, Ends, Table, Pinned, StartFrom, NeverStrong, At, SomeAt, CountsMoved
  <2> QED
    BY <2>1, <2>2 DEF SpCtor
<1> QED
  BY <1>3, <1>4, <1>5 DEF IInv

\* A new wp<> copies any reference, or takes over the fresh pointer.
LEMMA WpCtor_Inv ==
  ASSUME IInv, race # "all", NEW h \in Handles, WpCtor(h)
  PROVE  IInv'
<1>1. PICK p : pc' = [pc EXCEPT ![h] = p]
  BY DEF WpCtor, StartRaw, StartFrom
<1>2. CountsMoved(h, p)
  BY <1>1, After
<1>3. TypeOK'
  <2>1. CASE StartRaw(h, "iw_inc")
    BY <2>1, Before DEF TypeOK, StartRaw
  <2>2. ASSUME NEW s \in At({"sp", "wp"}), StartFrom(h, s, "iw_inc"),
               UNCHANGED pinned
        PROVE  TypeOK'
    BY <2>2, Before DEF TypeOK, StartFrom, At
  <2> QED
    BY <2>1, <2>2 DEF WpCtor
<1>4. Counts'
  <2>1. UNCHANGED <<mStrong, mWeak, refs>> /\ pc[h] = "null" /\ pc'[h] = "iw_inc"
    BY Before DEF TypeOK, WpCtor, StartRaw, StartFrom
  <2> QED
    BY <1>1, <1>2, <2>1, Before DEF TypeOK, Counts, CountsMoved
<1>5. Allocated' /\ Sources' /\ FixUp' /\ Locals' /\ Ends' /\ Table' /\ Pinned'
  <2>1. CASE StartRaw(h, "iw_inc")
    BY <1>1, <1>2, <2>1, Before DEF TypeOK, Counts, Allocated, Sources, FixUp,
       Locals, Ends, Table, Pinned, StartRaw, NeverStrong, SomeAt, CountsMoved
  <2>2. ASSUME NEW s \in At({"sp", "wp"}), StartFrom(h, s, "iw_inc"), UNCHANGED pinned
        PROVE  Allocated' /\ Sources' /\ FixUp' /\ Locals' /\ Ends' /\ Table' /\ Pinned'
    BY <1>1, <1>2, <2>2, Before DEF TypeOK, Counts, Allocated, Sources, FixUp,
       Locals, Ends, Table, Pinned, StartFrom, NeverStrong, At, SomeAt, CountsMoved
  <2> QED
    BY <2>1, <2>2 DEF WpCtor
<1> QED
  BY <1>3, <1>4, <1>5 DEF IInv

\* Entering the table moves no handle: the reference held keeps it valid.
LEMMA Register_Inv ==
  ASSUME IInv, race # "all", NEW h \in Handles, Register(h)
  PROVE  IInv'
<1>1. pc' = pc
  BY DEF Register
<1>2. /\ Cardinality(At(StrongPCs))' = Cardinality(At(StrongPCs))
      /\ Cardinality(At(WeakPCs))' = Cardinality(At(WeakPCs))
  BY <1>1 DEF At
<1>3. TypeOK'
  BY Before DEF TypeOK, Register, At
<1>4. Counts'
  BY <1>1, <1>2, Before DEF TypeOK, Counts, Allocated, FixUp, Register,
       NeverStrong
<1>5. Allocated' /\ Sources' /\ FixUp' /\ Locals' /\ Ends' /\ Table' /\ Pinned'
  BY <1>1, <1>2, Before DEF TypeOK, Counts, Allocated, Sources, FixUp,
       Locals, Ends, Table, Pinned, Register, NeverStrong, At, SomeAt
<1> QED
  BY <1>3, <1>4, <1>5 DEF IInv

\* The table's mutex is held by at most one handle, the one looking up.
LEMMA LookUp_Inv ==
  ASSUME IInv, race # "all", NEW h \in Handles, LookUp(h)
  PROVE  IInv'
<1>1. PICK p : pc' = [pc EXCEPT ![h] = p]
  BY DEF LookUp
<1>2. CountsMoved(h, p)
  BY <1>1, After
<1>3. TypeOK'
  BY Before DEF TypeOK, LookUp, At
<1>4. Counts'
  BY <1>1, <1>2, Before DEF TypeOK, Counts, Allocated, FixUp, LookUp,
       NeverStrong, CountsMoved
<1>5. Allocated' /\ Sources' /\ FixUp' /\ Locals' /\ Ends' /\ Table' /\ Pinned'
  BY <1>1, <1>2, Before DEF TypeOK, Counts, Allocated, Sources, FixUp,
       Locals, Ends, Table, Pinned, LookUp, NeverStrong, At, SomeAt,
       CountsMoved
<1> QED
  BY <1>3, <1>4, <1>5 DEF IInv

\* An sp<> that goes away is borrowed by nobody and pins nothing any more.
LEMMA SpDtor_Inv ==
  ASSUME IInv, race # "all", NEW h \in Handles, SpDtor(h)
  PROVE  IInv'
<1>1. PICK p : pc' = [pc EXCEPT ![h] = p]
  BY DEF SpDtor, Borrowed
<1>2. CountsMoved(h, p)
  BY <1>1, After
<1>3. TypeOK'
  BY Before DEF TypeOK, SpDtor, Borrowed, At
<1>4. Counts'
  BY <1>1, <1>2, Before DEF TypeOK, Counts, Allocated, FixUp, SpDtor,
       Borrowed, NeverStrong, CountsMoved
<1>5. Allocated' /\ Sources' /\ FixUp' /\ Locals' /\ Ends' /\ Table' /\ Pinned'
  BY <1>1, <1>2, Before DEF TypeOK, Counts, Allocated, Sources, FixUp,
       Locals, Ends, Table, Pinned, SpDtor, Borrowed, NeverStrong, At,
       SomeAt, CountsMoved
<1> QED
  BY <1>3, <1>4, <1>5 DEF IInv

\* A wp<> that goes away is borrowed by nobody.
LEMMA WpDtor_Inv ==
  ASSUME IInv, race # "all", NEW h \in Handles, WpDtor(h)
  PROVE  IInv'
<1>1. PICK p : pc' = [pc EXCEPT ![h] = p]
  BY DEF WpDtor, Borrowed
<1>2. CountsMoved(h, p)
  BY <1>1, After
<1>3. TypeOK'
  BY Before DEF TypeOK, WpDtor, Borrowed, At
<1>4. Counts'
  BY <1>1, <1>2, Before DEF TypeOK, Counts, Allocated, FixUp, WpDtor,
       Borrowed, NeverStrong, CountsMoved
<1>5. Allocated' /\ Sources' /\ FixUp' /\ Locals' /\ Ends' /\ Table' /\ Pinned'
  BY <1>1, <1>2, Before DEF TypeOK, Counts, Allocated, Sources, FixUp,
       Locals, Ends, Table, Pinned, WpDtor, Borrowed, NeverStrong, At,
       SomeAt, CountsMoved
<1> QED
  BY <1>3, <1>4, <1>5 DEF IInv

\* incWeak counts one more weak reference, whichever operation began with it.
LEMMA incWeak_Inv ==
  ASSUME IInv, race # "all", NEW h \in Handles, incWeak(h)
  PROVE  IInv'
<1>1. PICK p : pc' = [pc EXCEPT ![h] = p]
  BY DEF incWeak, AfterIncWeak
<1>2. CountsMoved(h, p)
  BY <1>1, After
<1>3. TypeOK'
  BY Before DEF TypeOK, incWeak, AfterIncWeak, At
<1>4. Counts'
  BY <1>1, <1>2, Before DEF TypeOK, Counts, Allocated, FixUp, incWeak,
       AfterIncWeak, NeverStrong, CountsMoved
<1>5. Allocated' /\ Sources' /\ FixUp' /\ Locals' /\ Ends' /\ Table' /\ Pinned'
  BY <1>1, <1>2, Before DEF TypeOK, Counts, Allocated, Sources, FixUp,
       Locals, Ends, Table, Pinned, incWeak, AfterIncWeak, NeverStrong, At,
       SomeAt, CountsMoved
<1> QED
  BY <1>3, <1>4, <1>5 DEF IInv

\* incStrong counts its reference; only the first one goes on to the fix-up.
LEMMA incStrong_inc_Inv ==
  ASSUME IInv, race # "all", NEW h \in Handles, incStrong_inc(h)
  PROVE  IInv'
<1>1. PICK p : pc' = [pc EXCEPT ![h] = p]
  BY DEF incStrong_inc
<1>2. CountsMoved(h, p)
  BY <1>1, After
<1>3. TypeOK'
  BY Before DEF TypeOK, incStrong_inc, At
<1>4. Counts'
  BY <1>1, <1>2, Before DEF TypeOK, Counts, Allocated, FixUp, incStrong_inc,
       NeverStrong, CountsMoved
<1>5. Allocated' /\ Sources' /\ FixUp' /\ Locals' /\ Ends' /\ Table' /\ Pinned'
  BY <1>1, <1>2, Before DEF TypeOK, Counts, Allocated, Sources, FixUp,
       Locals, Ends, Table, Pinned, incStrong_inc, NeverStrong, At, SomeAt,
       CountsMoved
<1> QED
  BY <1>3, <1>4, <1>5 DEF IInv

\* forceIncStrong counts its reference, reviving the object if it had none.
LEMMA forceIncStrong_inc_Inv ==
  ASSUME IInv, race # "all", NEW h \in Handles, forceIncStrong_inc(h)
  PROVE  IInv'
<1>1. PICK p : pc' = [pc EXCEPT ![h] = p]
  BY DEF forceIncStrong_inc
<1>2. CountsMoved(h, p)
  BY <1>1, After
<1>3. TypeOK'
  BY Before DEF TypeOK, forceIncStrong_inc, At
<1>4. Counts'
  BY <1>1, <1>2, Before DEF TypeOK, Counts, Allocated, FixUp,
       forceIncStrong_inc, NeverStrong, CountsMoved
<1>5. Allocated' /\ Sources' /\ FixUp' /\ Locals' /\ Ends' /\ Table' /\ Pinned'
  BY <1>1, <1>2, Before DEF TypeOK, Counts, Allocated, Sources, FixUp,
       Locals, Ends, Table, Pinned, forceIncStrong_inc, NeverStrong, At,
       SomeAt, CountsMoved
<1> QED
  BY <1>3, <1>4, <1>5 DEF IInv

\* The fix-up of incStrong takes INITIAL_STRONG_VALUE out exactly once.
LEMMA incStrong_fix_Inv ==
  ASSUME IInv, race # "all", NEW h \in Handles, incStrong_fix(h)
  PROVE  IInv'
<1>1. PICK p : pc' = [pc EXCEPT ![h] = p]
  BY DEF incStrong_fix
<1>2. CountsMoved(h, p)
  BY <1>1, After
<1>3. TypeOK'
  BY Before DEF TypeOK, FixUp, NeverStrong, incStrong_fix
<1>4. Counts'
  BY <1>1, <1>2, Before DEF TypeOK, Counts, Allocated, FixUp, incStrong_fix,
       NeverStrong, CountsMoved
<1>5. Allocated' /\ Sources' /\ FixUp' /\ Locals' /\ Ends' /\ Table' /\ Pinned'
  BY <1>1, <1>2, Before DEF TypeOK, Counts, Allocated, Sources, FixUp,
       Locals, Ends, Table, Pinned, incStrong_fix, NeverStrong, At, SomeAt,
       CountsMoved
<1> QED
  BY <1>3, <1>4, <1>5 DEF IInv

\* onFirstRef may extend the lifetime, which never breaks the invariant.
LEMMA incStrong_first_Inv ==
  ASSUME IInv, race # "all", NEW h \in Handles, incStrong_first(h)
  PROVE  IInv'
<1>1. PICK p : pc' = [pc EXCEPT ![h] = p]
  BY DEF incStrong_first
<1>2. CountsMoved(h, p)
  BY <1>1, After
<1>3. TypeOK'
  BY Before DEF TypeOK, incStrong_first, At
<1>4. Counts'
  BY <1>1, <1>2, Before DEF TypeOK, Counts, Allocated, FixUp,
       incStrong_first, NeverStrong, CountsMoved
<1>5. Allocated' /\ Sources' /\ FixUp' /\ Locals' /\ Ends' /\ Table' /\ Pinned'
  BY <1>1, <1>2, Before DEF TypeOK, Counts, Allocated, Sources, FixUp,
       Locals, Ends, Table, Pinned, incStrong_first, NeverStrong, At, SomeAt,
       CountsMoved
<1> QED
  BY <1>3, <1>4, <1>5 DEF IInv

\* decStrong returns its reference; only the last one goes on to the delete.
LEMMA decStrong_dec_Inv ==
  ASSUME IInv, race # "all", NEW h \in Handles, decStrong_dec(h)
  PROVE  IInv'
<1>1. PICK p : pc' = [pc EXCEPT ![h] = p]
  BY DEF decStrong_dec
<1>2. CountsMoved(h, p)
  BY <1>1, After
<1>3. TypeOK'
  <2>1. mStrong >= 1
    BY Before DEF TypeOK, Counts, Allocated, SomeAt, decStrong_dec
  <2> QED
    BY <2>1, Before DEF TypeOK, decStrong_dec
<1>4. Counts'
  BY <1>1, <1>2, Before DEF TypeOK, Counts, Allocated, FixUp, decStrong_dec,
       NeverStrong, CountsMoved
<1>5. Allocated' /\ Sources' /\ FixUp' /\ Locals' /\ Ends' /\ Table' /\ Pinned'
  BY <1>1, <1>2, Before DEF TypeOK, Counts, Allocated, Sources, FixUp,
       Locals, Ends, Table, Pinned, decStrong_dec, NeverStrong, At, SomeAt,
       CountsMoved
<1> QED
  BY <1>3, <1>4, <1>5 DEF IInv

\* onLastStrongRef changes no count.
LEMMA decStrong_last_Inv ==
  ASSUME IInv, race # "all", NEW h \in Handles, decStrong_last(h)
  PROVE  IInv'
<1>1. PICK p : pc' = [pc EXCEPT ![h] = p]
  BY DEF decStrong_last
<1>2. CountsMoved(h, p)
  BY <1>1, After
<1>3. TypeOK'
  BY Before DEF TypeOK, decStrong_last, At
<1>4. Counts'
  BY <1>1, <1>2, Before DEF TypeOK, Counts, Allocated, FixUp, decStrong_last,
       NeverStrong, CountsMoved
<1>5. Allocated' /\ Sources' /\ FixUp' /\ Locals' /\ Ends' /\ Table' /\ Pinned'
  BY <1>1, <1>2, Before DEF TypeOK, Counts, Allocated, Sources, FixUp,
       Locals, Ends, Table, Pinned, decStrong_last, NeverStrong, At, SomeAt,
       CountsMoved
<1> QED
  BY <1>3, <1>4, <1>5 DEF IInv

\* `delete this' frees the object and leaves the weakref_impl to decWeak.
LEMMA decStrong_del_Inv ==
  ASSUME IInv, race # "all", NEW h \in Handles, decStrong_del(h)
  PROVE  IInv'
<1>1. PICK p : pc' = [pc EXCEPT ![h] = p]
  BY DEF decStrong_del, DtorFreesRefs
<1>2. CountsMoved(h, p)
  BY <1>1, After
<1>3. TypeOK'
  BY Before DEF TypeOK, decStrong_del, DtorFreesRefs, At
<1>4. Counts'
  BY <1>1, <1>2, Before DEF TypeOK, Counts, Allocated, FixUp, decStrong_del,
       DtorFreesRefs, NeverStrong, CountsMoved
<1>5. Allocated' /\ Sources' /\ FixUp' /\ Locals' /\ Ends' /\ Table' /\ Pinned'
  BY <1>1, <1>2, Before DEF TypeOK, Counts, Allocated, Sources, FixUp,
       Locals, Ends, Table, Pinned, decStrong_del, DtorFreesRefs,
       NeverStrong, At, SomeAt, CountsMoved
<1> QED
  BY <1>3, <1>4, <1>5 DEF IInv

\* decWeak returns its reference; only the last one goes on to the delete.
LEMMA decWeak_dec_Inv ==
  ASSUME IInv, race # "all", NEW h \in Handles, decWeak_dec(h)
  PROVE  IInv'
<1>1. PICK p : pc' = [pc EXCEPT ![h] = p]
  BY DEF decWeak_dec
<1>2. CountsMoved(h, p)
  BY <1>1, After
<1>3. TypeOK'
  <2>1. mWeak >= 1
    BY Before DEF TypeOK, Counts, Allocated, SomeAt, decWeak_dec
  <2> QED
    BY <2>1, Before DEF TypeOK, decWeak_dec
<1>4. Counts'
  BY <1>1, <1>2, Before DEF TypeOK, Counts, Allocated, FixUp, decWeak_dec,
       NeverStrong, CountsMoved
<1>5. Allocated' /\ Sources' /\ FixUp' /\ Locals' /\ Ends' /\ Table' /\ Pinned'
  BY <1>1, <1>2, Before DEF TypeOK, Counts, Allocated, Sources, FixUp,
       Locals, Ends, Table, Pinned, decWeak_dec, NeverStrong, At, SomeAt,
       CountsMoved
<1> QED
  BY <1>3, <1>4, <1>5 DEF IInv

\* The last weak reference frees what is left, or empties the table first.
LEMMA decWeak_last_Inv ==
  ASSUME IInv, race # "all", NEW h \in Handles, decWeak_last(h)
  PROVE  IInv'
<1>1. PICK p : pc' = [pc EXCEPT ![h] = p]
  BY DEF decWeak_last
<1>2. CountsMoved(h, p)
  BY <1>1, After
<1>3. TypeOK'
  <2>1. base' \in BOOLEAN /\ refs' \in BOOLEAN /\ raw' \in BOOLEAN
    BY Before, Zenon DEF TypeOK, decWeak_last
  <2>2. CASE mFlags = "STRONG"
    BY <2>1, <2>2, Before DEF TypeOK, decWeak_last
  <2>3. CASE mFlags # "STRONG"
    BY <2>1, <2>3, Before DEF TypeOK, decWeak_last
  <2> QED
    BY <2>2, <2>3
<1>4. Counts'
  <2>1. CASE mFlags = "STRONG"
    BY <2>1 DEF Counts, decWeak_last
  <2>2. CASE mFlags # "STRONG"
    <3>1. UNCHANGED <<mStrong, mWeak, refs>> /\ pc[h] = "dw_last" /\ p = "dw_del"
      BY <1>1, <2>2, Before DEF TypeOK, decWeak_last
    <3> QED
      BY <1>2, <3>1, Before DEF TypeOK, Counts, CountsMoved
  <2> QED
    BY <2>1, <2>2
<1>5. Allocated' /\ Sources' /\ FixUp' /\ Locals' /\ Ends' /\ Table' /\ Pinned'
  BY <1>1, <1>2, Before DEF TypeOK, Counts, Allocated, Sources, FixUp,
       Locals, Ends, Table, Pinned, decWeak_last, NeverStrong, At, SomeAt,
       CountsMoved
<1> QED
  BY <1>3, <1>4, <1>5 DEF IInv

\* Deleting an object of extended lifetime frees its weakref_impl too.
LEMMA decWeak_del_Inv ==
  ASSUME IInv, race # "all", NEW h \in Handles, decWeak_del(h)
  PROVE  IInv'
<1>1. PICK p : pc' = [pc EXCEPT ![h] = p]
  BY DEF decWeak_del, DtorFreesRefs
<1>2. CountsMoved(h, p)
  BY <1>1, After
<1>3. TypeOK'
  <2>1. base' \in BOOLEAN /\ refs' \in BOOLEAN /\ raw' \in BOOLEAN
    BY Before, Zenon DEF TypeOK, decWeak_del
  <2> QED
    BY <2>1, Before DEF TypeOK, decWeak_del
<1>4. Counts'
  BY <1>1, <1>2, Before DEF TypeOK, Counts, Allocated, FixUp, decWeak_del,
       DtorFreesRefs, NeverStrong, CountsMoved
<1>5. Allocated' /\ Sources' /\ FixUp' /\ Locals' /\ Ends' /\ Table' /\ Pinned'
  BY <1>1, <1>2, Before DEF TypeOK, Counts, Allocated, Sources, FixUp,
       Locals, Ends, Table, Pinned, decWeak_del, DtorFreesRefs, NeverStrong,
       At, SomeAt, CountsMoved
<1> QED
  BY <1>3, <1>4, <1>5 DEF IInv

\* Reading curCount: if it is 0, no strong reference pins the promotion.
LEMMA attemptIncStrong_read_Inv ==
  ASSUME IInv, race # "all", NEW h \in Handles, attemptIncStrong_read(h)
  PROVE  IInv'
<1>1. PICK p : pc' = [pc EXCEPT ![h] = p]
  BY DEF attemptIncStrong_read
<1>2. CountsMoved(h, p)
  BY <1>1, After
<1>3. TypeOK'
  BY Before DEF TypeOK, attemptIncStrong_read, At
<1>4. Counts'
  BY <1>1, <1>2, Before DEF TypeOK, Counts, Allocated, FixUp,
       attemptIncStrong_read, NeverStrong, CountsMoved
<1>5. Allocated' /\ Sources' /\ FixUp' /\ Locals' /\ Ends' /\ Table' /\ Pinned'
  BY <1>1, <1>2, Before DEF TypeOK, Counts, Allocated, Sources, FixUp,
       Locals, Ends, Table, Pinned, attemptIncStrong_read, NeverStrong, At,
       SomeAt, CountsMoved
<1> QED
  BY <1>3, <1>4, <1>5 DEF IInv

\* A successful cmpxchg of the easy case adds one strong reference.
LEMMA attemptIncStrong_cas_Inv ==
  ASSUME IInv, race # "all", NEW h \in Handles, attemptIncStrong_cas(h)
  PROVE  IInv'
<1>1. PICK p : pc' = [pc EXCEPT ![h] = p]
  BY DEF attemptIncStrong_cas, CmpxchgStrong
<1>2. CountsMoved(h, p)
  BY <1>1, After
<1>3. TypeOK'
  BY Before DEF TypeOK, attemptIncStrong_cas, CmpxchgStrong, At
<1>4. Counts'
  BY <1>1, <1>2, Before DEF TypeOK, Counts, Allocated, FixUp,
       attemptIncStrong_cas, CmpxchgStrong, NeverStrong, CountsMoved
<1>5. Allocated' /\ Sources' /\ FixUp' /\ Locals' /\ Ends' /\ Table' /\ Pinned'
  BY <1>1, <1>2, Before DEF TypeOK, Counts, Allocated, Sources, FixUp,
       Locals, Ends, Table, Pinned, attemptIncStrong_cas, CmpxchgStrong,
       NeverStrong, At, SomeAt, CountsMoved
<1> QED
  BY <1>3, <1>4, <1>5 DEF IInv

\* The choice on the lifetime changes no count.
LEMMA attemptIncStrong_hard_Inv ==
  ASSUME IInv, race # "all", NEW h \in Handles, attemptIncStrong_hard(h)
  PROVE  IInv'
<1>1. PICK p : pc' = [pc EXCEPT ![h] = p]
  BY DEF attemptIncStrong_hard
<1>2. CountsMoved(h, p)
  BY <1>1, After
<1>3. TypeOK'
  BY Before DEF TypeOK, attemptIncStrong_hard, At
<1>4. Counts'
  BY <1>1, <1>2, Before DEF TypeOK, Counts, Allocated, FixUp,
       attemptIncStrong_hard, NeverStrong, CountsMoved
<1>5. Allocated' /\ Sources' /\ FixUp' /\ Locals' /\ Ends' /\ Table' /\ Pinned'
  BY <1>1, <1>2, Before DEF TypeOK, Counts, Allocated, Sources, FixUp,
       Locals, Ends, Table, Pinned, attemptIncStrong_hard, NeverStrong, At,
       SomeAt, CountsMoved
<1> QED
  BY <1>3, <1>4, <1>5 DEF IInv

\* A successful cmpxchg of the hard case adds one strong reference.
LEMMA attemptIncStrong_cas2_Inv ==
  ASSUME IInv, race # "all", NEW h \in Handles, attemptIncStrong_cas2(h)
  PROVE  IInv'
<1>1. PICK p : pc' = [pc EXCEPT ![h] = p]
  BY DEF attemptIncStrong_cas2, CmpxchgStrong
<1>2. CountsMoved(h, p)
  BY <1>1, After
<1>3. TypeOK'
  BY Before DEF TypeOK, attemptIncStrong_cas2, CmpxchgStrong, At
<1>4. Counts'
  BY <1>1, <1>2, Before DEF TypeOK, Counts, Allocated, FixUp,
       attemptIncStrong_cas2, CmpxchgStrong, NeverStrong, CountsMoved
<1>5. Allocated' /\ Sources' /\ FixUp' /\ Locals' /\ Ends' /\ Table' /\ Pinned'
  BY <1>1, <1>2, Before DEF TypeOK, Counts, Allocated, Sources, FixUp,
       Locals, Ends, Table, Pinned, attemptIncStrong_cas2, CmpxchgStrong,
       NeverStrong, At, SomeAt, CountsMoved
<1> QED
  BY <1>3, <1>4, <1>5 DEF IInv

\* Reading curCount again changes no count.
LEMMA attemptIncStrong_reread_Inv ==
  ASSUME IInv, race # "all", NEW h \in Handles, attemptIncStrong_reread(h)
  PROVE  IInv'
<1>1. PICK p : pc' = [pc EXCEPT ![h] = p]
  BY DEF attemptIncStrong_reread
<1>2. CountsMoved(h, p)
  BY <1>1, After
<1>3. TypeOK'
  BY Before DEF TypeOK, attemptIncStrong_reread, At
<1>4. Counts'
  BY <1>1, <1>2, Before DEF TypeOK, Counts, Allocated, FixUp,
       attemptIncStrong_reread, NeverStrong, CountsMoved
<1>5. Allocated' /\ Sources' /\ FixUp' /\ Locals' /\ Ends' /\ Table' /\ Pinned'
  BY <1>1, <1>2, Before DEF TypeOK, Counts, Allocated, Sources, FixUp,
       Locals, Ends, Table, Pinned, attemptIncStrong_reread, NeverStrong, At,
       SomeAt, CountsMoved
<1> QED
  BY <1>3, <1>4, <1>5 DEF IInv

\* onIncStrongAttempted changes no count.
LEMMA attemptIncStrong_ask_Inv ==
  ASSUME IInv, race # "all", NEW h \in Handles, attemptIncStrong_ask(h)
  PROVE  IInv'
<1>1. PICK p : pc' = [pc EXCEPT ![h] = p]
  BY DEF attemptIncStrong_ask
<1>2. CountsMoved(h, p)
  BY <1>1, After
<1>3. TypeOK'
  BY Before DEF TypeOK, attemptIncStrong_ask, At
<1>4. Counts'
  BY <1>1, <1>2, Before DEF TypeOK, Counts, Allocated, FixUp,
       attemptIncStrong_ask, NeverStrong, CountsMoved
<1>5. Allocated' /\ Sources' /\ FixUp' /\ Locals' /\ Ends' /\ Table' /\ Pinned'
  BY <1>1, <1>2, Before DEF TypeOK, Counts, Allocated, Sources, FixUp,
       Locals, Ends, Table, Pinned, attemptIncStrong_ask, NeverStrong, At,
       SomeAt, CountsMoved
<1> QED
  BY <1>3, <1>4, <1>5 DEF IInv

\* The unconditional increment adds one strong reference.
LEMMA attemptIncStrong_inc_Inv ==
  ASSUME IInv, race # "all", NEW h \in Handles, attemptIncStrong_inc(h)
  PROVE  IInv'
<1>1. PICK p : pc' = [pc EXCEPT ![h] = p]
  BY DEF attemptIncStrong_inc
<1>2. CountsMoved(h, p)
  BY <1>1, After
<1>3. TypeOK'
  BY Before DEF TypeOK, attemptIncStrong_inc, At
<1>4. Counts'
  BY <1>1, <1>2, Before DEF TypeOK, Counts, Allocated, FixUp,
       attemptIncStrong_inc, NeverStrong, CountsMoved
<1>5. Allocated' /\ Sources' /\ FixUp' /\ Locals' /\ Ends' /\ Table' /\ Pinned'
  BY <1>1, <1>2, Before DEF TypeOK, Counts, Allocated, Sources, FixUp,
       Locals, Ends, Table, Pinned, attemptIncStrong_inc, NeverStrong, At,
       SomeAt, CountsMoved
<1> QED
  BY <1>3, <1>4, <1>5 DEF IInv

\* The onLastStrongRef of an unneeded reference changes no count.
LEMMA attemptIncStrong_unneeded_Inv ==
  ASSUME IInv, race # "all", NEW h \in Handles, attemptIncStrong_unneeded(h)
  PROVE  IInv'
<1>1. PICK p : pc' = [pc EXCEPT ![h] = p]
  BY DEF attemptIncStrong_unneeded
<1>2. CountsMoved(h, p)
  BY <1>1, After
<1>3. TypeOK'
  BY Before DEF TypeOK, attemptIncStrong_unneeded, At
<1>4. Counts'
  BY <1>1, <1>2, Before DEF TypeOK, Counts, Allocated, FixUp,
       attemptIncStrong_unneeded, NeverStrong, CountsMoved
<1>5. Allocated' /\ Sources' /\ FixUp' /\ Locals' /\ Ends' /\ Table' /\ Pinned'
  BY <1>1, <1>2, Before DEF TypeOK, Counts, Allocated, Sources, FixUp,
       Locals, Ends, Table, Pinned, attemptIncStrong_unneeded, NeverStrong,
       At, SomeAt, CountsMoved
<1> QED
  BY <1>3, <1>4, <1>5 DEF IInv

\* The promotion is over only when the count is fixed up.
LEMMA attemptIncStrong_fixread_Inv ==
  ASSUME IInv, race # "all", NEW h \in Handles, attemptIncStrong_fixread(h)
  PROVE  IInv'
<1>1. PICK p : pc' = [pc EXCEPT ![h] = p]
  BY DEF attemptIncStrong_fixread
<1>2. CountsMoved(h, p)
  BY <1>1, After
<1>3. TypeOK'
  BY Before DEF TypeOK, attemptIncStrong_fixread, At
<1>4. Counts'
  BY <1>1, <1>2, Before DEF TypeOK, Counts, Allocated, FixUp,
       attemptIncStrong_fixread, NeverStrong, CountsMoved
<1>5. Allocated' /\ Sources' /\ FixUp' /\ Locals' /\ Ends' /\ Table' /\ Pinned'
  BY <1>1, <1>2, Before DEF TypeOK, Counts, Allocated, Sources, FixUp,
       Locals, Ends, Table, Pinned, attemptIncStrong_fixread, NeverStrong,
       At, SomeAt, CountsMoved
<1> QED
  BY <1>3, <1>4, <1>5 DEF IInv

\* The fix-up cmpxchg takes INITIAL_STRONG_VALUE out at most once.
LEMMA attemptIncStrong_fix_Inv ==
  ASSUME IInv, race # "all", NEW h \in Handles, attemptIncStrong_fix(h)
  PROVE  IInv'
<1>1. PICK p : pc' = [pc EXCEPT ![h] = p]
  BY DEF attemptIncStrong_fix
<1>2. CountsMoved(h, p)
  BY <1>1, After
<1>3. TypeOK'
  BY Before DEF TypeOK, Locals, attemptIncStrong_fix
<1>4. Counts'
  BY <1>1, <1>2, Before
     DEF TypeOK, Counts, Locals, attemptIncStrong_fix, CountsMoved
<1>5. Allocated' /\ Sources' /\ FixUp' /\ Locals' /\ Ends' /\ Table' /\ Pinned'
  BY <1>1, <1>2, Before DEF TypeOK, Counts, Allocated, Sources, FixUp,
       Locals, Ends, Table, Pinned, attemptIncStrong_fix, NeverStrong, At,
       SomeAt, CountsMoved
<1> QED
  BY <1>3, <1>4, <1>5 DEF IInv

\* attemptIncWeak reads a live weakref_impl: it is under the table's mutex.
LEMMA attemptIncWeak_read_Inv ==
  ASSUME IInv, race # "all", NEW h \in Handles, attemptIncWeak_read(h)
  PROVE  IInv'
<1>1. PICK p : pc' = [pc EXCEPT ![h] = p]
  BY DEF attemptIncWeak_read
<1>2. CountsMoved(h, p)
  BY <1>1, After
<1>3. TypeOK'
  BY Before DEF TypeOK, attemptIncWeak_read, At
<1>4. Counts'
  BY <1>1, <1>2, Before DEF TypeOK, Counts, Allocated, FixUp,
       attemptIncWeak_read, NeverStrong, CountsMoved
<1>5. Allocated' /\ Sources' /\ FixUp' /\ Locals' /\ Ends' /\ Table' /\ Pinned'
  BY <1>1, <1>2, Before DEF TypeOK, Counts, Allocated, Sources, FixUp,
       Locals, Ends, Table, Pinned, attemptIncWeak_read, NeverStrong, At,
       SomeAt, CountsMoved
<1> QED
  BY <1>3, <1>4, <1>5 DEF IInv

\* attemptIncWeak adds a weak reference only to an object that has one.
LEMMA attemptIncWeak_cas_Inv ==
  ASSUME IInv, race # "all", NEW h \in Handles, attemptIncWeak_cas(h)
  PROVE  IInv'
<1>1. PICK p : pc' = [pc EXCEPT ![h] = p]
  BY DEF attemptIncWeak_cas
<1>2. CountsMoved(h, p)
  BY <1>1, After
<1>3. TypeOK'
  BY Before DEF TypeOK, attemptIncWeak_cas, At
<1>4. Counts'
  BY <1>1, <1>2, Before DEF TypeOK, Counts, Allocated, FixUp,
       attemptIncWeak_cas, NeverStrong, CountsMoved
<1>5. Allocated' /\ Sources' /\ FixUp' /\ Locals' /\ Ends' /\ Table' /\ Pinned'
  BY <1>1, <1>2, Before DEF TypeOK, Counts, Allocated, Sources, FixUp,
       Locals, Ends, Table, Pinned, attemptIncWeak_cas, NeverStrong, At,
       SomeAt, CountsMoved
<1> QED
  BY <1>3, <1>4, <1>5 DEF IInv

\* A fresh object: no handle refers to it yet.
LEMMA Construct_Inv ==
  ASSUME IInv, Construct
  PROVE  IInv'
<1>1. \A h \in Handles : pc[h] = "null" /\ pc'[h] = "null"
  BY Before DEF TypeOK, Construct, At
<1>2. At(StrongPCs)' = {} /\ At(WeakPCs)' = {}
  BY <1>1 DEF At
<1>3. TypeOK'
  BY Before DEF TypeOK, Construct
<1>4. Counts'
  BY <1>2, FS_EmptySet DEF Counts, Construct
<1>5. Allocated' /\ FixUp' /\ Locals' /\ Ends' /\ Table'
  BY <1>1, Before
     DEF Construct, TypeOK, Allocated, FixUp, Locals, Ends, Table, SomeAt, NeverStrong
<1>6. Sources' /\ Pinned'
  BY <1>1, Before DEF Construct, TypeOK, Sources, Pinned
<1> QED
  BY <1>3, <1>4, <1>5, <1>6 DEF IInv

\* Before an object exists the invariant holds.
LEMMA Init_Inv == Init => IInv
<1> SUFFICES ASSUME Init PROVE IInv
  OBVIOUS
<1>1. TypeOK
  <2>1. /\ src \in [Handles -> SUBSET Handles] /\ pinned \in [Handles -> SUBSET Handles]
        /\ lock \in SUBSET Handles /\ pc \in [Handles -> PCs]
        /\ cur \in [Handles -> Int] /\ mStrong \in Nat /\ mWeak \in Nat /\ held \in Int
    BY DEF Init
  <2> QED
    BY <2>1, Zenon DEF Init, TypeOK
<1>2. Counts /\ Allocated /\ FixUp /\ Locals /\ Ends /\ Table
  BY DEF Init, Counts, Allocated, FixUp, Locals, Ends, Table
<1>3. Sources /\ Pinned
  BY DEF Init, Sources, Pinned
<1> QED
  BY <1>1, <1>2, <1>3 DEF IInv

\* A step outside the object preserves the invariant.
LEMMA Stutter_Inv == IInv /\ UNCHANGED vars => IInv'
<1> SUFFICES ASSUME IInv, UNCHANGED vars PROVE IInv'
  OBVIOUS
<1>1. At(StrongPCs)' = At(StrongPCs) /\ At(WeakPCs)' = At(WeakPCs)
  BY DEF vars, At
<1>2. TypeOK' /\ Counts' /\ Allocated' /\ FixUp' /\ Locals' /\ Ends' /\ Table'
  BY <1>1, Before DEF vars, TypeOK, Counts, Allocated, FixUp, Locals, Ends,
     Table, SomeAt, NeverStrong
<1>3. Sources' /\ Pinned'
  BY Before DEF vars, Sources, Pinned
<1> QED
  BY <1>2, <1>3 DEF IInv

\* IInv is inductive when incStrong does not race for the first reference.
LEMMA Next_Inv ==
  ASSUME "all" \notin Races, IInv, [Next]_vars
  PROVE  IInv'
<1>0. race # "all"
  BY Before DEF TypeOK
<1>1. CASE Construct
  BY <1>1, Construct_Inv
<1>2. ASSUME NEW h \in Handles, Start(h)
      PROVE  IInv'
  BY <1>0, <1>2, SpCtor_Inv, SpForceSet_Inv, WpCtor_Inv, Promote_Inv, Register_Inv,
     LookUp_Inv, SpDtor_Inv, WpDtor_Inv DEF Start
<1>3. ASSUME NEW h \in Handles, Step(h)
      PROVE  IInv'
  BY <1>0, <1>3, incWeak_Inv, incStrong_inc_Inv, forceIncStrong_inc_Inv,
     incStrong_fix_Inv, incStrong_first_Inv, decStrong_dec_Inv,
     decStrong_last_Inv, decStrong_del_Inv, decWeak_dec_Inv, decWeak_last_Inv,
     decWeak_del_Inv, attemptIncStrong_read_Inv, attemptIncStrong_cas_Inv,
     attemptIncStrong_hard_Inv, attemptIncStrong_cas2_Inv,
     attemptIncStrong_reread_Inv, attemptIncStrong_ask_Inv,
     attemptIncStrong_inc_Inv, attemptIncStrong_unneeded_Inv,
     attemptIncStrong_fixread_Inv, attemptIncStrong_fix_Inv,
     attemptIncWeak_read_Inv, attemptIncWeak_cas_Inv DEF Step
<1>4. CASE UNCHANGED vars
  BY <1>4, Stutter_Inv
<1> QED
  BY <1>1, <1>2, <1>3, <1>4 DEF Next

\* The inductive invariant holds in every reachable state.
LEMMA Inv_Always == "all" \notin Races /\ Spec => []IInv
<1> SUFFICES ASSUME "all" \notin Races PROVE Spec => []IInv
  OBVIOUS
<1>1. IInv /\ [Next]_vars => IInv'
  BY Next_Inv
<1> QED
  BY <1>1, Init_Inv, PTL DEF Spec

\* The kind of program is fixed: no step changes it.
LEMMA RaceStays ==
  ASSUME [Next]_vars
  PROVE  race' = race
<1>1. CASE Construct
  BY <1>1 DEF Construct
<1>2. ASSUME NEW h \in Handles, Start(h)
      PROVE  race' = race
  BY <1>2 DEF Start, SpCtor, SpForceSet, WpCtor, Promote, Register, LookUp,
     SpDtor, WpDtor, StartRaw, StartFrom
<1>3. ASSUME NEW h \in Handles, Step(h)
      PROVE  race' = race
  BY <1>3 DEF Step, incWeak, incStrong_inc, forceIncStrong_inc, incStrong_fix,
     incStrong_first, decStrong_dec, decStrong_last, decStrong_del, decWeak_dec,
     decWeak_last, decWeak_del, attemptIncStrong_read, attemptIncStrong_cas,
     attemptIncStrong_hard, attemptIncStrong_cas2, attemptIncStrong_reread,
     attemptIncStrong_ask, attemptIncStrong_inc, attemptIncStrong_unneeded,
     attemptIncStrong_fixread, attemptIncStrong_fix, attemptIncWeak_read,
     attemptIncWeak_cas, CmpxchgStrong
<1>4. CASE UNCHANGED vars
  BY <1>4 DEF vars
<1> QED
  BY <1>1, <1>2, <1>3, <1>4 DEF Next

\* A handle only moves by an action of its own.
LEMMA OwnStep ==
  ASSUME IInv, [Next]_vars, NEW h \in Handles, pc'[h] # pc[h]
  PROVE  Start(h) \/ Step(h)
<1>1. ~UNCHANGED vars /\ ~Construct
  BY DEF vars, Construct
<1>2. PICK g \in Handles : Start(g) \/ Step(g)
  BY <1>1 DEF Next
<1>3. CASE Start(g)
  <2>1. \E p : pc' = [pc EXCEPT ![g] = p] \/ pc' = pc
    BY <1>3 DEF Start, SpCtor, SpForceSet, WpCtor, Promote, Register, LookUp, SpDtor,
           WpDtor, StartRaw, StartFrom
  <2> QED
    BY <1>3, <2>1, Before DEF TypeOK
<1>4. CASE Step(g)
  <2>1. \E p : pc' = [pc EXCEPT ![g] = p]
    BY <1>4 DEF Step, incWeak, incStrong_inc, forceIncStrong_inc,
       incStrong_fix, incStrong_first, decStrong_dec, decStrong_last,
       decStrong_del, decWeak_dec, decWeak_last, decWeak_del,
       attemptIncStrong_read, attemptIncStrong_cas, attemptIncStrong_hard,
       attemptIncStrong_cas2, attemptIncStrong_reread, attemptIncStrong_ask,
       attemptIncStrong_inc, attemptIncStrong_unneeded,
       attemptIncStrong_fixread, attemptIncStrong_fix, attemptIncWeak_read,
       attemptIncWeak_cas, CmpxchgStrong
  <2> QED
    BY <1>4, <2>1, Before DEF TypeOK
<1> QED
  BY <1>2, <1>3, <1>4

-----------------------------------------------------------------------------
(* The callbacks, when nobody races for the first strong reference         *)
(* (race = "none")                                                         *)

\* Nobody races for the first strong reference: until the count is fixed up at
\* most one handle is on its way to it, and no reference is complete.
Busy == IncStrong \cup ForceInc \cup Attempt
Alone ==
  NeverStrong /\ refs =>
    /\ \A g, h \in Handles : pc[g] \in Busy /\ pc[h] \in Busy => g = h
    /\ \A h \in Handles : pc[h] \notin {"is_first", "sp", "ds_dec", "ds_last", "ds_del"}

\* Handles about to tell the subclass of the first reference; handles that
\* told it of a reference they have not taken, or did not need to.
ToldLater == {"is_fix", "is_first"}
Unneeded(h) == 0 < cur[h] /\ cur[h] < INITIAL_STRONG_VALUE
ToldEarly == {h \in Handles : \/ pc[h] = "as_inc"
                              \/ pc[h] = "as_unneeded" /\ Unneeded(h)}

Bit(b) == IF b THEN 1 ELSE 0
Dues == Cardinality(At({"ds_last"})) + Cardinality(ToldEarly) - Cardinality(At(ToldLater))

\* The subclass knows of one reference if there is any, up to the calls that
\* are still to come.
Balance ==
  base /\ mFlags = "WEAK" =>
    held = Bit(SomeAt(StrongPCs)) + Dues

\* Before the lifetime is extended the subclass has heard nothing until its
\* onFirstRef, and no promotion is past the point where the lifetime matters.
FirstTold ==
  base /\ mFlags = "STRONG" =>
    /\ mStrong = INITIAL_STRONG_VALUE => held = 0
    /\ \A h \in Handles : pc[h] \in ToldLater =>
         /\ held = 0 /\ ~SomeAt({"ds_last"})
         /\ ~SomeAt({"as_hard", "as_cas2", "as_reread", "as_unneeded"})
         /\ \A g \in Handles : pc[g] \in ToldLater => g = h

\* The easy case is never entered with INITIAL_STRONG_VALUE, and the cmpxchg
\* of the hard case is only for objects of regular lifetime.
Cases ==
  \A h \in Handles :
    /\ pc[h] = "as_cas" => cur[h] # INITIAL_STRONG_VALUE
    /\ pc[h] \in {"as_cas2", "as_reread"} => mFlags = "STRONG"

BInv == Alone /\ Balance /\ FirstTold /\ Cases

-----------------------------------------------------------------------------
(* Counting the calls that are due *)

Early(h) == pc[h] = "as_inc" \/ (pc[h] = "as_unneeded" /\ Unneeded(h))
\* What a move of h to p does to them.
DuesMoved(h, p) ==
  Dues' = Dues + (Bit(p \in {"ds_last"}) - Bit(pc[h] \in {"ds_last"}))
               + (Bit(Early(h)') - Bit(Early(h)))
               - (Bit(p \in ToldLater) - Bit(pc[h] \in ToldLater))

\* The handles that told the subclass too early are counted like the places.
LEMMA EarlyMove ==
  ASSUME NEW h \in Handles, NEW p, pc \in [Handles -> PCs],
         pc' = [pc EXCEPT ![h] = p], \A g \in Handles \ {h} : cur'[g] = cur[g]
  PROVE  /\ Cardinality(ToldEarly) \in Nat
         /\ Cardinality(ToldEarly)' = Cardinality(ToldEarly) + Bit(Early(h)') - Bit(Early(h))
<1>1. ToldEarly = {g \in Handles : Early(g)} /\ ToldEarly' = {g \in Handles : Early(g)'}
  BY DEF ToldEarly, Early
<1>2. \A g \in Handles \ {h} : Early(g)' <=> Early(g)
  BY DEF Early, Unneeded
<1>3. ToldEarly' = IF Early(h)' THEN ToldEarly \cup {h} ELSE ToldEarly \ {h}
  BY <1>1, <1>2
<1>4. ToldEarly \in SUBSET Handles /\ (h \in ToldEarly <=> Early(h))
  BY <1>1
<1>5. /\ Cardinality(ToldEarly \cup {h}) =
           IF h \in ToldEarly THEN Cardinality(ToldEarly) ELSE Cardinality(ToldEarly) + 1
      /\ Cardinality(ToldEarly \ {h}) =
           IF h \in ToldEarly THEN Cardinality(ToldEarly) - 1 ELSE Cardinality(ToldEarly)
      /\ Cardinality(ToldEarly) \in Nat
  BY <1>4, CountSet, FS_AddElement, FS_RemoveElement
<1> QED
  BY <1>3, <1>4, <1>5 DEF Bit

\* The calls due after handle h has moved to p.
LEMMA DuesMove ==
  ASSUME IInv, NEW h \in Handles, NEW p,
         pc' = [pc EXCEPT ![h] = p], \A g \in Handles \ {h} : cur'[g] = cur[g]
  PROVE  Dues \in Int /\ DuesMoved(h, p)
<1>1. pc \in [Handles -> PCs]
  BY DEF IInv, TypeOK
<1>2. \A P : /\ Cardinality(At(P)) \in Nat
             /\ Cardinality(At(P))' = Cardinality(At(P)) + Bit(p \in P) - Bit(pc[h] \in P)
  <2> TAKE P
  <2>1. Cardinality(At(P)) \in Nat
    BY CountAt
  <2>2. Cardinality(At(P))' =
              IF (pc[h] \in P) = (p \in P) THEN Cardinality(At(P))
              ELSE IF p \in P THEN Cardinality(At(P)) + 1
              ELSE Cardinality(At(P)) - 1
    BY <1>1, CountMove
  <2>3. CASE pc[h] \in P /\ p \in P
    BY <2>1, <2>2, <2>3 DEF Bit
  <2>4. CASE pc[h] \in P /\ p \notin P
    BY <2>1, <2>2, <2>4 DEF Bit
  <2>5. CASE pc[h] \notin P /\ p \in P
    BY <2>1, <2>2, <2>5 DEF Bit
  <2>6. CASE pc[h] \notin P /\ p \notin P
    BY <2>1, <2>2, <2>6 DEF Bit
  <2> QED
    BY <2>3, <2>4, <2>5, <2>6
<1>3. /\ Cardinality(At(ToldLater)) \in Nat
      /\ Cardinality(At(ToldLater))' = Cardinality(At(ToldLater))
           + Bit(p \in ToldLater) - Bit(pc[h] \in ToldLater)
      /\ Cardinality(At({"ds_last"})) \in Nat
      /\ Cardinality(At({"ds_last"}))' = Cardinality(At({"ds_last"}))
           + Bit(p \in {"ds_last"}) - Bit(pc[h] \in {"ds_last"})
  BY <1>2
<1>4. /\ Cardinality(ToldEarly) \in Nat
      /\ Cardinality(ToldEarly)' = Cardinality(ToldEarly) + Bit(Early(h)') - Bit(Early(h))
  BY <1>1, EarlyMove
<1> QED
  BY <1>3, <1>4 DEF Dues, DuesMoved, Bit

\* The places at which a call is due, or may become due.
Loud == ToldLater \cup {"ds_last", "as_inc", "as_unneeded"}

\* A move between other places, by a step that makes no call.
LEMMA Balance_Quiet ==
  ASSUME IInv, Balance, NEW h \in Handles, NEW p, pc' = [pc EXCEPT ![h] = p],
         CountsMoved(h, p), Dues \in Int, DuesMoved(h, p), pc[h] \notin Loud, p \notin Loud,
         pc[h] \in StrongPCs <=> p \in StrongPCs,
         base' => base, mFlags' = mFlags, held' = held
  PROVE  Balance'
<1>1. ~Early(h) /\ ~Early(h)'
  BY Before DEF Early, Loud, TypeOK
<1>2. Dues' = Dues
  BY <1>1 DEF DuesMoved, Bit, Loud
<1>3. Cardinality(At(StrongPCs))' = Cardinality(At(StrongPCs))
  BY Before DEF CountsMoved
<1>4. SomeAt(StrongPCs)' <=> SomeAt(StrongPCs)
  BY <1>3, Before DEF CountsMoved
<1> QED
  BY <1>2, <1>4 DEF Balance, Bit

\* force_set: the first reference is announced later, by incStrong_first.
LEMMA SpForceSet_Calls ==
  ASSUME IInv, BInv, race = "none", NEW h \in Handles, SpForceSet(h)
  PROVE  BInv'
<1>1. PICK p : pc' = [pc EXCEPT ![h] = p]
  BY DEF SpForceSet, StartFrom, MayInc
<1>2. \A g \in Handles \ {h} : cur'[g] = cur[g]
  BY Before DEF TypeOK, SpForceSet, StartFrom, MayInc
<1>3. CountsMoved(h, p) /\ Dues \in Int /\ DuesMoved(h, p)
  BY <1>1, <1>2, After, DuesMove
<1>4. Alone'
  BY <1>1, <1>3, Before DEF BInv, TypeOK, Counts, Allocated, Sources, Alone, Busy,
       CountsMoved, SomeAt, At, NeverStrong, SpForceSet, StartFrom, MayInc
<1>5. Balance'
  <2>1. /\ pc[h] \notin Loud /\ p \notin Loud /\ (pc[h] \in StrongPCs <=> p \in StrongPCs)
        /\ (base' => base) /\ mFlags' = mFlags /\ held' = held
    BY <1>1, Before DEF TypeOK, Loud, ToldLater, SpForceSet, StartFrom, MayInc
  <2> QED
    BY <1>1, <1>3, <2>1, Balance_Quiet DEF BInv
<1>6. FirstTold'
  BY <1>1, <1>3, Before DEF BInv, TypeOK, Counts, Allocated, Sources, Locals, Alone,
       FirstTold, Cases, Busy, CountsMoved, ToldLater, SomeAt, At, NeverStrong,
       SpForceSet, StartFrom, MayInc
<1>7. Cases'
  BY <1>1, Before DEF BInv, TypeOK, Counts, Allocated, FirstTold, Cases, Locals,
       ToldLater, SomeAt, SpForceSet, StartFrom, MayInc
<1> QED
  BY <1>4, <1>5, <1>6, <1>7 DEF BInv

\* promote(): no call is due until attemptIncStrong has its answer.
LEMMA Promote_Calls ==
  ASSUME IInv, BInv, race = "none", NEW h \in Handles, Promote(h)
  PROVE  BInv'
<1>1. PICK p : pc' = [pc EXCEPT ![h] = p]
  BY DEF Promote, StartFrom, MayPromote
<1>2. \A g \in Handles \ {h} : cur'[g] = cur[g]
  BY Before DEF TypeOK, Promote, StartFrom, MayPromote
<1>3. CountsMoved(h, p) /\ Dues \in Int /\ DuesMoved(h, p)
  BY <1>1, <1>2, After, DuesMove
<1>4. Alone'
  BY <1>1, <1>3, Before DEF BInv, TypeOK, Counts, Allocated, Sources, Alone, Busy,
       CountsMoved, SomeAt, At, NeverStrong, Promote, StartFrom, MayPromote
<1>5. Balance'
  <2>1. /\ pc[h] \notin Loud /\ p \notin Loud /\ (pc[h] \in StrongPCs <=> p \in StrongPCs)
        /\ (base' => base) /\ mFlags' = mFlags /\ held' = held
    BY <1>1, Before DEF TypeOK, Loud, ToldLater, Promote, StartFrom, MayPromote
  <2> QED
    BY <1>1, <1>3, <2>1, Balance_Quiet DEF BInv
<1>6. FirstTold'
  BY <1>1, <1>3, Before DEF BInv, TypeOK, Counts, Allocated, Sources, Locals, Alone,
       FirstTold, Cases, Busy, CountsMoved, ToldLater, SomeAt, At, NeverStrong,
       Promote, StartFrom, MayPromote
<1>7. Cases'
  BY <1>1, Before DEF BInv, TypeOK, Counts, Allocated, FirstTold, Cases, Locals,
       ToldLater, SomeAt, Promote, StartFrom, MayPromote
<1> QED
  BY <1>4, <1>5, <1>6, <1>7 DEF BInv

\* A copy of an sp<> announces nothing; the creator's is the first reference.
LEMMA SpCtor_Calls ==
  ASSUME IInv, BInv, race = "none", NEW h \in Handles, SpCtor(h)
  PROVE  BInv'
<1>1. PICK p : pc' = [pc EXCEPT ![h] = p]
  BY DEF SpCtor, StartRaw, StartFrom
<1>2. \A g \in Handles \ {h} : cur'[g] = cur[g]
  BY Before DEF TypeOK, SpCtor, StartRaw, StartFrom
<1>3. CountsMoved(h, p) /\ Dues \in Int /\ DuesMoved(h, p)
  BY <1>1, <1>2, After, DuesMove
<1>0. /\ p = "is_weak" /\ pc[h] = "null" /\ UNCHANGED <<mStrong, mFlags, base, refs, held>>
      /\ (\A g \in Handles : pc[g] = "null") \/ (\E t \in Handles : pc[t] \in {"sp"})
  BY <1>1, Before DEF TypeOK, Allocated, At, SpCtor, StartRaw, StartFrom
<1>4. Alone'
  <2>1. CASE \A g \in Handles : pc[g] = "null"
    BY <1>0, <1>1, <2>1, Before DEF TypeOK, Alone, Busy
  <2>2. CASE \E t \in Handles : pc[t] \in {"sp"}
    BY <1>0, <2>2, Before DEF BInv, Allocated, Alone, NeverStrong
  <2> QED
    BY <1>0, <2>1, <2>2
<1>5. Balance'
  <2>1. /\ pc[h] \notin Loud /\ p \notin Loud /\ (pc[h] \in StrongPCs <=> p \in StrongPCs)
        /\ (base' => base) /\ mFlags' = mFlags /\ held' = held
    BY <1>1, Before DEF TypeOK, Loud, ToldLater, SpCtor, StartRaw, StartFrom
  <2> QED
    BY <1>1, <1>3, <2>1, Balance_Quiet DEF BInv
<1>6. FirstTold'
  BY <1>0, <1>1, Before DEF BInv, TypeOK, FirstTold, ToldLater, SomeAt
<1>7. Cases'
  BY <1>1, Before DEF BInv, TypeOK, Counts, Allocated, FirstTold, Cases, Locals,
       ToldLater, SomeAt, SpCtor, StartRaw, StartFrom
<1> QED
  BY <1>4, <1>5, <1>6, <1>7 DEF BInv

\* A weak reference makes no call and owes none.
LEMMA WpCtor_Calls ==
  ASSUME IInv, BInv, race = "none", NEW h \in Handles, WpCtor(h)
  PROVE  BInv'
<1>1. PICK p : pc' = [pc EXCEPT ![h] = p]
  BY DEF WpCtor, StartRaw, StartFrom
<1>2. \A g \in Handles \ {h} : cur'[g] = cur[g]
  BY Before DEF TypeOK, WpCtor, StartRaw, StartFrom
<1>3. CountsMoved(h, p) /\ Dues \in Int /\ DuesMoved(h, p)
  BY <1>1, <1>2, After, DuesMove
<1>0. /\ p = "iw_inc" /\ pc[h] = "null" /\ UNCHANGED <<mStrong, mFlags, base, refs, held>>
      /\ (\A g \in Handles : pc[g] = "null") \/ (\E t \in Handles : pc[t] \in {"sp", "wp"})
  BY <1>1, Before DEF TypeOK, Allocated, At, WpCtor, StartRaw, StartFrom
<1>4. Alone'
  BY <1>0, <1>1, Before DEF BInv, TypeOK, Alone, Busy, NeverStrong
<1>5. Balance'
  <2>1. /\ pc[h] \notin Loud /\ p \notin Loud /\ (pc[h] \in StrongPCs <=> p \in StrongPCs)
        /\ (base' => base) /\ mFlags' = mFlags /\ held' = held
    BY <1>1, Before DEF TypeOK, Loud, ToldLater, WpCtor, StartRaw, StartFrom
  <2> QED
    BY <1>1, <1>3, <2>1, Balance_Quiet DEF BInv
<1>6. FirstTold'
  BY <1>0, <1>1, Before DEF BInv, TypeOK, FirstTold, ToldLater, SomeAt
<1>7. Cases'
  BY <1>1, Before DEF BInv, TypeOK, Counts, Allocated, FirstTold, Cases, Locals,
       ToldLater, SomeAt, WpCtor, StartRaw, StartFrom
<1> QED
  BY <1>4, <1>5, <1>6, <1>7 DEF BInv

\* The table is not told.
LEMMA Register_Calls ==
  ASSUME IInv, BInv, NEW h \in Handles, Register(h)
  PROVE  BInv'
  BY DEF BInv, Alone, Balance, Dues, Bit, FirstTold, Cases, ToldEarly, Unneeded,
       SomeAt, At, NeverStrong, Register

\* Looking up makes no call.
LEMMA LookUp_Calls ==
  ASSUME IInv, BInv, race = "none", NEW h \in Handles, LookUp(h)
  PROVE  BInv'
<1>1. PICK p : pc' = [pc EXCEPT ![h] = p]
  BY DEF LookUp
<1>2. \A g \in Handles \ {h} : cur'[g] = cur[g]
  BY Before DEF TypeOK, LookUp
<1>3. CountsMoved(h, p) /\ Dues \in Int /\ DuesMoved(h, p)
  BY <1>1, <1>2, After, DuesMove
<1>4. Alone'
  BY <1>1, <1>3, Before DEF BInv, TypeOK, Counts, Allocated, Sources, Alone, Busy,
       CountsMoved, SomeAt, At, NeverStrong, LookUp
<1>5. Balance'
  <2>1. /\ pc[h] \notin Loud /\ p \notin Loud /\ (pc[h] \in StrongPCs <=> p \in StrongPCs)
        /\ (base' => base) /\ mFlags' = mFlags /\ held' = held
    BY <1>1, Before DEF TypeOK, Loud, ToldLater, LookUp
  <2> QED
    BY <1>1, <1>3, <2>1, Balance_Quiet DEF BInv
<1>6. FirstTold'
  BY <1>1, <1>3, Before DEF BInv, TypeOK, Counts, Allocated, Sources, Locals, Alone,
       FirstTold, Cases, Busy, CountsMoved, ToldLater, SomeAt, At, NeverStrong,
       LookUp
<1>7. Cases'
  BY <1>1, Before DEF BInv, TypeOK, Counts, Allocated, FirstTold, Cases, Locals,
       ToldLater, SomeAt, LookUp
<1> QED
  BY <1>4, <1>5, <1>6, <1>7 DEF BInv

\* An sp<> that goes away owes its call only if it was the last.
LEMMA SpDtor_Calls ==
  ASSUME IInv, BInv, race = "none", NEW h \in Handles, SpDtor(h)
  PROVE  BInv'
<1>1. PICK p : pc' = [pc EXCEPT ![h] = p]
  BY DEF SpDtor, Borrowed
<1>2. \A g \in Handles \ {h} : cur'[g] = cur[g]
  BY Before DEF TypeOK, SpDtor, Borrowed
<1>3. CountsMoved(h, p) /\ Dues \in Int /\ DuesMoved(h, p)
  BY <1>1, <1>2, After, DuesMove
<1>4. Alone'
  BY <1>1, <1>3, Before DEF BInv, TypeOK, Counts, Allocated, Sources, Alone, Busy,
       CountsMoved, SomeAt, At, NeverStrong, SpDtor, Borrowed
<1>5. Balance'
  <2>1. /\ pc[h] \notin Loud /\ p \notin Loud /\ (pc[h] \in StrongPCs <=> p \in StrongPCs)
        /\ (base' => base) /\ mFlags' = mFlags /\ held' = held
    BY <1>1, Before DEF TypeOK, Loud, ToldLater, SpDtor, Borrowed
  <2> QED
    BY <1>1, <1>3, <2>1, Balance_Quiet DEF BInv
<1>6. FirstTold'
  BY <1>1, <1>3, Before DEF BInv, TypeOK, Counts, Allocated, Sources, Locals, Alone,
       FirstTold, Cases, Busy, CountsMoved, ToldLater, SomeAt, At, NeverStrong,
       SpDtor, Borrowed
<1>7. Cases'
  BY <1>1, Before DEF BInv, TypeOK, Counts, Allocated, FirstTold, Cases, Locals,
       ToldLater, SomeAt, SpDtor, Borrowed
<1> QED
  BY <1>4, <1>5, <1>6, <1>7 DEF BInv

\* A weak reference that goes away owes no call.
LEMMA WpDtor_Calls ==
  ASSUME IInv, BInv, race = "none", NEW h \in Handles, WpDtor(h)
  PROVE  BInv'
<1>1. PICK p : pc' = [pc EXCEPT ![h] = p]
  BY DEF WpDtor, Borrowed
<1>2. \A g \in Handles \ {h} : cur'[g] = cur[g]
  BY Before DEF TypeOK, WpDtor, Borrowed
<1>3. CountsMoved(h, p) /\ Dues \in Int /\ DuesMoved(h, p)
  BY <1>1, <1>2, After, DuesMove
<1>4. Alone'
  BY <1>1, <1>3, Before DEF BInv, TypeOK, Counts, Allocated, Sources, Alone, Busy,
       CountsMoved, SomeAt, At, NeverStrong, WpDtor, Borrowed
<1>5. Balance'
  <2>1. /\ pc[h] \notin Loud /\ p \notin Loud /\ (pc[h] \in StrongPCs <=> p \in StrongPCs)
        /\ (base' => base) /\ mFlags' = mFlags /\ held' = held
    BY <1>1, Before DEF TypeOK, Loud, ToldLater, WpDtor, Borrowed
  <2> QED
    BY <1>1, <1>3, <2>1, Balance_Quiet DEF BInv
<1>6. FirstTold'
  BY <1>1, <1>3, Before DEF BInv, TypeOK, Counts, Allocated, Sources, Locals, Alone,
       FirstTold, Cases, Busy, CountsMoved, ToldLater, SomeAt, At, NeverStrong,
       WpDtor, Borrowed
<1>7. Cases'
  BY <1>1, Before DEF BInv, TypeOK, Counts, Allocated, FirstTold, Cases, Locals,
       ToldLater, SomeAt, WpDtor, Borrowed
<1> QED
  BY <1>4, <1>5, <1>6, <1>7 DEF BInv

\* Weak references make no calls.
LEMMA incWeak_Calls ==
  ASSUME IInv, BInv, race = "none", NEW h \in Handles, incWeak(h)
  PROVE  BInv'
<1>1. PICK p : pc' = [pc EXCEPT ![h] = p]
  BY DEF incWeak, AfterIncWeak
<1>2. \A g \in Handles \ {h} : cur'[g] = cur[g]
  BY Before DEF TypeOK, incWeak, AfterIncWeak
<1>3. CountsMoved(h, p) /\ Dues \in Int /\ DuesMoved(h, p)
  BY <1>1, <1>2, After, DuesMove
<1>4. Alone'
  BY <1>1, <1>3, Before DEF BInv, TypeOK, Counts, Allocated, Sources, Alone, Busy,
       CountsMoved, SomeAt, At, NeverStrong, incWeak, AfterIncWeak
<1>5. Balance'
  <2>1. /\ pc[h] \notin Loud /\ p \notin Loud /\ (pc[h] \in StrongPCs <=> p \in StrongPCs)
        /\ (base' => base) /\ mFlags' = mFlags /\ held' = held
    BY <1>1, Before DEF TypeOK, Loud, ToldLater, incWeak, AfterIncWeak
  <2> QED
    BY <1>1, <1>3, <2>1, Balance_Quiet DEF BInv
<1>6. FirstTold'
  BY <1>1, <1>3, Before DEF BInv, TypeOK, Counts, Allocated, Sources, Locals, Alone,
       FirstTold, Cases, Busy, CountsMoved, ToldLater, SomeAt, At, NeverStrong,
       incWeak, AfterIncWeak
<1>7. Cases'
  BY <1>1, Before DEF BInv, TypeOK, Counts, Allocated, FirstTold, Cases, Locals,
       ToldLater, SomeAt, incWeak, AfterIncWeak
<1> QED
  BY <1>4, <1>5, <1>6, <1>7 DEF BInv

\* Only the first strong reference owes onFirstRef, from here on.
LEMMA incStrong_inc_Calls ==
  ASSUME IInv, BInv, race = "none", NEW h \in Handles, incStrong_inc(h)
  PROVE  BInv'
<1>1. PICK p : pc' = [pc EXCEPT ![h] = p]
  BY DEF incStrong_inc
<1>2. \A g \in Handles \ {h} : cur'[g] = cur[g]
  BY Before DEF TypeOK, incStrong_inc
<1>3. CountsMoved(h, p) /\ Dues \in Int /\ DuesMoved(h, p)
  BY <1>1, <1>2, After, DuesMove
<1>4. Alone'
  BY <1>1, <1>3, Before DEF BInv, TypeOK, Counts, Allocated, Sources, Alone, Busy,
       CountsMoved, SomeAt, At, NeverStrong, incStrong_inc
<1>5. Balance'
  BY <1>1, <1>3, Before DEF BInv, TypeOK, Counts, Allocated, Sources, Locals, Alone,
       Balance, FirstTold, Cases, Busy, CountsMoved, DuesMoved, Bit, Early,
       Unneeded, ToldLater, SomeAt, At, NeverStrong, incStrong_inc
<1>6. FirstTold'
  BY <1>1, <1>3, Before DEF BInv, TypeOK, Counts, Allocated, Sources, Locals, Alone,
       FirstTold, Cases, Busy, CountsMoved, ToldLater, SomeAt, At, NeverStrong,
       incStrong_inc
<1>7. Cases'
  BY <1>1, Before DEF BInv, TypeOK, Counts, Allocated, FirstTold, Cases, Locals,
       ToldLater, SomeAt, incStrong_inc
<1> QED
  BY <1>4, <1>5, <1>6, <1>7 DEF BInv

\* forceIncStrong owes onFirstRef whenever it revives the object.
LEMMA forceIncStrong_inc_Calls ==
  ASSUME IInv, BInv, race = "none", NEW h \in Handles, forceIncStrong_inc(h)
  PROVE  BInv'
<1>1. PICK p : pc' = [pc EXCEPT ![h] = p]
  BY DEF forceIncStrong_inc
<1>2. \A g \in Handles \ {h} : cur'[g] = cur[g]
  BY Before DEF TypeOK, forceIncStrong_inc
<1>3. CountsMoved(h, p) /\ Dues \in Int /\ DuesMoved(h, p)
  BY <1>1, <1>2, After, DuesMove
<1>4. Alone'
  BY <1>1, <1>3, Before DEF BInv, TypeOK, Counts, Allocated, Sources, Alone, Busy,
       CountsMoved, SomeAt, At, NeverStrong, forceIncStrong_inc
<1>5. Balance'
  BY <1>1, <1>3, Before DEF BInv, TypeOK, Counts, Allocated, Sources, Locals, Alone,
       Balance, FirstTold, Cases, Busy, CountsMoved, DuesMoved, Bit, Early,
       Unneeded, ToldLater, SomeAt, At, NeverStrong, forceIncStrong_inc
<1>6. FirstTold'
  BY <1>1, <1>3, Before DEF BInv, TypeOK, Counts, Allocated, Sources, Locals, Alone,
       FirstTold, Cases, Busy, CountsMoved, ToldLater, SomeAt, At, NeverStrong,
       forceIncStrong_inc
<1>7. Cases'
  BY <1>1, Before DEF BInv, TypeOK, Counts, Allocated, FirstTold, Cases, Locals,
       ToldLater, SomeAt, forceIncStrong_inc
<1> QED
  BY <1>4, <1>5, <1>6, <1>7 DEF BInv

\* The call stays due over the fix-up.
LEMMA incStrong_fix_Calls ==
  ASSUME IInv, BInv, race = "none", NEW h \in Handles, incStrong_fix(h)
  PROVE  BInv'
<1>1. PICK p : pc' = [pc EXCEPT ![h] = p]
  BY DEF incStrong_fix
<1>2. \A g \in Handles \ {h} : cur'[g] = cur[g]
  BY Before DEF TypeOK, incStrong_fix
<1>3. CountsMoved(h, p) /\ Dues \in Int /\ DuesMoved(h, p)
  BY <1>1, <1>2, After, DuesMove
<1>4. Alone'
  BY <1>1, <1>3, Before DEF BInv, TypeOK, Counts, Allocated, Sources, Alone, Busy,
       CountsMoved, SomeAt, At, NeverStrong, incStrong_fix
<1>5. Balance'
  BY <1>1, <1>3, Before DEF BInv, TypeOK, Counts, Allocated, Sources, Locals, Alone,
       Balance, FirstTold, Cases, Busy, CountsMoved, DuesMoved, Bit, Early,
       Unneeded, ToldLater, SomeAt, At, NeverStrong, incStrong_fix
<1>6. FirstTold'
  BY <1>1, <1>3, Before DEF BInv, TypeOK, Counts, Allocated, Sources, Locals, Alone,
       FirstTold, Cases, Busy, CountsMoved, ToldLater, SomeAt, At, NeverStrong,
       incStrong_fix
<1>7. Cases'
  BY <1>1, Before DEF BInv, TypeOK, Counts, Allocated, FirstTold, Cases, Locals,
       ToldLater, SomeAt, incStrong_fix
<1> QED
  BY <1>4, <1>5, <1>6, <1>7 DEF BInv

\* onFirstRef is called: what was due is paid.
LEMMA incStrong_first_Calls ==
  ASSUME IInv, BInv, race = "none", NEW h \in Handles, incStrong_first(h)
  PROVE  BInv'
<1>1. PICK p : pc' = [pc EXCEPT ![h] = p]
  BY DEF incStrong_first
<1>2. \A g \in Handles \ {h} : cur'[g] = cur[g]
  BY Before DEF TypeOK, incStrong_first
<1>3. CountsMoved(h, p) /\ Dues \in Int /\ DuesMoved(h, p)
  BY <1>1, <1>2, After, DuesMove
<1>4. Alone'
  BY <1>1, <1>3, Before DEF BInv, TypeOK, Counts, Allocated, Sources, Alone, Busy,
       CountsMoved, SomeAt, At, NeverStrong, incStrong_first
<1>5. Balance'
  <2>1. /\ pc[h] = "is_first" /\ p = "sp" /\ held' = held + 1 /\ held \in Int
        /\ SomeAt(StrongPCs) /\ SomeAt(StrongPCs)' /\ base
    BY <1>1, <1>3, Before
       DEF TypeOK, Counts, Allocated, SomeAt, CountsMoved, incStrong_first
  <2>2. Dues' = Dues + 1
    <3>1. ~Early(h) /\ ~Early(h)'
      BY <1>1, <2>1, Before DEF TypeOK, Early
    <3> QED
      BY <1>3, <2>1, <3>1 DEF DuesMoved, Bit, ToldLater
  <2>3. CASE mFlags = "WEAK"
    BY <1>3, <2>1, <2>2, <2>3 DEF BInv, Balance, Bit
  <2>4. CASE mFlags = "STRONG"
    <3>1. held = 0 /\ ~SomeAt({"ds_last"}) /\ ~SomeAt({"as_unneeded"})
      BY <2>1, <2>4 DEF BInv, FirstTold, ToldLater, SomeAt
    <3>2. At({"ds_last"}) = {} /\ ToldEarly = {}
      BY <2>4, <3>1, Before DEF At, SomeAt, ToldEarly, Locals
    <3>3. At(ToldLater) = {h}
      BY <2>1, <2>4 DEF BInv, FirstTold, ToldLater, At
    <3>4. Dues = -1
      <4>1. Cardinality({}) = 0 /\ Cardinality({h}) = 1
        BY FS_EmptySet, FS_Singleton
      <4> QED
        BY <3>2, <3>3, <4>1 DEF Dues
    <3> QED
      BY <2>1, <2>2, <3>1, <3>4 DEF Balance, Bit
  <2> QED
    BY <2>3, <2>4, Before DEF TypeOK
<1>6. FirstTold'
  BY <1>1, <1>3, Before DEF BInv, TypeOK, Counts, Allocated, Sources, Locals, Alone,
       FirstTold, Cases, Busy, CountsMoved, ToldLater, SomeAt, At, NeverStrong,
       incStrong_first
<1>7. Cases'
  BY <1>1, Before DEF BInv, TypeOK, Counts, Allocated, FirstTold, Cases, Locals,
       ToldLater, SomeAt, incStrong_first
<1> QED
  BY <1>4, <1>5, <1>6, <1>7 DEF BInv

\* Only the last strong reference owes onLastStrongRef.
LEMMA decStrong_dec_Calls ==
  ASSUME IInv, BInv, race = "none", NEW h \in Handles, decStrong_dec(h)
  PROVE  BInv'
<1>1. PICK p : pc' = [pc EXCEPT ![h] = p]
  BY DEF decStrong_dec
<1>2. \A g \in Handles \ {h} : cur'[g] = cur[g]
  BY Before DEF TypeOK, decStrong_dec
<1>3. CountsMoved(h, p) /\ Dues \in Int /\ DuesMoved(h, p)
  BY <1>1, <1>2, After, DuesMove
<1>4. Alone'
  BY <1>1, <1>3, Before DEF BInv, TypeOK, Counts, Allocated, Sources, Alone, Busy,
       CountsMoved, SomeAt, At, NeverStrong, decStrong_dec
<1>5. Balance'
  BY <1>1, <1>3, Before DEF BInv, TypeOK, Counts, Allocated, Sources, Locals, Alone,
       Balance, FirstTold, Cases, Busy, CountsMoved, DuesMoved, Bit, Early,
       Unneeded, ToldLater, SomeAt, At, NeverStrong, decStrong_dec
<1>6. FirstTold'
  BY <1>1, <1>3, Before DEF BInv, TypeOK, Counts, Allocated, Sources, Locals, Alone,
       FirstTold, Cases, Busy, CountsMoved, ToldLater, SomeAt, At, NeverStrong,
       decStrong_dec
<1>7. Cases'
  BY <1>1, Before DEF BInv, TypeOK, Counts, Allocated, FirstTold, Cases, Locals,
       ToldLater, SomeAt, decStrong_dec
<1> QED
  BY <1>4, <1>5, <1>6, <1>7 DEF BInv

\* onLastStrongRef is called: what was due is paid.
LEMMA decStrong_last_Calls ==
  ASSUME IInv, BInv, race = "none", NEW h \in Handles, decStrong_last(h)
  PROVE  BInv'
<1>1. PICK p : pc' = [pc EXCEPT ![h] = p]
  BY DEF decStrong_last
<1>2. \A g \in Handles \ {h} : cur'[g] = cur[g]
  BY Before DEF TypeOK, decStrong_last
<1>3. CountsMoved(h, p) /\ Dues \in Int /\ DuesMoved(h, p)
  BY <1>1, <1>2, After, DuesMove
<1>4. Alone'
  BY <1>1, <1>3, Before DEF BInv, TypeOK, Counts, Allocated, Sources, Alone, Busy,
       CountsMoved, SomeAt, At, NeverStrong, decStrong_last
<1>5. Balance'
  BY <1>1, <1>3, Before DEF BInv, TypeOK, Counts, Allocated, Sources, Locals, Alone,
       Balance, FirstTold, Cases, Busy, CountsMoved, DuesMoved, Bit, Early,
       Unneeded, ToldLater, SomeAt, At, NeverStrong, decStrong_last
<1>6. FirstTold'
  BY <1>1, <1>3, Before DEF BInv, TypeOK, Counts, Allocated, Sources, Locals, Alone,
       FirstTold, Cases, Busy, CountsMoved, ToldLater, SomeAt, At, NeverStrong,
       decStrong_last
<1>7. Cases'
  BY <1>1, Before DEF BInv, TypeOK, Counts, Allocated, FirstTold, Cases, Locals,
       ToldLater, SomeAt, decStrong_last
<1> QED
  BY <1>4, <1>5, <1>6, <1>7 DEF BInv

\* `delete this' makes no call.
LEMMA decStrong_del_Calls ==
  ASSUME IInv, BInv, race = "none", NEW h \in Handles, decStrong_del(h)
  PROVE  BInv'
<1>1. PICK p : pc' = [pc EXCEPT ![h] = p]
  BY DEF decStrong_del
<1>2. \A g \in Handles \ {h} : cur'[g] = cur[g]
  BY Before DEF TypeOK, decStrong_del
<1>3. CountsMoved(h, p) /\ Dues \in Int /\ DuesMoved(h, p)
  BY <1>1, <1>2, After, DuesMove
<1>4. Alone'
  BY <1>1, <1>3, Before DEF BInv, TypeOK, Counts, Allocated, Sources, Alone, Busy,
       CountsMoved, SomeAt, At, NeverStrong, decStrong_del
<1>5. Balance'
  <2>1. /\ pc[h] \notin Loud /\ p \notin Loud /\ (pc[h] \in StrongPCs <=> p \in StrongPCs)
        /\ (base' => base) /\ mFlags' = mFlags /\ held' = held
    BY <1>1, Before DEF TypeOK, Loud, ToldLater, decStrong_del
  <2> QED
    BY <1>1, <1>3, <2>1, Balance_Quiet DEF BInv
<1>6. FirstTold'
  BY <1>1, <1>3, Before DEF BInv, TypeOK, Counts, Allocated, Sources, Locals, Alone,
       FirstTold, Cases, Busy, CountsMoved, ToldLater, SomeAt, At, NeverStrong,
       decStrong_del
<1>7. Cases'
  BY <1>1, Before DEF BInv, TypeOK, Counts, Allocated, FirstTold, Cases, Locals,
       ToldLater, SomeAt, decStrong_del
<1> QED
  BY <1>4, <1>5, <1>6, <1>7 DEF BInv

\* The last weak reference owes no call of the strong kind.
LEMMA decWeak_dec_Calls ==
  ASSUME IInv, BInv, race = "none", NEW h \in Handles, decWeak_dec(h)
  PROVE  BInv'
<1>1. PICK p : pc' = [pc EXCEPT ![h] = p]
  BY DEF decWeak_dec
<1>2. \A g \in Handles \ {h} : cur'[g] = cur[g]
  BY Before DEF TypeOK, decWeak_dec
<1>3. CountsMoved(h, p) /\ Dues \in Int /\ DuesMoved(h, p)
  BY <1>1, <1>2, After, DuesMove
<1>4. Alone'
  BY <1>1, <1>3, Before DEF BInv, TypeOK, Counts, Allocated, Sources, Alone, Busy,
       CountsMoved, SomeAt, At, NeverStrong, decWeak_dec
<1>5. Balance'
  <2>1. /\ pc[h] \notin Loud /\ p \notin Loud /\ (pc[h] \in StrongPCs <=> p \in StrongPCs)
        /\ (base' => base) /\ mFlags' = mFlags /\ held' = held
    BY <1>1, Before DEF TypeOK, Loud, ToldLater, decWeak_dec
  <2> QED
    BY <1>1, <1>3, <2>1, Balance_Quiet DEF BInv
<1>6. FirstTold'
  BY <1>1, <1>3, Before DEF BInv, TypeOK, Counts, Allocated, Sources, Locals, Alone,
       FirstTold, Cases, Busy, CountsMoved, ToldLater, SomeAt, At, NeverStrong,
       decWeak_dec
<1>7. Cases'
  BY <1>1, Before DEF BInv, TypeOK, Counts, Allocated, FirstTold, Cases, Locals,
       ToldLater, SomeAt, decWeak_dec
<1> QED
  BY <1>4, <1>5, <1>6, <1>7 DEF BInv

\* onLastWeakRef is none of the calls that are balanced.
LEMMA decWeak_last_Calls ==
  ASSUME IInv, BInv, race = "none", NEW h \in Handles, decWeak_last(h)
  PROVE  BInv'
<1>1. PICK p : pc' = [pc EXCEPT ![h] = p]
  BY DEF decWeak_last
<1>2. \A g \in Handles \ {h} : cur'[g] = cur[g]
  BY Before DEF TypeOK, decWeak_last
<1>3. CountsMoved(h, p) /\ Dues \in Int /\ DuesMoved(h, p)
  BY <1>1, <1>2, After, DuesMove
<1>4. Alone'
  <2>1. CASE mFlags = "STRONG"
    BY <2>1 DEF Alone, decWeak_last
  <2>2. CASE mFlags # "STRONG"
    <3>1. UNCHANGED <<mStrong, refs>> /\ p = "dw_del"
      BY <1>1, <2>2, Before DEF TypeOK, decWeak_last
    <3> QED
      BY <1>1, <3>1, Before DEF BInv, TypeOK, Alone, Busy, NeverStrong
  <2> QED
    BY <2>1, <2>2
<1>5. Balance'
  <2>1. /\ pc[h] \notin Loud /\ p \notin Loud /\ (pc[h] \in StrongPCs <=> p \in StrongPCs)
        /\ (base' => base) /\ mFlags' = mFlags /\ held' = held
    BY <1>1, Before DEF TypeOK, Loud, ToldLater, decWeak_last
  <2> QED
    BY <1>1, <1>3, <2>1, Balance_Quiet DEF BInv
<1>6. FirstTold'
  BY <1>1, <1>3, Before DEF BInv, TypeOK, Counts, Allocated, Sources, Locals, Alone,
       FirstTold, Cases, Busy, CountsMoved, ToldLater, SomeAt, At, NeverStrong,
       decWeak_last
<1>7. Cases'
  BY <1>1, Before DEF BInv, TypeOK, Counts, Allocated, FirstTold, Cases, Locals,
       ToldLater, SomeAt, decWeak_last
<1> QED
  BY <1>4, <1>5, <1>6, <1>7 DEF BInv

\* The object that goes away owes nothing.
LEMMA decWeak_del_Calls ==
  ASSUME IInv, BInv, race = "none", NEW h \in Handles, decWeak_del(h)
  PROVE  BInv'
<1>1. PICK p : pc' = [pc EXCEPT ![h] = p]
  BY DEF decWeak_del
<1>2. \A g \in Handles \ {h} : cur'[g] = cur[g]
  BY Before DEF TypeOK, decWeak_del
<1>3. CountsMoved(h, p) /\ Dues \in Int /\ DuesMoved(h, p)
  BY <1>1, <1>2, After, DuesMove
<1>4. Alone'
  BY <1>1, <1>3, Before DEF BInv, TypeOK, Counts, Allocated, Sources, Alone, Busy,
       CountsMoved, SomeAt, At, NeverStrong, decWeak_del
<1>5. Balance'
  <2>1. /\ pc[h] \notin Loud /\ p \notin Loud /\ (pc[h] \in StrongPCs <=> p \in StrongPCs)
        /\ (base' => base) /\ mFlags' = mFlags /\ held' = held
    BY <1>1, Before DEF TypeOK, Loud, ToldLater, decWeak_del
  <2> QED
    BY <1>1, <1>3, <2>1, Balance_Quiet DEF BInv
<1>6. FirstTold'
  BY <1>1, <1>3, Before DEF BInv, TypeOK, Counts, Allocated, Sources, Locals, Alone,
       FirstTold, Cases, Busy, CountsMoved, ToldLater, SomeAt, At, NeverStrong,
       decWeak_del
<1>7. Cases'
  BY <1>1, Before DEF BInv, TypeOK, Counts, Allocated, FirstTold, Cases, Locals,
       ToldLater, SomeAt, decWeak_del
<1> QED
  BY <1>4, <1>5, <1>6, <1>7 DEF BInv

\* Reading curCount makes no call.
LEMMA attemptIncStrong_read_Calls ==
  ASSUME IInv, BInv, race = "none", NEW h \in Handles, attemptIncStrong_read(h)
  PROVE  BInv'
<1>1. PICK p : pc' = [pc EXCEPT ![h] = p]
  BY DEF attemptIncStrong_read
<1>2. \A g \in Handles \ {h} : cur'[g] = cur[g]
  BY Before DEF TypeOK, attemptIncStrong_read
<1>3. CountsMoved(h, p) /\ Dues \in Int /\ DuesMoved(h, p)
  BY <1>1, <1>2, After, DuesMove
<1>4. Alone'
  BY <1>1, <1>3, Before DEF BInv, TypeOK, Counts, Allocated, Sources, Alone, Busy,
       CountsMoved, SomeAt, At, NeverStrong, attemptIncStrong_read
<1>5. Balance'
  <2>1. /\ pc[h] \notin Loud /\ p \notin Loud /\ (pc[h] \in StrongPCs <=> p \in StrongPCs)
        /\ (base' => base) /\ mFlags' = mFlags /\ held' = held
    BY <1>1, Before DEF TypeOK, Loud, ToldLater, attemptIncStrong_read
  <2> QED
    BY <1>1, <1>3, <2>1, Balance_Quiet DEF BInv
<1>6. FirstTold'
  BY <1>1, <1>3, Before DEF BInv, TypeOK, Counts, Allocated, Sources, Locals, Alone,
       FirstTold, Cases, Busy, CountsMoved, ToldLater, SomeAt, At, NeverStrong,
       attemptIncStrong_read
<1>7. Cases'
  BY <1>1, Before DEF BInv, TypeOK, Counts, Allocated, FirstTold, Cases, Locals,
       ToldLater, SomeAt, attemptIncStrong_read
<1> QED
  BY <1>4, <1>5, <1>6, <1>7 DEF BInv

\* The easy case joins references that have been announced.
LEMMA attemptIncStrong_cas_Calls ==
  ASSUME IInv, BInv, race = "none", NEW h \in Handles, attemptIncStrong_cas(h)
  PROVE  BInv'
<1>1. PICK p : pc' = [pc EXCEPT ![h] = p]
  BY DEF attemptIncStrong_cas, CmpxchgStrong
<1>2. \A g \in Handles \ {h} : cur'[g] = cur[g]
  BY Before DEF TypeOK, attemptIncStrong_cas, CmpxchgStrong
<1>3. CountsMoved(h, p) /\ Dues \in Int /\ DuesMoved(h, p)
  BY <1>1, <1>2, After, DuesMove
<1>4. Alone'
  BY <1>1, <1>3, Before DEF BInv, TypeOK, Counts, Allocated, Sources, Alone, Busy,
       CountsMoved, SomeAt, At, NeverStrong, attemptIncStrong_cas, CmpxchgStrong
<1>5. Balance'
  BY <1>1, <1>3, Before DEF BInv, TypeOK, Counts, Allocated, Sources, Locals, Alone,
       Balance, FirstTold, Cases, Busy, CountsMoved, DuesMoved, Bit, Early,
       Unneeded, ToldLater, SomeAt, At, NeverStrong, attemptIncStrong_cas,
       CmpxchgStrong
<1>6. FirstTold'
  BY <1>1, <1>3, Before DEF BInv, TypeOK, Counts, Allocated, Sources, Locals, Alone,
       FirstTold, Cases, Busy, CountsMoved, ToldLater, SomeAt, At, NeverStrong,
       attemptIncStrong_cas, CmpxchgStrong
<1>7. Cases'
  BY <1>1, Before DEF BInv, TypeOK, Counts, Allocated, FirstTold, Cases, Locals,
       ToldLater, SomeAt, attemptIncStrong_cas, CmpxchgStrong
<1> QED
  BY <1>4, <1>5, <1>6, <1>7 DEF BInv

\* The choice on the lifetime makes no call.
LEMMA attemptIncStrong_hard_Calls ==
  ASSUME IInv, BInv, race = "none", NEW h \in Handles, attemptIncStrong_hard(h)
  PROVE  BInv'
<1>1. PICK p : pc' = [pc EXCEPT ![h] = p]
  BY DEF attemptIncStrong_hard
<1>2. \A g \in Handles \ {h} : cur'[g] = cur[g]
  BY Before DEF TypeOK, attemptIncStrong_hard
<1>3. CountsMoved(h, p) /\ Dues \in Int /\ DuesMoved(h, p)
  BY <1>1, <1>2, After, DuesMove
<1>4. Alone'
  BY <1>1, <1>3, Before DEF BInv, TypeOK, Counts, Allocated, Sources, Alone, Busy,
       CountsMoved, SomeAt, At, NeverStrong, attemptIncStrong_hard
<1>5. Balance'
  <2>1. /\ pc[h] \notin Loud /\ p \notin Loud /\ (pc[h] \in StrongPCs <=> p \in StrongPCs)
        /\ (base' => base) /\ mFlags' = mFlags /\ held' = held
    BY <1>1, Before DEF TypeOK, Loud, ToldLater, attemptIncStrong_hard
  <2> QED
    BY <1>1, <1>3, <2>1, Balance_Quiet DEF BInv
<1>6. FirstTold'
  BY <1>1, <1>3, Before DEF BInv, TypeOK, Counts, Allocated, Sources, Locals, Alone,
       FirstTold, Cases, Busy, CountsMoved, ToldLater, SomeAt, At, NeverStrong,
       attemptIncStrong_hard
<1>7. Cases'
  BY <1>1, Before DEF BInv, TypeOK, Counts, Allocated, FirstTold, Cases, Locals,
       ToldLater, SomeAt, attemptIncStrong_hard
<1> QED
  BY <1>4, <1>5, <1>6, <1>7 DEF BInv

\* The hard case joins references too.
LEMMA attemptIncStrong_cas2_Calls ==
  ASSUME IInv, BInv, race = "none", NEW h \in Handles, attemptIncStrong_cas2(h)
  PROVE  BInv'
<1>1. PICK p : pc' = [pc EXCEPT ![h] = p]
  BY DEF attemptIncStrong_cas2, CmpxchgStrong
<1>2. \A g \in Handles \ {h} : cur'[g] = cur[g]
  BY Before DEF TypeOK, attemptIncStrong_cas2, CmpxchgStrong
<1>3. CountsMoved(h, p) /\ Dues \in Int /\ DuesMoved(h, p)
  BY <1>1, <1>2, After, DuesMove
<1>4. Alone'
  BY <1>1, <1>3, Before DEF BInv, TypeOK, Counts, Allocated, Sources, Alone, Busy,
       CountsMoved, SomeAt, At, NeverStrong, attemptIncStrong_cas2, CmpxchgStrong
<1>5. Balance'
  BY <1>1, <1>3, Before DEF BInv, TypeOK, Counts, Allocated, Sources, Locals, Alone,
       Balance, FirstTold, Cases, Busy, CountsMoved, DuesMoved, Bit, Early,
       Unneeded, ToldLater, SomeAt, At, NeverStrong, attemptIncStrong_cas2,
       CmpxchgStrong
<1>6. FirstTold'
  BY <1>1, <1>3, Before DEF BInv, TypeOK, Counts, Allocated, Sources, Locals, Alone,
       FirstTold, Cases, Busy, CountsMoved, ToldLater, SomeAt, At, NeverStrong,
       attemptIncStrong_cas2, CmpxchgStrong
<1>7. Cases'
  BY <1>1, Before DEF BInv, TypeOK, Counts, Allocated, FirstTold, Cases, Locals,
       ToldLater, SomeAt, attemptIncStrong_cas2, CmpxchgStrong
<1> QED
  BY <1>4, <1>5, <1>6, <1>7 DEF BInv

\* Reading curCount again makes no call.
LEMMA attemptIncStrong_reread_Calls ==
  ASSUME IInv, BInv, race = "none", NEW h \in Handles, attemptIncStrong_reread(h)
  PROVE  BInv'
<1>1. PICK p : pc' = [pc EXCEPT ![h] = p]
  BY DEF attemptIncStrong_reread
<1>2. \A g \in Handles \ {h} : cur'[g] = cur[g]
  BY Before DEF TypeOK, attemptIncStrong_reread
<1>3. CountsMoved(h, p) /\ Dues \in Int /\ DuesMoved(h, p)
  BY <1>1, <1>2, After, DuesMove
<1>4. Alone'
  BY <1>1, <1>3, Before DEF BInv, TypeOK, Counts, Allocated, Sources, Alone, Busy,
       CountsMoved, SomeAt, At, NeverStrong, attemptIncStrong_reread
<1>5. Balance'
  <2>1. /\ pc[h] \notin Loud /\ p \notin Loud /\ (pc[h] \in StrongPCs <=> p \in StrongPCs)
        /\ (base' => base) /\ mFlags' = mFlags /\ held' = held
    BY <1>1, Before DEF TypeOK, Loud, ToldLater, attemptIncStrong_reread
  <2> QED
    BY <1>1, <1>3, <2>1, Balance_Quiet DEF BInv
<1>6. FirstTold'
  BY <1>1, <1>3, Before DEF BInv, TypeOK, Counts, Allocated, Sources, Locals, Alone,
       FirstTold, Cases, Busy, CountsMoved, ToldLater, SomeAt, At, NeverStrong,
       attemptIncStrong_reread
<1>7. Cases'
  BY <1>1, Before DEF BInv, TypeOK, Counts, Allocated, FirstTold, Cases, Locals,
       ToldLater, SomeAt, attemptIncStrong_reread
<1> QED
  BY <1>4, <1>5, <1>6, <1>7 DEF BInv

\* onIncStrongAttempted is answered once per promotion.
LEMMA attemptIncStrong_ask_Calls ==
  ASSUME IInv, BInv, race = "none", NEW h \in Handles, attemptIncStrong_ask(h)
  PROVE  BInv'
<1>1. PICK p : pc' = [pc EXCEPT ![h] = p]
  BY DEF attemptIncStrong_ask
<1>2. \A g \in Handles \ {h} : cur'[g] = cur[g]
  BY Before DEF TypeOK, attemptIncStrong_ask
<1>3. CountsMoved(h, p) /\ Dues \in Int /\ DuesMoved(h, p)
  BY <1>1, <1>2, After, DuesMove
<1>4. Alone'
  BY <1>1, <1>3, Before DEF BInv, TypeOK, Counts, Allocated, Sources, Alone, Busy,
       CountsMoved, SomeAt, At, NeverStrong, attemptIncStrong_ask
<1>5. Balance'
  BY <1>1, <1>3, Before DEF BInv, TypeOK, Counts, Allocated, Sources, Locals, Alone,
       Balance, FirstTold, Cases, Busy, CountsMoved, DuesMoved, Bit, Early,
       Unneeded, ToldLater, SomeAt, At, NeverStrong, attemptIncStrong_ask
<1>6. FirstTold'
  BY <1>1, <1>3, Before DEF BInv, TypeOK, Counts, Allocated, Sources, Locals, Alone,
       FirstTold, Cases, Busy, CountsMoved, ToldLater, SomeAt, At, NeverStrong,
       attemptIncStrong_ask
<1>7. Cases'
  BY <1>1, Before DEF BInv, TypeOK, Counts, Allocated, FirstTold, Cases, Locals,
       ToldLater, SomeAt, attemptIncStrong_ask
<1> QED
  BY <1>4, <1>5, <1>6, <1>7 DEF BInv

\* A promotion that was answered and found others owes onLastStrongRef.
LEMMA attemptIncStrong_inc_Calls ==
  ASSUME IInv, BInv, race = "none", NEW h \in Handles, attemptIncStrong_inc(h)
  PROVE  BInv'
<1>1. PICK p : pc' = [pc EXCEPT ![h] = p]
  BY DEF attemptIncStrong_inc
<1>2. \A g \in Handles \ {h} : cur'[g] = cur[g]
  BY Before DEF TypeOK, attemptIncStrong_inc
<1>3. CountsMoved(h, p) /\ Dues \in Int /\ DuesMoved(h, p)
  BY <1>1, <1>2, After, DuesMove
<1>4. Alone'
  BY <1>1, <1>3, Before DEF BInv, TypeOK, Counts, Allocated, Sources, Alone, Busy,
       CountsMoved, SomeAt, At, NeverStrong, attemptIncStrong_inc
<1>5. Balance'
  BY <1>1, <1>3, Before DEF BInv, TypeOK, Counts, Allocated, Sources, Locals, Alone,
       Balance, FirstTold, Cases, Busy, CountsMoved, DuesMoved, Bit, Early,
       Unneeded, ToldLater, SomeAt, At, NeverStrong, attemptIncStrong_inc
<1>6. FirstTold'
  BY <1>1, <1>3, Before DEF BInv, TypeOK, Counts, Allocated, Sources, Locals, Alone,
       FirstTold, Cases, Busy, CountsMoved, ToldLater, SomeAt, At, NeverStrong,
       attemptIncStrong_inc
<1>7. Cases'
  BY <1>1, Before DEF BInv, TypeOK, Counts, Allocated, FirstTold, Cases, Locals,
       ToldLater, SomeAt, attemptIncStrong_inc
<1> QED
  BY <1>4, <1>5, <1>6, <1>7 DEF BInv

\* The onLastStrongRef of an unneeded reference is called.
LEMMA attemptIncStrong_unneeded_Calls ==
  ASSUME IInv, BInv, race = "none", NEW h \in Handles, attemptIncStrong_unneeded(h)
  PROVE  BInv'
<1>1. PICK p : pc' = [pc EXCEPT ![h] = p]
  BY DEF attemptIncStrong_unneeded
<1>2. \A g \in Handles \ {h} : cur'[g] = cur[g]
  BY Before DEF TypeOK, attemptIncStrong_unneeded
<1>3. CountsMoved(h, p) /\ Dues \in Int /\ DuesMoved(h, p)
  BY <1>1, <1>2, After, DuesMove
<1>4. Alone'
  BY <1>1, <1>3, Before DEF BInv, TypeOK, Counts, Allocated, Sources, Alone, Busy,
       CountsMoved, SomeAt, At, NeverStrong, attemptIncStrong_unneeded
<1>5. Balance'
  BY <1>1, <1>3, Before DEF BInv, TypeOK, Counts, Allocated, Sources, Locals, Alone,
       Balance, FirstTold, Cases, Busy, CountsMoved, DuesMoved, Bit, Early,
       Unneeded, ToldLater, SomeAt, At, NeverStrong, attemptIncStrong_unneeded
<1>6. FirstTold'
  BY <1>1, <1>3, Before DEF BInv, TypeOK, Counts, Allocated, Sources, Locals, Alone,
       FirstTold, Cases, Busy, CountsMoved, ToldLater, SomeAt, At, NeverStrong,
       attemptIncStrong_unneeded
<1>7. Cases'
  BY <1>1, Before DEF BInv, TypeOK, Counts, Allocated, FirstTold, Cases, Locals,
       ToldLater, SomeAt, attemptIncStrong_unneeded
<1> QED
  BY <1>4, <1>5, <1>6, <1>7 DEF BInv

\* The end of the promotion makes no call.
LEMMA attemptIncStrong_fixread_Calls ==
  ASSUME IInv, BInv, race = "none", NEW h \in Handles, attemptIncStrong_fixread(h)
  PROVE  BInv'
<1>1. PICK p : pc' = [pc EXCEPT ![h] = p]
  BY DEF attemptIncStrong_fixread
<1>2. \A g \in Handles \ {h} : cur'[g] = cur[g]
  BY Before DEF TypeOK, attemptIncStrong_fixread
<1>3. CountsMoved(h, p) /\ Dues \in Int /\ DuesMoved(h, p)
  BY <1>1, <1>2, After, DuesMove
<1>4. Alone'
  BY <1>1, <1>3, Before DEF BInv, TypeOK, Counts, Allocated, Sources, Alone, Busy,
       CountsMoved, SomeAt, At, NeverStrong, attemptIncStrong_fixread
<1>5. Balance'
  <2>1. /\ pc[h] \notin Loud /\ p \notin Loud /\ (pc[h] \in StrongPCs <=> p \in StrongPCs)
        /\ (base' => base) /\ mFlags' = mFlags /\ held' = held
    BY <1>1, Before DEF TypeOK, Loud, ToldLater, attemptIncStrong_fixread
  <2> QED
    BY <1>1, <1>3, <2>1, Balance_Quiet DEF BInv
<1>6. FirstTold'
  BY <1>1, <1>3, Before DEF BInv, TypeOK, Counts, Allocated, Sources, Locals, Alone,
       FirstTold, Cases, Busy, CountsMoved, ToldLater, SomeAt, At, NeverStrong,
       attemptIncStrong_fixread
<1>7. Cases'
  BY <1>1, Before DEF BInv, TypeOK, Counts, Allocated, FirstTold, Cases, Locals,
       ToldLater, SomeAt, attemptIncStrong_fixread
<1> QED
  BY <1>4, <1>5, <1>6, <1>7 DEF BInv

\* The fix-up of a promotion makes no call.
LEMMA attemptIncStrong_fix_Calls ==
  ASSUME IInv, BInv, race = "none", NEW h \in Handles, attemptIncStrong_fix(h)
  PROVE  BInv'
<1>1. PICK p : pc' = [pc EXCEPT ![h] = p]
  BY DEF attemptIncStrong_fix
<1>2. \A g \in Handles \ {h} : cur'[g] = cur[g]
  BY Before DEF TypeOK, attemptIncStrong_fix
<1>3. CountsMoved(h, p) /\ Dues \in Int /\ DuesMoved(h, p)
  BY <1>1, <1>2, After, DuesMove
<1>4. Alone'
  BY <1>1, <1>3, Before DEF BInv, TypeOK, Counts, Allocated, Sources, Alone, Busy,
       CountsMoved, SomeAt, At, NeverStrong, attemptIncStrong_fix
<1>5. Balance'
  <2>1. /\ pc[h] \notin Loud /\ p \notin Loud /\ (pc[h] \in StrongPCs <=> p \in StrongPCs)
        /\ (base' => base) /\ mFlags' = mFlags /\ held' = held
    BY <1>1, Before DEF TypeOK, Loud, ToldLater, attemptIncStrong_fix
  <2> QED
    BY <1>1, <1>3, <2>1, Balance_Quiet DEF BInv
<1>6. FirstTold'
  BY <1>1, <1>3, Before DEF BInv, TypeOK, Counts, Allocated, Sources, Locals, Alone,
       FirstTold, Cases, Busy, CountsMoved, ToldLater, SomeAt, At, NeverStrong,
       attemptIncStrong_fix
<1>7. Cases'
  BY <1>1, Before DEF BInv, TypeOK, Counts, Allocated, FirstTold, Cases, Locals,
       ToldLater, SomeAt, attemptIncStrong_fix
<1> QED
  BY <1>4, <1>5, <1>6, <1>7 DEF BInv

\* attemptIncWeak makes no call.
LEMMA attemptIncWeak_read_Calls ==
  ASSUME IInv, BInv, race = "none", NEW h \in Handles, attemptIncWeak_read(h)
  PROVE  BInv'
<1>1. PICK p : pc' = [pc EXCEPT ![h] = p]
  BY DEF attemptIncWeak_read
<1>2. \A g \in Handles \ {h} : cur'[g] = cur[g]
  BY Before DEF TypeOK, attemptIncWeak_read
<1>3. CountsMoved(h, p) /\ Dues \in Int /\ DuesMoved(h, p)
  BY <1>1, <1>2, After, DuesMove
<1>4. Alone'
  BY <1>1, <1>3, Before DEF BInv, TypeOK, Counts, Allocated, Sources, Alone, Busy,
       CountsMoved, SomeAt, At, NeverStrong, attemptIncWeak_read
<1>5. Balance'
  <2>1. /\ pc[h] \notin Loud /\ p \notin Loud /\ (pc[h] \in StrongPCs <=> p \in StrongPCs)
        /\ (base' => base) /\ mFlags' = mFlags /\ held' = held
    BY <1>1, Before DEF TypeOK, Loud, ToldLater, attemptIncWeak_read
  <2> QED
    BY <1>1, <1>3, <2>1, Balance_Quiet DEF BInv
<1>6. FirstTold'
  BY <1>1, <1>3, Before DEF BInv, TypeOK, Counts, Allocated, Sources, Locals, Alone,
       FirstTold, Cases, Busy, CountsMoved, ToldLater, SomeAt, At, NeverStrong,
       attemptIncWeak_read
<1>7. Cases'
  BY <1>1, Before DEF BInv, TypeOK, Counts, Allocated, FirstTold, Cases, Locals,
       ToldLater, SomeAt, attemptIncWeak_read
<1> QED
  BY <1>4, <1>5, <1>6, <1>7 DEF BInv

\* attemptIncWeak makes no call, whether it succeeds or not.
LEMMA attemptIncWeak_cas_Calls ==
  ASSUME IInv, BInv, race = "none", NEW h \in Handles, attemptIncWeak_cas(h)
  PROVE  BInv'
<1>1. PICK p : pc' = [pc EXCEPT ![h] = p]
  BY DEF attemptIncWeak_cas
<1>2. \A g \in Handles \ {h} : cur'[g] = cur[g]
  BY Before DEF TypeOK, attemptIncWeak_cas
<1>3. CountsMoved(h, p) /\ Dues \in Int /\ DuesMoved(h, p)
  BY <1>1, <1>2, After, DuesMove
<1>4. Alone'
  BY <1>1, <1>3, Before DEF BInv, TypeOK, Counts, Allocated, Sources, Alone, Busy,
       CountsMoved, SomeAt, At, NeverStrong, attemptIncWeak_cas
<1>5. Balance'
  <2>1. /\ pc[h] \notin Loud /\ p \notin Loud /\ (pc[h] \in StrongPCs <=> p \in StrongPCs)
        /\ (base' => base) /\ mFlags' = mFlags /\ held' = held
    BY <1>1, Before DEF TypeOK, Loud, ToldLater, attemptIncWeak_cas
  <2> QED
    BY <1>1, <1>3, <2>1, Balance_Quiet DEF BInv
<1>6. FirstTold'
  BY <1>1, <1>3, Before DEF BInv, TypeOK, Counts, Allocated, Sources, Locals, Alone,
       FirstTold, Cases, Busy, CountsMoved, ToldLater, SomeAt, At, NeverStrong,
       attemptIncWeak_cas
<1>7. Cases'
  BY <1>1, Before DEF BInv, TypeOK, Counts, Allocated, FirstTold, Cases, Locals,
       ToldLater, SomeAt, attemptIncWeak_cas
<1> QED
  BY <1>4, <1>5, <1>6, <1>7 DEF BInv

\* A fresh object has told nobody anything.
LEMMA Construct_Calls ==
  ASSUME IInv, Construct
  PROVE  BInv'
<1>1. \A h \in Handles : pc'[h] = "null"
  BY Before DEF TypeOK, Construct, At
<1>2. At({"ds_last"})' = {} /\ At(ToldLater)' = {} /\ ToldEarly' = {} /\ ~SomeAt(StrongPCs)'
  BY <1>1 DEF At, ToldEarly, ToldLater, SomeAt
<1>3. Dues' = 0
  BY <1>2, FS_EmptySet DEF Dues
<1>4. Balance'
  BY <1>2, <1>3 DEF Balance, Bit, Construct
<1> QED
  BY <1>1, <1>4 DEF BInv, Alone, Busy, FirstTold, Cases, ToldLater, Construct

\* Every step keeps the balance.
LEMMA Next_Calls ==
  ASSUME race = "none", IInv, BInv, [Next]_vars
  PROVE  BInv'
<1>1. CASE Construct
  BY <1>1, Construct_Calls
<1>2. ASSUME NEW h \in Handles, Start(h)
      PROVE  BInv'
  BY <1>2, SpCtor_Calls, SpForceSet_Calls, WpCtor_Calls, Promote_Calls, Register_Calls,
     LookUp_Calls, SpDtor_Calls, WpDtor_Calls DEF Start
<1>3. ASSUME NEW h \in Handles, Step(h)
      PROVE  BInv'
  BY <1>3, incWeak_Calls, incStrong_inc_Calls, forceIncStrong_inc_Calls,
     incStrong_fix_Calls, incStrong_first_Calls, decStrong_dec_Calls,
     decStrong_last_Calls, decStrong_del_Calls, decWeak_dec_Calls, decWeak_last_Calls,
     decWeak_del_Calls, attemptIncStrong_read_Calls, attemptIncStrong_cas_Calls,
     attemptIncStrong_hard_Calls, attemptIncStrong_cas2_Calls,
     attemptIncStrong_reread_Calls, attemptIncStrong_ask_Calls,
     attemptIncStrong_inc_Calls, attemptIncStrong_unneeded_Calls,
     attemptIncStrong_fixread_Calls, attemptIncStrong_fix_Calls,
     attemptIncWeak_read_Calls, attemptIncWeak_cas_Calls DEF Step
<1>4. CASE UNCHANGED vars
  BY <1>4 DEF vars, BInv, Alone, Balance, Dues, Bit, FirstTold, Cases, ToldEarly, Unneeded,
     SomeAt, At, NeverStrong
<1> QED
  BY <1>1, <1>2, <1>3, <1>4 DEF Next

-----------------------------------------------------------------------------
(* The theorems *)

\* Every variable of the model keeps its type, under every interleaving; in
\* particular neither counter underflows.
THEOREM TypeCorrect == "all" \notin Races /\ Spec => []TypeOK
<1>1. IInv => TypeOK
  BY DEF IInv
<1> QED
  BY <1>1, Inv_Always, PTL

\* mStrong and mWeak count exactly the references taken and not yet returned,
\* for any number of handles: no atomic operation of incStrong, decStrong,
\* attemptIncStrong or attemptIncWeak is lost or applied twice.
THEOREM CountsAreExact == "all" \notin Races /\ Spec => []CountsExact
<1>1. IInv => CountsExact
  BY Before DEF Counts, CountsExact, TypeOK
<1> QED
  BY <1>1, Inv_Always, PTL

\* No handle touches the weakref_impl or the object after `delete': neither
\* the racing decStrong/decWeak of others nor a failed promote() frees it early.
THEOREM MemorySafe == "all" \notin Races /\ Spec => []NoUseAfterFree
<1>1. IInv => NoUseAfterFree
  <2> SUFFICES ASSUME IInv PROVE NoUseAfterFree
    OBVIOUS
  <2> QED
    BY Before DEF TypeOK, Counts, Allocated, Sources, FixUp, Locals, Ends,
       NoUseAfterFree, BasePCs, NeverStrong, SomeAt
<1> QED
  BY <1>1, Inv_Always, PTL

\* The object outlives its strong references, and with extended lifetime its
\* weak references too.
THEOREM ObjectOutlivesReferences == "all" \notin Races /\ Spec => []LiveWhileReferenced
<1>1. IInv => LiveWhileReferenced
  <2> SUFFICES ASSUME IInv PROVE LiveWhileReferenced
    OBVIOUS
  <2> QED
    BY Before DEF TypeOK, Counts, Allocated, LiveWhileReferenced, SomeAt, At
<1> QED
  BY <1>1, Inv_Always, PTL

\* When the last handle is gone both allocations are freed: the deletes of
\* decStrong, decWeak and ~RefBase leave nothing behind.
THEOREM NothingLeaks == "all" \notin Races /\ Spec => []FreedWhenUnreferenced
<1>1. IInv => FreedWhenUnreferenced
  <2> SUFFICES ASSUME IInv PROVE FreedWhenUnreferenced
    OBVIOUS
  <2>1. At(PCs \ {"null"}) = {} => ~SomeAt(WeakPCs) /\ ~SomeAt({"is_weak", "iw_inc"})
                                   /\ ~SomeAt(Dying)
    BY DEF At, SomeAt
  <2> QED
    BY <2>1, Before DEF TypeOK, Allocated, FreedWhenUnreferenced
<1> QED
  BY <1>1, Inv_Always, PTL

\* promote() of an object of regular lifetime never fails while a strong
\* reference that existed at its start is still there, however often the
\* cmpxchg loops of attemptIncStrong are disturbed.
THEOREM PromoteSucceedsWhilePinned ==
  "all" \notin Races /\ Spec => PromoteOnlyFailsUnpinned
<1>1. ASSUME IInv, [Next]_vars, NEW h \in Handles,
             pc[h] \in Attempt \ {"as_ask"}, pc'[h] = "dw_dec"
      PROVE  pinned[h] = {}
  <2>1. attemptIncStrong_hard(h) \/ attemptIncStrong_reread(h)
    <3>1. Start(h) \/ Step(h)
      BY <1>1, OwnStep
    <3>2. ~Start(h)
      BY <1>1 DEF Start, SpCtor, SpForceSet, WpCtor, Promote, Register,
         LookUp, SpDtor, WpDtor, StartRaw, StartFrom
    <3>3. ~incWeak(h)
      BY <1>1, Before DEF TypeOK, incWeak, AfterIncWeak
    <3> QED
      BY <1>1, <3>1, <3>2, <3>3, Before DEF TypeOK, CmpxchgStrong, Step, incStrong_inc, forceIncStrong_inc,
         incStrong_fix, incStrong_first, decStrong_dec, decStrong_last,
         decStrong_del, decWeak_dec, decWeak_last, decWeak_del,
         attemptIncStrong_read, attemptIncStrong_cas, attemptIncStrong_cas2,
         attemptIncStrong_ask, attemptIncStrong_inc, attemptIncStrong_unneeded,
         attemptIncStrong_fixread, attemptIncStrong_fix, attemptIncWeak_read,
         attemptIncWeak_cas
  <2>2. CASE attemptIncStrong_hard(h)
    BY <1>1, <2>2, Before DEF attemptIncStrong_hard, TypeOK, Pinned
  <2>3. CASE attemptIncStrong_reread(h)
    <3>1. mStrong <= 0 /\ pc[h] = "as_reread"
      BY <1>1, <2>3, Before DEF attemptIncStrong_reread, TypeOK
    <3> QED
      BY <1>1, <3>1, Before DEF Pinned, Counts, TypeOK, Allocated, SomeAt
  <2> QED
    BY <2>1, <2>2, <2>3
<1>2. IInv /\ [Next]_vars =>
        [\A h \in Handles : pc[h] \in Attempt \ {"as_ask"} /\ pc'[h] = "dw_dec"
                             => pinned[h] = {}]_vars
  BY <1>1
<1> QED
  BY <1>2, Inv_Always, PTL DEF PromoteOnlyFailsUnpinned, Spec

\* When one handle at a time makes the first strong reference, an implementor
\* of extended lifetime is told of references in balance: at rest it has taken
\* one if an sp<> exists and none otherwise, although onIncStrongAttempted,
\* onFirstRef and onLastStrongRef of different handles interleave.
THEOREM CallbacksAreBalanced == "all" \notin Races /\ Spec => []CallbacksBalanced
<1> SUFFICES ASSUME "all" \notin Races PROVE Spec => []CallbacksBalanced
  OBVIOUS
<1> DEFINE Told == IInv /\ (race = "none" => BInv)
<1>1. Init => Told
  <2> SUFFICES ASSUME Init PROVE BInv
    BY Init_Inv
  <2> QED
    BY DEF Init, BInv, Alone, Balance, FirstTold, Cases
<1>2. Told /\ [Next]_vars => Told'
  <2> SUFFICES ASSUME Told, [Next]_vars PROVE Told'
    OBVIOUS
  <2>1. IInv'
    BY Next_Inv
  <2>2. race' = race
    BY RaceStays
  <2> QED
    BY <2>1, <2>2, Next_Calls
<1>3. Told => CallbacksBalanced
  <2> SUFFICES ASSUME IInv, BInv, base, mFlags = "WEAK", At(PCs \ Rest) = {}
               PROVE  held = IF At({"sp"}) = {} THEN 0 ELSE 1
    BY DEF CallbacksBalanced
  <2>1. \A h \in Handles : pc[h] \in Rest
    BY Before DEF At, TypeOK
  <2>2. At({"ds_last"}) = {} /\ At(ToldLater) = {} /\ ToldEarly = {}
    BY <2>1 DEF At, ToldEarly, ToldLater
  <2>3. Dues = 0
    BY <2>2, FS_EmptySet DEF Dues
  <2>4. SomeAt(StrongPCs) <=> At({"sp"}) # {}
    BY <2>1 DEF SomeAt, At
  <2> QED
    BY <2>3, <2>4 DEF BInv, Balance, Bit
<1> QED
  BY <1>1, <1>2, <1>3, PTL DEF Spec
=============================================================================
