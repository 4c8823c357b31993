------------------------------- MODULE RefBase -------------------------------
(***************************************************************************)
(* The reference counts of one android::RefBase object (libutils), at the  *)
(* granularity of the single atomic operations the code performs.          *)
(*                                                                         *)
(* A handle is one sp<> or wp<> variable: its address is the `id' every    *)
(* RefBase operation takes.  Each handle runs its current operation as a   *)
(* thread of its own, so every interleaving of the atomic operations of    *)
(* different handles is a behaviour.  A handle copied from another one     *)
(* borrows it: C++ does not let the source be destroyed during the copy.   *)
(***************************************************************************)
EXTENDS Integers, FiniteSets

CONSTANTS
  Handles,     \* the sp<> and wp<> variables that may refer to the object
  Races        \* what the programs considered may do about the FIRST strong
               \* reference: "none": one handle at a time takes it;
               \* "promotes": any number of wp::promote() race for it;
               \* "all": promote() and incStrong()/forceIncStrong() do

INITIAL_STRONG_VALUE == 268435456     \* (1<<28)

ASSUME HandlesAssumption ==
  /\ IsFiniteSet(Handles)
  /\ Cardinality(Handles) < INITIAL_STRONG_VALUE

ASSUME RacesAssumption == Races \subseteq {"none", "promotes", "all"}

VARIABLES
  mStrong, mWeak, mFlags,   \* weakref_impl
  base, refs,               \* is the RefBase / the weakref_impl allocated?
  raw,                      \* the creator still holds the fresh T*
  pc,                       \* where each handle is in its operation
  cur,                      \* curCount of attemptIncStrong/attemptIncWeak
  src,                      \* the handle a copy or promotion borrows
  table, lock,              \* the user's table of weak pointers, its mutex
  race,                     \* the kind of program this is, one of Races
  pinned,                   \* history: see PromoteOnlyFailsUnpinned
  held                      \* history: references the subclass was told of

counts == <<mStrong, mWeak, mFlags>>
memory == <<base, refs, raw>>
users  == <<table, lock, race>>
vars == <<counts, memory, pc, cur, src, users, pinned, held>>

-----------------------------------------------------------------------------
(* The places a handle can be at: at rest, or between two atomic accesses. *)

Rest      == {"null", "wp", "sp"}
IncStrong == {"is_weak", "is_inc", "is_fix", "is_first"}
ForceInc  == {"fs_weak", "fs_inc"}
Attempt   == {"as_weak", "as_read", "as_cas", "as_hard", "as_cas2", "as_reread",
              "as_ask", "as_inc", "as_unneeded", "as_fixread", "as_fix"}
DecStrong == {"ds_dec", "ds_last", "ds_del"}
DecWeak   == {"dw_dec", "dw_last", "dw_del"}
IncWeak   == {"iw_inc"}
AttemptW  == {"aw_read", "aw_cas"}
PCs == Rest \cup IncStrong \cup ForceInc \cup Attempt \cup DecStrong \cup DecWeak
            \cup IncWeak \cup AttemptW

At(P) == {h \in Handles : pc[h] \in P}

\* Handles that contribute one to mStrong, and one to mWeak.
StrongPCs == {"is_fix", "is_first", "as_unneeded", "as_fixread", "as_fix",
              "sp", "ds_dec"}
WeakPCs   == StrongPCs \cup {"is_inc", "fs_inc", "as_read", "as_cas", "as_hard",
              "as_cas2", "as_reread", "as_ask", "as_inc", "ds_last", "ds_del",
              "dw_dec", "wp"}

Goto(h, p) == pc' = [pc EXCEPT ![h] = p]
\* The operation of h ends in p: its locals are gone, its source is no longer
\* borrowed.
Finish(h, p) == /\ Goto(h, p)
                /\ cur' = [cur EXCEPT ![h] = 0]
                /\ src' = [src EXCEPT ![h] = {}]
                /\ pinned' = [pinned EXCEPT ![h] = {}]
Continue(h, p) == Goto(h, p) /\ UNCHANGED <<cur, src, pinned>>
\* curCount = v, and on to p.
Load(h, v, p) == /\ Goto(h, p)
                 /\ cur' = [cur EXCEPT ![h] = v]
                 /\ UNCHANGED <<src, pinned>>

Borrowed(h) == \E g \in Handles : h \in src[g]

\* The object never had a strong reference, or its count is not fixed up yet.
NeverStrong == mStrong >= INITIAL_STRONG_VALUE

\* Which programs are considered: who may race for the first strong reference.
MayPromote ==
  NeverStrong => /\ race # "all" => At(IncStrong \cup ForceInc) = {}
                 /\ race = "none" => At(Attempt) = {}
MayInc ==
  NeverStrong => /\ race # "all" => At(Attempt) = {}
                 /\ race = "none" => At(IncStrong \cup ForceInc) = {}

Init ==
  /\ mStrong = 0 /\ mWeak = 0 /\ mFlags = "STRONG"
  /\ base = FALSE /\ refs = FALSE /\ raw = FALSE
  /\ pc = [h \in Handles |-> "null"]
  /\ cur = [h \in Handles |-> 0]
  /\ src = [h \in Handles |-> {}]
  /\ table = FALSE /\ lock = {} /\ race \in Races
  /\ pinned = [h \in Handles |-> {}]
  /\ held = 0

\* RefBase(): a new weakref_impl; a subclass constructor may already call
\* extendObjectLifetime(OBJECT_LIFETIME_WEAK).
Construct ==
  /\ ~base /\ ~refs /\ At(Rest \ {"null"}) = {} /\ At(PCs \ Rest) = {}
  /\ base' = TRUE /\ refs' = TRUE /\ raw' = TRUE
  /\ mStrong' = INITIAL_STRONG_VALUE /\ mWeak' = 0
  /\ mFlags' \in {"STRONG", "WEAK"}
  /\ held' = 0
  /\ UNCHANGED <<pc, cur, src, users, pinned>>

-----------------------------------------------------------------------------
(* Starting an operation: constructors, assignments and clear() of sp, wp. *)

\* h starts at p, copying from the creator's fresh pointer or from handle s.
StartRaw(h, p) ==
  /\ pc[h] = "null" /\ raw
  /\ raw' = FALSE
  /\ Goto(h, p)
  /\ UNCHANGED <<counts, base, refs, cur, src, users, pinned, held>>
StartFrom(h, s, p) ==
  /\ pc[h] = "null"
  /\ Goto(h, p)
  /\ src' = [src EXCEPT ![h] = {s}]
  /\ UNCHANGED <<counts, memory, cur, users, held>>

\* sp<T>::sp(T*), sp<T>::sp(const sp<T>&)
SpCtor(h) ==
  \/ StartRaw(h, "is_weak")
  \/ \E s \in At({"sp"}) : StartFrom(h, s, "is_weak") /\ UNCHANGED pinned
\* sp<T>::force_set, on an object a weak reference is enough to keep alive.
SpForceSet(h) ==
  \E s \in At({"wp"}) :
    /\ mFlags = "WEAK" /\ MayInc
    /\ StartFrom(h, s, "fs_weak") /\ UNCHANGED pinned
\* wp<T>::wp(T*), wp<T>::wp(const wp<T>&), wp<T>::wp(const sp<T>&)
WpCtor(h) ==
  \/ StartRaw(h, "iw_inc")
  \/ \E s \in At({"sp", "wp"}) : StartFrom(h, s, "iw_inc") /\ UNCHANGED pinned
\* wp<T>::promote()
Promote(h) ==
  \E s \in At({"wp"}) :
    /\ MayPromote
    /\ StartFrom(h, s, "as_weak")
    /\ pinned' = [pinned EXCEPT ![h] = At({"sp"})]
\* A holder of an object with extended lifetime enters it in a table of weak
\* pointers, which looks it up under a mutex.
Register(h) ==
  /\ pc[h] \in {"sp", "wp"} /\ mFlags = "WEAK" /\ ~table
  /\ table' = TRUE
  /\ UNCHANGED <<counts, memory, pc, cur, src, lock, race, pinned, held>>
LookUp(h) ==
  /\ pc[h] = "null" /\ table /\ lock = {}
  /\ lock' = {h}
  /\ Goto(h, "aw_read")
  /\ UNCHANGED <<counts, memory, cur, src, table, race, pinned, held>>
\* sp<T>::~sp(), sp<T>::clear()
SpDtor(h) ==
  /\ pc[h] = "sp" /\ ~Borrowed(h)
  /\ Goto(h, "ds_dec")
  /\ pinned' = [g \in Handles |-> pinned[g] \ {h}]
  /\ UNCHANGED <<counts, memory, cur, src, users, held>>
\* wp<T>::~wp(), wp<T>::clear()
WpDtor(h) ==
  /\ pc[h] = "wp" /\ ~Borrowed(h)
  /\ Continue(h, "dw_dec")
  /\ UNCHANGED <<counts, memory, users, held>>

-----------------------------------------------------------------------------
(* weakref_type::incWeak, alone (createWeak) or first in a strong operation *)

AfterIncWeak == [iw_inc |-> "wp", is_weak |-> "is_inc", fs_weak |-> "fs_inc",
                 as_weak |-> "as_read"]
incWeak(h) ==
  /\ pc[h] \in DOMAIN AfterIncWeak
  /\ mWeak' = mWeak + 1
  /\ IF pc[h] = "iw_inc" THEN Finish(h, "wp")
                         ELSE Continue(h, AfterIncWeak[pc[h]])
  /\ UNCHANGED <<mStrong, mFlags, memory, users, held>>

(* RefBase::incStrong and RefBase::forceIncStrong after their incWeak *)

incStrong_inc(h) ==
  /\ pc[h] = "is_inc"
  /\ mStrong' = mStrong + 1
  /\ IF mStrong # INITIAL_STRONG_VALUE THEN Finish(h, "sp")
                                       ELSE Continue(h, "is_fix")
  /\ UNCHANGED <<mWeak, mFlags, memory, users, held>>
forceIncStrong_inc(h) ==
  /\ pc[h] = "fs_inc"
  /\ mStrong' = mStrong + 1
  /\ \/ mStrong = INITIAL_STRONG_VALUE /\ Continue(h, "is_fix")
     \/ mStrong = 0 /\ Continue(h, "is_first")
     \/ mStrong \notin {0, INITIAL_STRONG_VALUE} /\ Finish(h, "sp")
  /\ UNCHANGED <<mWeak, mFlags, memory, users, held>>
incStrong_fix(h) ==
  /\ pc[h] = "is_fix"
  /\ mStrong' = mStrong - INITIAL_STRONG_VALUE
  /\ Continue(h, "is_first")
  /\ UNCHANGED <<mWeak, mFlags, memory, users, held>>
\* onFirstRef(), from which a subclass may call extendObjectLifetime().
incStrong_first(h) ==
  /\ pc[h] = "is_first"
  /\ held' = held + 1
  /\ mFlags' \in {mFlags, "WEAK"}
  /\ Finish(h, "sp")
  /\ UNCHANGED <<mStrong, mWeak, memory, users>>

(* RefBase::decStrong *)

decStrong_dec(h) ==
  /\ pc[h] = "ds_dec"
  /\ mStrong' = mStrong - 1
  /\ Continue(h, IF mStrong = 1 THEN "ds_last" ELSE "dw_dec")
  /\ UNCHANGED <<mWeak, mFlags, memory, users, held>>
\* onLastStrongRef()
decStrong_last(h) ==
  /\ pc[h] = "ds_last"
  /\ held' = held - 1
  /\ Continue(h, "ds_del")
  /\ UNCHANGED <<counts, memory, users>>

\* Mutant: ~RefBase frees it whenever no strong reference is left.
DtorFreesRefs_AnyLifetime == mStrong \in {0, INITIAL_STRONG_VALUE}
\* RefBase::~RefBase: does it free the weakref_impl?
DtorFreesRefs == \/ mStrong = INITIAL_STRONG_VALUE
                 \/ mFlags # "STRONG" /\ mWeak = 0

\* Mutant: the last strong reference deletes whatever the lifetime.
decStrong_del_AnyLifetime(h) ==
  /\ pc[h] = "ds_del"
  /\ base' = FALSE /\ refs' = (refs /\ ~DtorFreesRefs)
  /\ Continue(h, "dw_dec")
  /\ UNCHANGED <<counts, raw, users, held>>
\* `delete this' unless the lifetime is extended.
decStrong_del(h) ==
  /\ pc[h] = "ds_del"
  /\ IF mFlags = "STRONG"
       THEN base' = FALSE /\ refs' = (refs /\ ~DtorFreesRefs)
       ELSE UNCHANGED <<base, refs>>
  /\ Continue(h, "dw_dec")
  /\ UNCHANGED <<counts, raw, users, held>>

(* weakref_type::decWeak *)

decWeak_dec(h) ==
  /\ pc[h] = "dw_dec"
  /\ mWeak' = mWeak - 1
  /\ IF mWeak # 1 THEN Finish(h, "null") ELSE Continue(h, "dw_last")
  /\ UNCHANGED <<mStrong, mFlags, memory, users, held>>
\* Mutant: the special case "we never had a strong reference" is forgotten.
decWeak_last_NoSpecialCase(h) ==
  /\ pc[h] = "dw_last"
  /\ IF mFlags = "STRONG"
       THEN refs' = FALSE /\ Finish(h, "null") /\ UNCHANGED table
       ELSE lock = {} /\ table' = FALSE /\ Continue(h, "dw_del") /\ UNCHANGED refs
  /\ UNCHANGED <<counts, base, raw, lock, race, held>>
\* Regular lifetime: free what is left.  Extended: onLastWeakRef(), in which
\* the subclass takes the object out of its table under the table's mutex.
decWeak_last(h) ==
  /\ pc[h] = "dw_last"
  /\ IF mFlags = "STRONG"
       THEN /\ base' = (base /\ mStrong # INITIAL_STRONG_VALUE)
            /\ refs' = FALSE
            /\ Finish(h, "null")
            /\ UNCHANGED table
       ELSE /\ lock = {}
            /\ table' = FALSE
            /\ Continue(h, "dw_del")
            /\ UNCHANGED <<base, refs>>
  /\ UNCHANGED <<counts, raw, lock, race, held>>
decWeak_del(h) ==
  /\ pc[h] = "dw_del"
  /\ base' = FALSE
  /\ refs' = (refs /\ ~DtorFreesRefs)
  /\ Finish(h, "null")
  /\ UNCHANGED <<counts, raw, users, held>>

(* weakref_type::attemptIncStrong after its incWeak *)

\* curCount = impl->mStrong, and the test of the first loop
attemptIncStrong_read(h) ==
  /\ pc[h] = "as_read"
  /\ Load(h, mStrong, IF mStrong > 0 /\ mStrong # INITIAL_STRONG_VALUE
                   THEN "as_cas" ELSE "as_hard")
  /\ UNCHANGED <<counts, memory, users, held>>
\* android_atomic_cmpxchg(cur, new, &mStrong), going on at `ok' or `fail'.
CmpxchgStrong(h, new, ok, fail) ==
  /\ IF mStrong = cur[h] THEN mStrong' = new /\ Continue(h, ok)
                         ELSE UNCHANGED mStrong /\ Continue(h, fail)
  /\ UNCHANGED <<mWeak, mFlags, memory, users, held>>
\* Mutants: a failed cmpxchg is taken for the loss of the object; it is retried
\* with the curCount it has.
attemptIncStrong_cas_GivesUp(h) ==
  /\ pc[h] = "as_cas"
  /\ CmpxchgStrong(h, cur[h] + 1, "as_fixread", "dw_dec")
attemptIncStrong_cas_Stale(h) ==
  /\ pc[h] = "as_cas"
  /\ CmpxchgStrong(h, cur[h] + 1, "as_fixread", "as_cas")
attemptIncStrong_cas(h) ==
  /\ pc[h] = "as_cas"
  /\ CmpxchgStrong(h, cur[h] + 1, "as_fixread", "as_read")
\* No strong reference: never had one, or all of them were released.
attemptIncStrong_hard(h) ==
  /\ pc[h] = "as_hard"
  /\ \/ mFlags # "STRONG" /\ Continue(h, "as_ask")
     \/ mFlags = "STRONG" /\ cur[h] <= 0 /\ Continue(h, "dw_dec")
     \/ mFlags = "STRONG" /\ cur[h] > 0 /\ Continue(h, "as_cas2")
  /\ UNCHANGED <<counts, memory, users, held>>
attemptIncStrong_cas2(h) ==
  /\ pc[h] = "as_cas2"
  /\ CmpxchgStrong(h, cur[h] + 1, "as_unneeded", "as_reread")
attemptIncStrong_reread(h) ==
  /\ pc[h] = "as_reread"
  /\ Load(h, mStrong, IF mStrong > 0 THEN "as_cas2" ELSE "dw_dec")
  /\ UNCHANGED <<counts, memory, users, held>>
\* onIncStrongAttempted(): the subclass agrees to be revived, or refuses.
attemptIncStrong_ask(h) ==
  /\ pc[h] = "as_ask"
  /\ \/ held' = held + 1 /\ Continue(h, "as_inc")
     \/ held' = held /\ Continue(h, "dw_dec")
  /\ UNCHANGED <<counts, memory, users>>
attemptIncStrong_inc(h) ==
  /\ pc[h] = "as_inc"
  /\ mStrong' = mStrong + 1
  /\ Load(h, mStrong, "as_unneeded")
  /\ UNCHANGED <<mWeak, mFlags, memory, users, held>>
\* Mutant: onLastStrongRef() even when this is the first reference.
attemptIncStrong_unneeded_OnFirst(h) ==
  /\ pc[h] = "as_unneeded"
  /\ held' = IF cur[h] < INITIAL_STRONG_VALUE THEN held - 1 ELSE held
  /\ Continue(h, "as_fixread")
  /\ UNCHANGED <<counts, memory, users>>
\* onLastStrongRef() when somebody else had taken the first reference.
attemptIncStrong_unneeded(h) ==
  /\ pc[h] = "as_unneeded"
  /\ held' = IF cur[h] > 0 /\ cur[h] < INITIAL_STRONG_VALUE
               THEN held - 1 ELSE held
  /\ Continue(h, "as_fixread")
  /\ UNCHANGED <<counts, memory, users>>
attemptIncStrong_fixread(h) ==
  /\ pc[h] = "as_fixread"
  /\ IF mStrong >= INITIAL_STRONG_VALUE THEN Load(h, mStrong, "as_fix")
                                        ELSE Finish(h, "sp")
  /\ UNCHANGED <<counts, memory, users, held>>
\* Mutant: the fix-up is an unconditional subtraction, as in incStrong.
attemptIncStrong_fix_Blind(h) ==
  /\ pc[h] = "as_fix"
  /\ mStrong' = mStrong - INITIAL_STRONG_VALUE /\ Finish(h, "sp")
  /\ UNCHANGED <<mWeak, mFlags, memory, users, held>>
attemptIncStrong_fix(h) ==
  /\ pc[h] = "as_fix"
  /\ IF mStrong = cur[h]
       THEN mStrong' = cur[h] - INITIAL_STRONG_VALUE /\ Finish(h, "sp")
       ELSE UNCHANGED mStrong /\ Continue(h, "as_fixread")
  /\ UNCHANGED <<mWeak, mFlags, memory, users, held>>

(* weakref_type::attemptIncWeak, called with the table's mutex held *)

attemptIncWeak_read(h) ==
  /\ pc[h] = "aw_read"
  /\ IF mWeak > 0 THEN Load(h, mWeak, "aw_cas") /\ UNCHANGED lock
                  ELSE Finish(h, "null") /\ lock' = lock \ {h}
  /\ UNCHANGED <<counts, memory, table, race, held>>
attemptIncWeak_cas(h) ==
  /\ pc[h] = "aw_cas"
  /\ IF mWeak = cur[h]
       THEN mWeak' = cur[h] + 1 /\ Finish(h, "wp") /\ lock' = lock \ {h}
       ELSE Continue(h, "aw_read") /\ UNCHANGED <<mWeak, lock>>
  /\ UNCHANGED <<mStrong, mFlags, memory, table, race, held>>

-----------------------------------------------------------------------------

Start(h) == \/ SpCtor(h) \/ SpForceSet(h) \/ WpCtor(h) \/ Promote(h)
            \/ Register(h) \/ LookUp(h) \/ SpDtor(h) \/ WpDtor(h)
Step(h) ==
  \/ incWeak(h)
  \/ incStrong_inc(h) \/ forceIncStrong_inc(h) \/ incStrong_fix(h)
  \/ incStrong_first(h)
  \/ decStrong_dec(h) \/ decStrong_last(h) \/ decStrong_del(h)
  \/ decWeak_dec(h) \/ decWeak_last(h) \/ decWeak_del(h)
  \/ attemptIncStrong_read(h) \/ attemptIncStrong_cas(h)
  \/ attemptIncStrong_hard(h) \/ attemptIncStrong_cas2(h)
  \/ attemptIncStrong_reread(h) \/ attemptIncStrong_ask(h)
  \/ attemptIncStrong_inc(h) \/ attemptIncStrong_unneeded(h)
  \/ attemptIncStrong_fixread(h) \/ attemptIncStrong_fix(h)
  \/ attemptIncWeak_read(h) \/ attemptIncWeak_cas(h)

Next == Construct \/ \E h \in Handles : Start(h) \/ Step(h)

Spec == Init /\ [][Next]_vars
\* A thread inside an operation is eventually scheduled; nobody has to start
\* one.
FairSpec == Spec /\ \A h \in Handles : WF_vars(Step(h))

-----------------------------------------------------------------------------
(* Properties *)

\* The types of the state; neither counter of weakref_impl ever goes below 0.
TypeOK ==
  /\ mStrong \in Nat /\ mWeak \in Nat /\ mFlags \in {"STRONG", "WEAK"}
  /\ base \in BOOLEAN /\ refs \in BOOLEAN /\ raw \in BOOLEAN
  /\ pc \in [Handles -> PCs]
  /\ cur \in [Handles -> Int]
  /\ src \in [Handles -> SUBSET Handles]
  /\ table \in BOOLEAN /\ lock \in SUBSET Handles /\ race \in Races
  /\ pinned \in [Handles -> SUBSET Handles]
  /\ held \in Int

\* Places whose next access is a virtual call on, or a read of, the object.
BasePCs == {"is_weak", "is_first", "fs_weak", "as_ask", "sp", "ds_dec",
            "ds_last", "ds_del", "dw_del"}

\* No operation reads or writes the weakref_impl, or calls the object, after
\* it was deleted: whatever decStrong and decWeak of other handles did first.
NoUseAfterFree ==
  \A h \in Handles :
    /\ pc[h] # "null" => refs
    /\ pc[h] \in BasePCs => base
    /\ pc[h] = "dw_last" /\ (mFlags = "WEAK" \/ NeverStrong) => base

\* The object outlives every strong reference; with OBJECT_LIFETIME_WEAK it
\* outlives every weak reference too (decStrong, decWeak).
LiveWhileReferenced ==
  /\ At(StrongPCs) # {} => base
  /\ mFlags = "WEAK" /\ At(WeakPCs) # {} => base

\* When the last handle is gone nothing is left allocated: the `delete's of
\* decStrong, decWeak and ~RefBase together free both blocks, exactly once.
FreedWhenUnreferenced ==
  At(PCs \ {"null"}) = {} /\ ~raw => ~base /\ ~refs

\* The counters count: each is the number of operations that have added their
\* reference and not yet removed it, mStrong possibly still offset by
\* INITIAL_STRONG_VALUE.
CountsExact ==
  refs => /\ mWeak = Cardinality(At(WeakPCs))
          /\ mStrong - Cardinality(At(StrongPCs)) \in {0, INITIAL_STRONG_VALUE}

\* promote() fails on an object of regular lifetime only if every strong
\* reference that existed when it began was released meanwhile: a reference
\* somebody holds throughout (pinned) makes attemptIncStrong succeed.
PromoteOnlyFailsUnpinned ==
  [][\A h \in Handles :
       pc[h] \in Attempt \ {"as_ask"} /\ pc'[h] = "dw_dec" => pinned[h] = {}]_vars

\* An implementor with extended lifetime (a binder proxy) keeps one reference
\* for all strong ones: onFirstRef and onIncStrongAttempted take it,
\* onLastStrongRef returns it.  At rest it has it iff an sp<> exists, in a
\* program that does not race for the first strong reference.
CallbacksBalanced ==
  race = "none" /\ base /\ mFlags = "WEAK" /\ At(PCs \ Rest) = {} =>
    held = IF At({"sp"}) = {} THEN 0 ELSE 1

\* ALOG_ASSERT(curCount >= 0, "attemptIncStrong called on %p after underflow")
NoUnderflow == mStrong >= 0

\* "the implementor of onIncStrongAttempted() is holding an unneeded reference.
\* So call onLastStrongRef() here": only one that took it there returns it.
UnneededWasTaken ==
  \A h \in Handles :
    pc[h] = "as_unneeded" /\ mFlags = "STRONG" =>
      ~(cur[h] > 0 /\ cur[h] < INITIAL_STRONG_VALUE)

\* The cmpxchg loops are lock-free: an operation runs forever only if other
\* handles complete operations again and again.  (The handles are
\* interchangeable: what holds of one holds of each.)
LockFree ==
  LET h == CHOOSE g \in Handles : TRUE IN
    <>[](pc[h] \notin Rest) =>
      []<><<\E g \in Handles \ {h} : pc[g] \notin Rest /\ pc'[g] \in Rest>>_vars

=============================================================================
