-------------------------- MODULE PolicyStore_proofs --------------------------
(***************************************************************************)
(* Proofs about the policy store, for any number of concurrent calls of    *)
(* policy_set, any documents and any number of restarts.                   *)
(***************************************************************************)
EXTENDS PolicyStore, TLAPS

(* What a call's locals say of the table.                                  *)
CallInv(c) ==
  /\ Live(c) => body[c] \in Valid
  /\ pc[c] = "install" => mine[c] \in DOMAIN revs /\ revs[mine[c]] = body[c]

(* A lag of memory is always due to a call that still has to install.      *)
IInv ==
  /\ TypeOK
  /\ \A c \in Calls : CallInv(c)
  /\ PersistedBeforeEnforced
  /\ MemoryFollowsTable

LEMMA LoadedType == \A b : Loaded(b) \in Valid \cup {None}
BY DEF Loaded

LEMMA Appended ==
  ASSUME NEW S, NEW s \in Seq(S), NEW e \in S
  PROVE  /\ Append(s, e) \in Seq(S)
         /\ Len(Append(s, e)) = Len(s) + 1
         /\ DOMAIN Append(s, e) = 1..(Len(s) + 1)
         /\ Append(s, e)[Len(s) + 1] = e
         /\ \A i \in DOMAIN s : i \in 1..Len(s) /\ Append(s, e)[i] = s[i]
OBVIOUS

(* A new revision keeps the old ones and is the active one.                *)
LEMMA Inserted ==
  ASSUME TypeOK, NEW b \in Bodies, SetActive(b)
  PROVE  /\ revs' \in Seq(Bodies)
         /\ active' = Len(revs') /\ active' = active + 1
         /\ active' \in DOMAIN revs' /\ revs'[active'] = b
         /\ \A i \in DOMAIN revs : i \in DOMAIN revs' /\ revs'[i] = revs[i]
         /\ 0..Len(revs) \subseteq 0..Len(revs')
<1>1. revs \in Seq(Bodies) /\ active = Len(revs) /\ revs' = Append(revs, b)
  BY DEF TypeOK, SetActive
<1>2. active' = Len(revs')
  BY DEF SetActive
<1>3. Len(revs) \in Nat
  BY <1>1
<1>4. QED
  BY <1>1, <1>2, <1>3, Appended

LEMMA ActiveRow ==
  ASSUME TypeOK, active # 0
  PROVE  active \in DOMAIN revs /\ revs[active] \in Bodies
BY DEF TypeOK

LEMMA InitIInv == Init => IInv
<1> SUFFICES ASSUME Init
             PROVE  IInv
  OBVIOUS
<1>1. revs \in Seq(Bodies) /\ Len(revs) \in Nat
  <2>1. CASE revs = <<>>
    BY <2>1
  <2>2. ASSUME NEW b \in Bodies, revs = <<b>>
        PROVE  revs \in Seq(Bodies) /\ Len(revs) \in Nat
    BY <2>2
  <2>3. QED
    BY <2>1, <2>2 DEF Init
<1>2. TypeOK
  <2>1. 0 \in 0..Len(revs)
    BY <1>1
  <2>2. QED
    BY <1>1, <2>1 DEF Init, TypeOK, Phase
<1>3. \A c \in Calls : CallInv(c)
  BY DEF Init, CallInv, Live
<1>4. PersistedBeforeEnforced /\ MemoryFollowsTable
  BY DEF Init, PersistedBeforeEnforced, MemoryFollowsTable
<1>5. QED
  BY <1>2, <1>3, <1>4 DEF IInv

(* The steps of a call that leave table and memory alone.                  *)
Quiet == UNCHANGED <<store, mem, up, drift>>

LEMMA QuietStep ==
  ASSUME IInv, Quiet,
         \A c \in Calls : pc[c] = "install" => pc'[c] = "install"
  PROVE  PersistedBeforeEnforced' /\ MemoryFollowsTable'
BY DEF IInv, Quiet, store, PersistedBeforeEnforced, MemoryFollowsTable,
       Durable, Loaded

LEMMA StepIInv ==
  ASSUME IInv, [Next]_vars
  PROVE  IInv'
<1>1. ASSUME NEW c \in Calls, NEW b \in Bodies, Parse(c, b)
      PROVE  IInv'
  <2>1. Quiet /\ UNCHANGED <<prev, mine>>
    BY <1>1 DEF Parse, Quiet
  <2>2. TypeOK'
    BY <1>1 DEF Parse, Goto, store, IInv, TypeOK, Phase
  <2>3. \A d \in Calls : CallInv(d)'
    BY <1>1 DEF Parse, Goto, store, IInv, TypeOK, CallInv, Live
  <2>4. PersistedBeforeEnforced' /\ MemoryFollowsTable'
    BY <1>1, <2>1, QuietStep DEF Parse, Goto, IInv, TypeOK
  <2>5. QED
    BY <2>2, <2>3, <2>4 DEF IInv
<1>2. ASSUME NEW c \in Calls, ReadPrevious(c)
      PROVE  IInv'
  <2>1. Quiet
    BY <1>2 DEF ReadPrevious, Quiet
  <2>2. TypeOK'
    BY <1>2 DEF ReadPrevious, Goto, store, IInv, TypeOK, Phase
  <2>3. \A d \in Calls : CallInv(d)'
    BY <1>2 DEF ReadPrevious, Goto, store, IInv, TypeOK, CallInv, Live
  <2>4. PersistedBeforeEnforced' /\ MemoryFollowsTable'
    BY <1>2, <2>1, QuietStep DEF ReadPrevious, Goto, IInv, TypeOK
  <2>5. QED
    BY <2>2, <2>3, <2>4 DEF IInv
<1>3. ASSUME NEW c \in Calls, StoreFails(c)
      PROVE  IInv'
  <2>1. Quiet
    BY <1>3 DEF StoreFails, Quiet
  <2>2. TypeOK'
    BY <1>3 DEF StoreFails, Goto, store, IInv, TypeOK, Phase
  <2>3. \A d \in Calls : CallInv(d)'
    BY <1>3 DEF StoreFails, Goto, store, IInv, TypeOK, CallInv, Live
  <2>4. PersistedBeforeEnforced' /\ MemoryFollowsTable'
    BY <1>3, <2>1, QuietStep DEF StoreFails, Goto, IInv, TypeOK
  <2>5. QED
    BY <2>2, <2>3, <2>4 DEF IInv
<1>4. ASSUME NEW c \in Calls, WriteRevision(c)
      PROVE  IInv'
  <2>1. body[c] \in Valid /\ body[c] \in Bodies
    BY <1>4, PolicyStoreAssumption DEF WriteRevision, IInv, CallInv, Live
  <2>2. /\ revs' \in Seq(Bodies) /\ active' = Len(revs')
        /\ active' \in DOMAIN revs' /\ revs'[active'] = body[c]
        /\ \A i \in DOMAIN revs : i \in DOMAIN revs' /\ revs'[i] = revs[i]
        /\ 0..Len(revs) \subseteq 0..Len(revs')
    BY <1>4, <2>1, Inserted DEF WriteRevision, IInv
  <2>3. /\ pc' = [pc EXCEPT ![c] = "install"] /\ pc[c] = "write"
        /\ mine' = [mine EXCEPT ![c] = Len(revs')]
        /\ UNCHANGED <<mem, up, body, prev, drift>>
    BY <1>4 DEF WriteRevision, Goto
  <2>4. Len(revs') \in 0..Len(revs')
    BY <2>2
  <2>5. TypeOK'
    BY <2>2, <2>3, <2>4 DEF IInv, TypeOK, Phase
  <2>6. \A d \in Calls : CallInv(d)'
    BY <2>1, <2>2, <2>3 DEF IInv, TypeOK, CallInv, Live
  <2>7. PersistedBeforeEnforced'
    BY <2>2, <2>3 DEF IInv, PersistedBeforeEnforced
  <2>8. MemoryFollowsTable'
    BY <2>3 DEF IInv, TypeOK, MemoryFollowsTable
  <2>9. QED
    BY <2>5, <2>6, <2>7, <2>8 DEF IInv
<1>5. ASSUME NEW c \in Calls, Install(c)
      PROVE  IInv'
  <2>1. /\ body[c] \in Valid /\ mine[c] \in DOMAIN revs
        /\ revs[mine[c]] = body[c]
    BY <1>5 DEF Install, IInv, CallInv, Live
  <2>2. /\ mem' = body[c] /\ pc' = [pc EXCEPT ![c] = "ok"]
        /\ drift' = IF mine[c] = active THEN "none" ELSE "overtaken"
        /\ UNCHANGED <<revs, active, up, body, prev, mine>>
    BY <1>5 DEF Install, Goto, store
  <2>3. TypeOK'
    BY <2>1, <2>2 DEF IInv, TypeOK, Phase
  <2>4. \A d \in Calls : CallInv(d)'
    BY <2>2 DEF IInv, TypeOK, CallInv, Live
  <2>5. PersistedBeforeEnforced'
    BY <2>1, <2>2 DEF PersistedBeforeEnforced
  <2>6. CASE mine[c] = active
    <3>1. active # 0
      BY <2>1, <2>6 DEF IInv, TypeOK
    <3>2. Durable' = mem'
      BY <2>1, <2>2, <2>6, <3>1 DEF Durable, Loaded
    <3>3. QED
      BY <2>3, <2>4, <2>5, <3>2 DEF IInv, MemoryFollowsTable
  <2>7. CASE mine[c] # active
    BY <2>2, <2>3, <2>4, <2>5, <2>7 DEF IInv, MemoryFollowsTable
  <2>8. QED
    BY <2>6, <2>7
<1>6. CASE Crash
  <2>1. TypeOK'
    BY <1>6 DEF Crash, store, IInv, TypeOK, Phase
  <2>2. \A d \in Calls : CallInv(d)'
    BY <1>6 DEF Crash, store, IInv, TypeOK, CallInv, Live
  <2>3. PersistedBeforeEnforced' /\ MemoryFollowsTable'
    BY <1>6 DEF Crash, PersistedBeforeEnforced, MemoryFollowsTable
  <2>4. QED
    BY <2>1, <2>2, <2>3 DEF IInv
<1>7. CASE Boot
  <2>1. up' = TRUE /\ drift' = "none" /\ UNCHANGED <<pc, body, prev, mine>>
    BY <1>7 DEF Boot, calls
  <2>2. CASE active # 0 /\ mem' = Loaded(revs[active]) /\ UNCHANGED store
    <3>1. active \in DOMAIN revs
      BY <2>2, ActiveRow DEF IInv
    <3>2. TypeOK'
      BY <2>1, <2>2, LoadedType DEF store, IInv, TypeOK
    <3>3. \A d \in Calls : CallInv(d)'
      BY <2>1, <2>2 DEF store, IInv, CallInv, Live
    <3>4. PersistedBeforeEnforced'
      BY <2>2, <3>1 DEF store, PersistedBeforeEnforced, Loaded
    <3>5. MemoryFollowsTable'
      BY <2>2 DEF store, MemoryFollowsTable, Durable, Loaded
    <3>6. QED
      BY <3>2, <3>3, <3>4, <3>5 DEF IInv
  <2>3. ASSUME active = 0,
               NEW file \in TomlFiles \cap Valid, SetActive(file), mem' = file
        PROVE  IInv'
    <3>1. file \in Bodies /\ file \in Valid
      BY <2>3, PolicyStoreAssumption
    <3>2. /\ revs' \in Seq(Bodies) /\ active' = Len(revs') /\ active' = 1
          /\ active' \in DOMAIN revs' /\ revs'[active'] = file
          /\ \A i \in DOMAIN revs : i \in DOMAIN revs' /\ revs'[i] = revs[i]
          /\ 0..Len(revs) \subseteq 0..Len(revs')
      BY <2>3, <3>1, Inserted DEF IInv
    <3>3. TypeOK'
      BY <2>1, <2>3, <3>1, <3>2 DEF IInv, TypeOK
    <3>4. \A d \in Calls : CallInv(d)'
      BY <2>1, <3>2 DEF IInv, CallInv, Live
    <3>5. PersistedBeforeEnforced'
      BY <2>3, <3>2 DEF PersistedBeforeEnforced
    <3>6. MemoryFollowsTable'
      BY <2>3, <3>1, <3>2 DEF MemoryFollowsTable, Durable, Loaded
    <3>7. QED
      BY <3>3, <3>4, <3>5, <3>6 DEF IInv
  <2>4. CASE active = 0 /\ mem' = None /\ UNCHANGED store
    <3>1. TypeOK'
      BY <2>1, <2>4 DEF store, IInv, TypeOK
    <3>2. \A d \in Calls : CallInv(d)'
      BY <2>1, <2>4 DEF store, IInv, CallInv, Live
    <3>3. PersistedBeforeEnforced' /\ MemoryFollowsTable'
      BY <2>4 DEF store, PersistedBeforeEnforced, MemoryFollowsTable, Durable
    <3>4. QED
      BY <3>1, <3>2, <3>3 DEF IInv
  <2>5. QED
    BY <1>7, <2>2, <2>3, <2>4 DEF Boot
<1>8. CASE BootFails
  <2>1. TypeOK'
    BY <1>8 DEF BootFails, store, calls, IInv, TypeOK
  <2>2. \A d \in Calls : CallInv(d)'
    BY <1>8 DEF BootFails, store, calls, IInv, CallInv, Live
  <2>3. PersistedBeforeEnforced' /\ MemoryFollowsTable'
    BY <1>8 DEF BootFails, PersistedBeforeEnforced, MemoryFollowsTable
  <2>4. QED
    BY <2>1, <2>2, <2>3 DEF IInv
<1>9. CASE UNCHANGED vars
  BY <1>9 DEF vars, store, calls, IInv, TypeOK, CallInv, Live, Durable,
              Loaded, PersistedBeforeEnforced, MemoryFollowsTable
<1>10. QED
  BY <1>1, <1>2, <1>3, <1>4, <1>5, <1>6, <1>7, <1>8, <1>9 DEF Next, Step

THEOREM Invariance == Spec => []IInv
BY InitIInv, StepIInv, PTL DEF Spec

(* The store is well typed; memory holds a policy that resolves, or none.  *)
THEOREM Typing == Spec => []TypeOK
<1>1. IInv => TypeOK
  BY DEF IInv
<1>2. QED
  BY <1>1, Invariance, PTL

(* No run is gated by a policy that is not in the table.                   *)
THEOREM Persisted == Spec => []PersistedBeforeEnforced
<1>1. IInv => PersistedBeforeEnforced
  BY DEF IInv
<1>2. QED
  BY <1>1, Invariance, PTL

(* Memory lags behind the table only for one of the named reasons.         *)
THEOREM MemoryLag == Spec => []MemoryFollowsTable
<1>1. IInv => MemoryFollowsTable
  BY DEF IInv
<1>2. QED
  BY <1>1, Invariance, PTL

(* Only policy_set replaces an active revision, restarts included.         *)
THEOREM Replacement == Spec => OnlyCallsReplace
<1> DEFINE Replaced ==
      active # 0 /\ active' # active =>
        \E c \in Calls : pc[c] = "write" /\ mine'[c] = active'
                         /\ revs' = Append(revs, body[c])
<1>1. ASSUME IInv, [Next]_vars
      PROVE  [Replaced]_vars
  <2>1. ASSUME NEW c \in Calls, WriteRevision(c)
        PROVE  Replaced
    BY <1>1, <2>1 DEF WriteRevision, SetActive, IInv, TypeOK
  <2>2. ASSUME active' # active, active # 0
        PROVE  \E c \in Calls : WriteRevision(c)
    BY <1>1, <2>2 DEF Next, Step, Parse, ReadPrevious, Install, StoreFails,
       Crash, Boot, BootFails, store, calls, vars
  <2>3. QED
    BY <2>1, <2>2
<1>2. QED
  BY <1>1, Invariance, PTL DEF Spec, OnlyCallsReplace
=============================================================================
