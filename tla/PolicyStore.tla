----------------------------- MODULE PolicyStore -----------------------------
(***************************************************************************)
(* Where the active policy lives: the `policies` table of SQLite and the   *)
(* copy in server memory that strategy_run clones.  policy_set writes the  *)
(* one, then the other, and answers with the revision it replaced; several *)
(* calls may run at once.  At boot the table wins; a TOML file is imported *)
(* once, into an empty table; everything that cannot be read leaves the    *)
(* server without a policy, which denies every run.                        *)
(***************************************************************************)
EXTENDS Naturals, Sequences

CONSTANTS
  Calls,     \* calls of policy_set
  Bodies,    \* policy documents
  Valid,     \* those that parse and resolve
  TomlFiles, \* what [policy].path may hold at a boot, None: no file there
  None

ASSUME PolicyStoreAssumption ==
  /\ Valid \subseteq Bodies
  /\ None \notin Bodies
  /\ TomlFiles \subseteq Bodies \cup {None}

VARIABLES
  revs,     \* the policies table: the bodies, in the order of insertion
  active,   \* the row with is_active = 1, 0: none
  mem,      \* Arc<RwLock<Option<LoadedPolicy>>>
  up,       \* does the server run?
  pc,       \* pc[c]: where the call is
  body,     \* body[c]: its parsed input
  prev,     \* prev[c]: the revision it answers as previous
  mine,     \* mine[c]: the revision it inserted
  drift     \* why memory may differ from the table with no call under way

store == <<revs, active>>
calls == <<pc, body, prev, mine>>
vars == <<store, mem, up, calls, drift>>

Phase == {"idle", "read", "write", "install", "ok", "error", "crash"}
Live(c) == pc[c] \in {"read", "write", "install"}

Goto(c, l) == pc' = [pc EXCEPT ![c] = l]

\* What a body becomes in memory: nothing, if it does not resolve.
Loaded(b) == IF b \in Valid THEN b ELSE None

Init ==
  /\ revs \in {<<>>} \cup { <<b>> : b \in Bodies }
  /\ active = Len(revs)
  /\ mem = None
  /\ up = FALSE
  /\ pc = [c \in Calls |-> "idle"]
  /\ body = [c \in Calls |-> None]
  /\ prev = [c \in Calls |-> 0]
  /\ mine = [c \in Calls |-> 0]
  /\ drift = "none"

(* set_active: deactivate the old row and insert the new one, in one       *)
(* transaction.                                                            *)
SetActive(b) ==
  /\ revs' = Append(revs, b)
  /\ active' = Len(revs')

-----------------------------------------------------------------------------
(* policy_set, 1: a body that does not parse changes nothing.              *)
Parse(c, b) ==
  /\ up /\ pc[c] = "idle"
  /\ body' = [body EXCEPT ![c] = b]
  /\ Goto(c, IF b \in Valid THEN "read" ELSE "error")
  /\ UNCHANGED <<store, mem, up, prev, mine, drift>>

(* 2: the previous revision, read on its own.                              *)
ReadPrevious(c) ==
  /\ pc[c] = "read"
  /\ prev' = [prev EXCEPT ![c] = active]
  /\ Goto(c, "write")
  /\ UNCHANGED <<store, mem, up, body, mine, drift>>

\* Slip: the memory is updated before the table.
WriteRevisionSlip(c) ==
  /\ pc[c] = "write"
  /\ mem' = body[c]
  /\ Goto(c, "install")
  /\ UNCHANGED <<store, up, body, prev, mine, drift>>

(* 3: the new revision, in the table.                                      *)
WriteRevision(c) ==
  /\ pc[c] = "write"
  /\ SetActive(body[c])
  /\ mine' = [mine EXCEPT ![c] = Len(revs')]
  /\ Goto(c, "install")
  /\ UNCHANGED <<mem, up, body, prev, drift>>

\* Slip: the write lock is never taken.
InstallSlip(c) ==
  /\ pc[c] = "install"
  /\ Goto(c, "ok")
  /\ UNCHANGED <<store, mem, up, body, prev, mine, drift>>

(* 4: the new policy, in memory; the answer follows.                       *)
Install(c) ==
  /\ pc[c] = "install"
  /\ mem' = body[c]
  /\ drift' = IF mine[c] = active THEN "none" ELSE "overtaken"
  /\ Goto(c, "ok")
  /\ UNCHANGED <<store, up, body, prev, mine>>

StoreFails(c) ==
  /\ pc[c] \in {"read", "write"}
  /\ Goto(c, "error")
  /\ UNCHANGED <<store, mem, up, body, prev, mine, drift>>

-----------------------------------------------------------------------------
Crash ==
  /\ up
  /\ up' = FALSE
  /\ mem' = None
  /\ pc' = [c \in Calls |-> IF Live(c) THEN "crash" ELSE pc[c]]
  /\ UNCHANGED <<store, body, prev, mine, drift>>

\* Slip: the file is imported at every boot.
BootSlip ==
  /\ ~up
  /\ up' = TRUE
  /\ \E file \in TomlFiles \cap Valid : SetActive(file) /\ mem' = file
  /\ drift' = "none"
  /\ UNCHANGED calls

(* resolve_boot_policy.  An active row wins, even one that does not        *)
(* resolve; the file is imported only into a table without one.            *)
Boot ==
  /\ ~up
  /\ up' = TRUE
  /\ \/ /\ active # 0
        /\ mem' = Loaded(revs[active])
        /\ UNCHANGED store
     \/ /\ active = 0
        /\ \E file \in TomlFiles \cap Valid : SetActive(file) /\ mem' = file
     \/ /\ active = 0 /\ TomlFiles \ Valid # {}
        /\ mem' = None
        /\ UNCHANGED store
  /\ drift' = "none"
  /\ UNCHANGED calls

\* The table or the file cannot be read, or the import cannot be written.
BootFails ==
  /\ ~up
  /\ up' = TRUE
  /\ mem' = None
  /\ drift' = "boot"
  /\ UNCHANGED <<store, calls>>

-----------------------------------------------------------------------------
Step(c) ==
  \/ \E b \in Bodies : Parse(c, b)
  \/ ReadPrevious(c) \/ WriteRevision(c) \/ Install(c)

Next ==
  \/ \E c \in Calls : Step(c) \/ StoreFails(c)
  \/ Crash \/ Boot \/ BootFails

Spec == Init /\ [][Next]_vars

-----------------------------------------------------------------------------
(* Tables, memory and locals hold what their types allow; the policy in    *)
(* memory is one that resolves, or none.                                   *)
TypeOK ==
  /\ revs \in Seq(Bodies)
  /\ active = Len(revs)
  /\ mem \in Valid \cup {None}
  /\ up \in BOOLEAN
  /\ pc \in [Calls -> Phase]
  /\ body \in [Calls -> Bodies \cup {None}]
  /\ prev \in [Calls -> 0..Len(revs)]
  /\ mine \in [Calls -> 0..Len(revs)]
  /\ drift \in {"none", "overtaken", "boot"}

(* No run is ever gated by a policy that a crash would forget: what is in  *)
(* memory was a row of the table before.                                   *)
PersistedBeforeEnforced ==
  mem # None => \E i \in DOMAIN revs : revs[i] = mem

\* The policy a restart would bring into force.
Durable == IF active = 0 THEN None ELSE Loaded(revs[active])

(* Memory differs from the table only while a call is between its two      *)
(* writes, after a slower call overtook a later one, or after a boot that  *)
(* could not read.                                                         *)
MemoryFollowsTable ==
  up /\ drift = "none" /\ mem # Durable => \E c \in Calls : pc[c] = "install"

(* policy_boot.rs: "DB has an active row -> that wins".  Once there is an  *)
(* active revision only a policy_set replaces it, across any number of     *)
(* restarts, and no revision is ever lost.                                 *)
OnlyCallsReplace ==
  [][active # 0 /\ active' # active =>
       \E c \in Calls : pc[c] = "write" /\ mine'[c] = active'
                        /\ revs' = Append(revs, body[c])]_vars

==============================================================================
