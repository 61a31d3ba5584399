----------------------------- MODULE HeavySlot -----------------------------
(***************************************************************************)
(* The heavy slot of src/scripts/preflight.sh: at most as many heavy runs  *)
(* at a time on a machine as there are slots.  A run is a shell and its    *)
(* keeper, a process of its own that queues by a ticket file, takes a lock *)
(* file by flock, tells the shell over a pipe, and lives on only to hold   *)
(* the lock.  Shells, keepers and the files they share are all that        *)
(* coordinates the runs, and each of the processes may be killed.          *)
(***************************************************************************)
EXTENDS Integers

CONSTANTS
  RunCount,  \* bound: how many runs ask for a slot
  Slots,     \* ALICE_HEAVY_SLOTS
  MaxKills   \* bound: how many processes are killed from outside

ASSUME SlotAssumption ==
  RunCount \in Nat /\ Slots \in Nat \ {0} /\ MaxKills \in Nat

(* A run is named by the time its keeper takes for its ticket: the runs    *)
(* are numbered in the order they start.                                   *)
Runs == 1..RunCount
Nobody == 0
SlotSet == 0..(Slots - 1)

VARIABLES
  shell,    \* the stage of each run's shell
  keeper,   \* the stage of each run's keeper
  pipe,     \* the last line on the keeper's output that matters to the shell
  tickets,  \* the ticket files in queue/
  try,      \* the slot each keeper tries next, or holds
  flock,    \* the holder of each lock file
  info,     \* the run each info file names
  ahead,    \* history: the tickets on disk when a keeper took its start time
  orphaned, \* history: runs whose keeper was killed under them
  kills     \* how many processes were killed

files == <<tickets, info>>
history == <<ahead, orphaned>>
vars == <<shell, keeper, pipe, files, try, flock, history, kills>>

(* The stages of a keeper that holds a lock, and of one that queues for it. *)
HoldingStages == {"locked", "unlinked", "holding", "stopped"}
Queueing == {"queued", "front", "tick"}
KeeperAlive == {"stamped"} \cup Queueing \cup HoldingStages
KeeperStages == {"none", "gone"} \cup KeeperAlive
ShellAlive == {"waiting", "told", "working", "released"}
ShellEnded == {"ended", "failed", "dead"}
ShellStages == {"idle"} \cup ShellAlive \cup ShellEnded

Init ==
  /\ shell = [r \in Runs |-> "idle"] /\ keeper = [r \in Runs |-> "none"]
  /\ pipe = [r \in Runs |-> "empty"]
  /\ tickets = {} /\ try = [r \in Runs |-> 0]
  /\ flock = [k \in SlotSet |-> Nobody] /\ info = [k \in SlotSet |-> Nobody]
  /\ ahead = [r \in Runs |-> {}] /\ orphaned = {} /\ kills = 0

Shell(r, from, to) == shell[r] = from /\ shell' = [shell EXCEPT ![r] = to]
Keeper(r, from, to) == keeper[r] = from /\ keeper' = [keeper EXCEPT ![r] = to]

(* A process that ends closes its files: the kernel gives up its lock. *)
Unlocked(r) == [k \in SlotSet |-> IF flock[k] = r THEN Nobody ELSE flock[k]]

-----------------------------------------------------------------------------
(* heavy_slot_acquire starts the keeper and reads its output.  The keeper  *)
(* first takes the time that names its ticket; the file comes later.       *)
Start(r) ==
  /\ Shell(r, "idle", "waiting") /\ Keeper(r, "none", "stamped")
  /\ \A s \in 1..(r - 1) : shell[s] # "idle"
  /\ ahead' = [ahead EXCEPT ![r] = tickets]
  /\ UNCHANGED <<pipe, files, try, flock, orphaned, kills>>

PutTicket(r) ==
  /\ Keeper(r, "stamped", "queued")
  /\ tickets' = tickets \cup {r}
  /\ UNCHANGED <<shell, pipe, info, try, flock, history, kills>>

(* Mutant of Live: nobody looks whether the keeper of a ticket still runs. *)
AllTickets == tickets

(* The ticket files of keepers that still run. *)
Live == {s \in tickets : keeper[s] \in KeeperAlive}

(* Mutant of FirstIn: any live ticket will do. *)
AnyIn(r) == r \in Live

FirstIn(r) == r \in Live /\ \A s \in Live : r <= s

(* One look at the queue: dead tickets are removed, and the keeper of the  *)
(* oldest live one goes on to the slots.                                   *)
LookAtQueue(r) ==
  /\ keeper[r] = "queued"
  /\ tickets' = Live
  /\ keeper' = [keeper EXCEPT ![r] = IF FirstIn(r) THEN "front" ELSE "tick"]
  /\ try' = [try EXCEPT ![r] = 0]
  /\ UNCHANGED <<shell, pipe, info, flock, history, kills>>

TakeSlot(r) ==
  /\ Keeper(r, "front", "locked")
  /\ flock[try[r]] = Nobody
  /\ flock' = [flock EXCEPT ![try[r]] = r]
  /\ UNCHANGED <<shell, pipe, files, try, history, kills>>

TryNextSlot(r) ==
  /\ keeper[r] = "front" /\ flock[try[r]] # Nobody
  /\ IF try[r] + 1 \in SlotSet
     THEN try' = [try EXCEPT ![r] = @ + 1] /\ UNCHANGED keeper
     ELSE keeper' = [keeper EXCEPT ![r] = "tick"] /\ UNCHANGED try
  /\ UNCHANGED <<shell, pipe, files, flock, history, kills>>

Unlink(r) ==
  /\ Keeper(r, "locked", "unlinked")
  /\ tickets' = tickets \ {r}
  /\ UNCHANGED <<shell, pipe, info, try, flock, history, kills>>

(* Writing to the pipe of a shell that is gone kills the keeper. *)
Announce(r) ==
  /\ keeper[r] = "unlinked"
  /\ IF shell[r] \in ShellAlive
     THEN /\ keeper' = [keeper EXCEPT ![r] = "holding"]
          /\ pipe' = [pipe EXCEPT ![r] = "held"]
          /\ UNCHANGED flock
     ELSE /\ keeper' = [keeper EXCEPT ![r] = "gone"]
          /\ flock' = Unlocked(r)
          /\ UNCHANGED pipe
  /\ UNCHANGED <<shell, files, try, history, kills>>

(* After each pass in vain: a wait past the limit ends the keeper (as does *)
(* a file it cannot open).  The ticket is unlinked on exit, but not when   *)
(* writing to the pipe of a shell that is gone kills the keeper.           *)
GiveUp(r) ==
  /\ Keeper(r, "tick", "gone")
  /\ IF shell[r] \in ShellAlive
     THEN pipe' = [pipe EXCEPT ![r] = "failure"] /\ tickets' = tickets \ {r}
     ELSE UNCHANGED <<pipe, tickets>>
  /\ UNCHANGED <<shell, info, try, flock, history, kills>>

(* Otherwise it looks for its parent and starts over. *)
LookForParent(r) ==
  /\ keeper[r] = "tick"
  /\ IF shell[r] \in ShellAlive
     THEN keeper' = [keeper EXCEPT ![r] = "queued"] /\ UNCHANGED tickets
     ELSE /\ keeper' = [keeper EXCEPT ![r] = "gone"]
          /\ tickets' \in {tickets, tickets \ {r}}
  /\ UNCHANGED <<shell, pipe, info, try, flock, history, kills>>

(* Mutants of LetGo: the keeper does not wait for its parent's end; the    *)
(* lock is inherited by a child that lives on.                             *)
LetGoAtOnce(r) ==
  /\ keeper[r] \in {"holding", "stopped"}
  /\ keeper' = [keeper EXCEPT ![r] = "gone"]
  /\ flock' = Unlocked(r)
  /\ UNCHANGED <<shell, pipe, files, try, history, kills>>

LetGoKeepingLock(r) ==
  /\ \/ keeper[r] = "holding" /\ shell[r] \notin ShellAlive
     \/ keeper[r] = "stopped"
  /\ keeper' = [keeper EXCEPT ![r] = "gone"]
  /\ UNCHANGED <<shell, pipe, files, try, flock, history, kills>>

(* The holding keeper ends once its parent has, or once it was told to. *)
LetGo(r) ==
  /\ \/ keeper[r] = "holding" /\ shell[r] \notin ShellAlive
     \/ keeper[r] = "stopped"
  /\ keeper' = [keeper EXCEPT ![r] = "gone"]
  /\ flock' = Unlocked(r)
  /\ UNCHANGED <<shell, pipe, files, try, history, kills>>

-----------------------------------------------------------------------------
ReadHeld(r) ==
  /\ Shell(r, "waiting", "told") /\ pipe[r] = "held"
  /\ UNCHANGED <<keeper, pipe, files, try, flock, history, kills>>

(* The keeper gave up, or its output ended without a word. *)
ReadFailure(r) ==
  /\ Shell(r, "waiting", "failed")
  /\ pipe[r] = "failure" \/ (pipe[r] = "empty" /\ keeper[r] = "gone")
  /\ UNCHANGED <<keeper, pipe, files, try, flock, history, kills>>

WriteInfo(r) ==
  /\ Shell(r, "told", "working")
  /\ info' = [info EXCEPT ![try[r]] = r]
  /\ UNCHANGED <<keeper, pipe, tickets, try, flock, history, kills>>

(* heavy_slot_release: the info file first, then the keeper. *)
RemoveInfo(r) ==
  /\ Shell(r, "working", "released")
  /\ info' = [info EXCEPT ![try[r]] = Nobody]
  /\ UNCHANGED <<keeper, pipe, tickets, try, flock, history, kills>>

(* Mutants of StopKeeper and RemoveInfo: the other way round. *)
StopFirst(r) ==
  /\ Shell(r, "working", "released")
  /\ keeper' = [keeper EXCEPT ![r] = IF @ = "gone" THEN @ ELSE "stopped"]
  /\ UNCHANGED <<pipe, files, try, flock, history, kills>>

RemoveLast(r) ==
  /\ Shell(r, "released", "ended")
  /\ info' = [info EXCEPT ![try[r]] = Nobody]
  /\ UNCHANGED <<keeper, pipe, tickets, try, flock, history, kills>>

StopKeeper(r) ==
  /\ Shell(r, "released", "ended")
  /\ keeper' = [keeper EXCEPT ![r] = IF @ = "gone" THEN @ ELSE "stopped"]
  /\ UNCHANGED <<pipe, files, try, flock, history, kills>>

(* The mutant of Release that runs the two in the wrong order. *)
ReleaseKeeperFirst(r) == StopFirst(r) \/ RemoveLast(r)

Release(r) == RemoveInfo(r) \/ StopKeeper(r)

-----------------------------------------------------------------------------
(* A process is killed: by the user, by the machine, or by the memory cap  *)
(* of heavy_slot_watch, which kills a shell and then its keeper.           *)
KillShell(r) ==
  /\ kills < MaxKills /\ kills' = kills + 1
  /\ shell[r] \in ShellAlive
  /\ shell' = [shell EXCEPT ![r] = "dead"]
  /\ UNCHANGED <<keeper, pipe, files, try, flock, history>>

KillKeeper(r) ==
  /\ kills < MaxKills /\ kills' = kills + 1
  /\ keeper[r] \in KeeperAlive
  /\ keeper' = [keeper EXCEPT ![r] = "gone"]
  /\ flock' = Unlocked(r)
  /\ orphaned' = IF shell[r] \in ShellAlive THEN orphaned \cup {r} ELSE orphaned
  /\ UNCHANGED <<shell, pipe, files, try, ahead>>

KeeperStep(r) ==
  \/ PutTicket(r) \/ LookAtQueue(r) \/ TakeSlot(r) \/ TryNextSlot(r)
  \/ Unlink(r) \/ Announce(r) \/ LookForParent(r) \/ LetGo(r)

ShellStep(r) == ReadHeld(r) \/ ReadFailure(r) \/ WriteInfo(r) \/ Release(r)

Next == \E r \in Runs :
          Start(r) \/ KeeperStep(r) \/ ShellStep(r) \/ GiveUp(r)
          \/ KillShell(r) \/ KillKeeper(r)

(* A process that is not killed runs on, and the work in a slot comes to   *)
(* an end.  A wait may, but need not, run into its limit.                  *)
Fairness == \A r \in Runs : WF_vars(ShellStep(r)) /\ WF_vars(KeeperStep(r))

Spec == Init /\ [][Next]_vars /\ Fairness

-----------------------------------------------------------------------------
(* Every variable keeps its type, and a lock is held by a keeper that      *)
(* lives: the kernel frees the slot of one that ends.                      *)
TypeOK ==
  /\ shell \in [Runs -> ShellStages] /\ keeper \in [Runs -> KeeperStages]
  /\ pipe \in [Runs -> {"empty", "held", "failure"}]
  /\ tickets \in SUBSET Runs /\ try \in [Runs -> SlotSet]
  /\ flock \in [SlotSet -> Runs \cup {Nobody}]
  /\ info \in [SlotSet -> Runs \cup {Nobody}]
  /\ ahead \in [Runs -> SUBSET Runs] /\ orphaned \in SUBSET Runs
  /\ kills \in 0..MaxKills
  /\ \A k \in SlotSet : flock[k] # Nobody => keeper[flock[k]] \in HoldingStages

InSlot(r) == shell[r] \in {"told", "working", "released"}

(* Two runs are in one slot at a time only if the keeper of one of them    *)
(* was killed under it ("a killed holder frees the slot and no child of    *)
(* the holder keeps it", preflight.sh:16): neither a holder's death, nor a *)
(* late answer, nor the order of release lets a second run in early.       *)
SlotExclusive ==
  \A r, s \in Runs : r # s /\ InSlot(r) /\ InSlot(s) /\ try[r] = try[s]
                       => r \in orphaned \/ s \in orphaned

(* A nested run of the holder finds the holder's name in the info file of  *)
(* its slot (preflight.sh:45-47), or it would queue behind its own parent: *)
(* the info file of a working run names it, unless a run whose keeper was  *)
(* killed shares its slot.                                                 *)
InfoNamesHolder ==
  \A r \in Runs : shell[r] = "working" /\ info[try[r]] # r =>
    \E s \in orphaned : try[s] = try[r]

(* Arrival order (preflight.sh:60-79): no keeper takes a slot while one    *)
(* whose ticket was on disk before it even took its start time still lives *)
(* and queues.                                                             *)
NoOvertaking ==
  [][\A r \in Runs : TakeSlot(r) =>
       \A s \in ahead[r] : ~(s \in tickets /\ keeper[s] \in Queueing)]_vars

(* A run that waits gets a slot or an error, whatever keepers and shells   *)
(* before it in the queue are killed.                                      *)
EveryWaiterServed ==
  \A r \in Runs : shell[r] = "waiting" ~> shell[r] \in {"working"} \cup ShellEnded
=============================================================================
