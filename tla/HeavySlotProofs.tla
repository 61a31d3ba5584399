-------------------------- MODULE HeavySlotProofs --------------------------
(***************************************************************************)
(* Theorems about HeavySlot, for any number of runs, slots and kills.      *)
(***************************************************************************)
EXTENDS HeavySlot, TLAPS

(* Runs start in the order of their numbers, and a keeper starts with its  *)
(* shell.                                                                  *)
StartOrder ==
  /\ \A r \in Runs : shell[r] = "idle" <=> keeper[r] = "none"
  /\ \A r, s \in Runs : s < r /\ shell[s] = "idle" => shell[r] = "idle"

(* The shell hears "held" only from a keeper past its queue. *)
HeardInSlot ==
  \A r \in Runs :
    /\ keeper[r] \in {"none", "stamped", "locked", "unlinked"} \cup Queueing
         => pipe[r] = "empty"
    /\ InSlot(r) => pipe[r] = "held"

(* A lock file and the keeper that holds it agree. *)
LocksMatch ==
  /\ \A r \in Runs : keeper[r] \in HoldingStages => flock[try[r]] = r
  /\ \A k \in SlotSet : flock[k] # Nobody => try[flock[k]] = k

(* As long as its shell lives, only a kill ends a keeper that holds. *)
KeeperStays ==
  /\ \A r \in Runs : shell[r] \in ShellAlive /\ pipe[r] = "held" /\ r \notin orphaned
                       => keeper[r] = "holding"
  /\ \A r \in orphaned : keeper[r] = "gone"

(* A queueing keeper has its ticket on disk, and a keeper at the front has *)
(* nobody who was there before it in the queue.                            *)
QueueOrder ==
  /\ \A r \in Runs : /\ keeper[r] \in Queueing => r \in tickets
                     /\ r \in tickets => keeper[r] \notin {"none", "stamped"}
  /\ \A r \in Runs : \A s \in ahead[r] :
       /\ s < r /\ keeper[s] \notin {"none", "stamped"}
       /\ keeper[r] = "front" => keeper[s] \notin Queueing

IInv == /\ TypeOK /\ StartOrder /\ HeardInSlot /\ LocksMatch /\ KeeperStays
        /\ QueueOrder /\ InfoNamesHolder

(* The initial states satisfy the inductive invariant. *)
LEMMA InvInit == Init => IInv
BY SlotAssumption DEF Init, IInv, TypeOK, StartOrder, HeardInSlot, LocksMatch,
   KeeperStays, QueueOrder, InfoNamesHolder, Runs, SlotSet, Nobody, ShellStages,
   KeeperStages, ShellAlive, KeeperAlive, Queueing, HoldingStages, InSlot

(* Two runs share a slot only under an orphan, for the lock file names one *)
(* holder.                                                                 *)
LEMMA ExclusiveFromInv == IInv => SlotExclusive
<1> SUFFICES ASSUME IInv, NEW r \in Runs, NEW s \in Runs, r # s, InSlot(r), InSlot(s),
                    try[r] = try[s], r \notin orphaned, s \notin orphaned
             PROVE  FALSE
  BY DEF SlotExclusive
<1>1. keeper[r] = "holding" /\ keeper[s] = "holding"
  BY DEF IInv, HeardInSlot, KeeperStays, InSlot, ShellAlive
<1> QED
  BY <1>1 DEF IInv, LocksMatch, HoldingStages

(* A step of a keeper that holds no lock, before or after, leaves the lock *)
(* files to the keepers they name.                                         *)
LEMMA LocksUntouched ==
  ASSUME TypeOK, LocksMatch, NEW r \in Runs, UNCHANGED flock,
         \A s \in Runs : s # r => try'[s] = try[s] /\ keeper'[s] = keeper[s],
         keeper[r] \notin HoldingStages, keeper'[r] \notin HoldingStages
  PROVE  LocksMatch'
<1>1. ASSUME NEW s \in Runs, keeper'[s] \in HoldingStages PROVE flock'[try'[s]] = s
  <2>1. s # r /\ keeper[s] \in HoldingStages /\ try'[s] = try[s]
    BY <1>1
  <2> QED
    BY <2>1 DEF LocksMatch
<1>2. ASSUME NEW k \in SlotSet, flock'[k] # Nobody PROVE try'[flock'[k]] = k
  <2>1. flock[k] # Nobody /\ keeper[flock[k]] \in HoldingStages /\ flock[k] \in Runs
    BY <1>2 DEF TypeOK
  <2>2. try[flock[k]] = k /\ flock[k] # r
    BY <2>1 DEF LocksMatch
  <2> QED
    BY <2>1, <2>2
<1> QED
  BY <1>1, <1>2 DEF LocksMatch

USE SlotAssumption DEF Runs, SlotSet, Nobody, Shell, Keeper, files, history, ShellStages,
    KeeperStages, ShellAlive, ShellEnded, KeeperAlive, Queueing, HoldingStages, InSlot

(* A run starts its keeper, which takes the time that names its ticket. *)
LEMMA StepStart == ASSUME IInv, NEW r \in Runs, Start(r) PROVE IInv'
<1>1. TypeOK'
  BY DEF Start, IInv, TypeOK
<1>2. StartOrder'
  BY DEF Start, IInv, TypeOK, StartOrder
<1>3. HeardInSlot'
  BY DEF Start, IInv, TypeOK, StartOrder, HeardInSlot
<1>4. LocksMatch'
  BY DEF Start, IInv, TypeOK, LocksMatch
<1>5. KeeperStays'
  BY DEF Start, IInv, TypeOK, HeardInSlot, KeeperStays
<1>6. QueueOrder'
  BY DEF Start, IInv, TypeOK, StartOrder, QueueOrder
<1>7. InfoNamesHolder'
  BY ExclusiveFromInv DEF Start, IInv, TypeOK, HeardInSlot, KeeperStays,
     SlotExclusive, InfoNamesHolder
<1> QED
  BY <1>1, <1>2, <1>3, <1>4, <1>5, <1>6, <1>7 DEF IInv

(* A keeper puts its ticket in the queue. *)
LEMMA StepPut == ASSUME IInv, NEW r \in Runs, PutTicket(r) PROVE IInv'
<1>1. TypeOK'
  BY DEF PutTicket, IInv, TypeOK
<1>2. StartOrder'
  BY DEF PutTicket, IInv, TypeOK, StartOrder
<1>3. HeardInSlot'
  BY DEF PutTicket, IInv, TypeOK, StartOrder, HeardInSlot
<1>4. LocksMatch'
  BY DEF PutTicket, IInv, TypeOK, LocksMatch
<1>5. KeeperStays'
  BY DEF PutTicket, IInv, TypeOK, HeardInSlot, KeeperStays
<1>6. QueueOrder'
  BY DEF PutTicket, IInv, TypeOK, StartOrder, QueueOrder
<1>7. InfoNamesHolder'
  BY ExclusiveFromInv DEF PutTicket, IInv, TypeOK, HeardInSlot, KeeperStays,
     SlotExclusive, InfoNamesHolder
<1> QED
  BY <1>1, <1>2, <1>3, <1>4, <1>5, <1>6, <1>7 DEF IInv

(* A keeper looks at the queue and drops the dead tickets. *)
LEMMA StepLook == ASSUME IInv, NEW r \in Runs, LookAtQueue(r) PROVE IInv'
<1>1. TypeOK'
  <2>1. keeper' \in [Runs -> KeeperStages] /\ try' \in [Runs -> SlotSet]
    BY DEF LookAtQueue, IInv, TypeOK
  <2>2. \A k \in SlotSet : flock'[k] # Nobody => keeper'[flock'[k]] \in HoldingStages
    BY DEF LookAtQueue, IInv, TypeOK
  <2>3. tickets' \in SUBSET Runs
    BY DEF LookAtQueue, Live, IInv, TypeOK
  <2> QED
    BY <2>1, <2>2, <2>3 DEF LookAtQueue, IInv, TypeOK
<1>2. StartOrder'
  BY DEF LookAtQueue, FirstIn, Live, IInv, TypeOK, StartOrder
<1>3. HeardInSlot'
  BY DEF LookAtQueue, FirstIn, Live, IInv, TypeOK, StartOrder, HeardInSlot
<1>4. LocksMatch'
  <2>1. \A s \in Runs : s # r => try'[s] = try[s] /\ keeper'[s] = keeper[s]
    BY DEF LookAtQueue, IInv, TypeOK
  <2>2. keeper[r] \notin HoldingStages /\ keeper'[r] \notin HoldingStages
    BY DEF LookAtQueue, IInv, TypeOK
  <2> QED
    BY <2>1, <2>2, LocksUntouched DEF LookAtQueue, IInv
<1>5. KeeperStays'
  BY DEF LookAtQueue, FirstIn, Live, IInv, TypeOK, HeardInSlot, KeeperStays
<1>6. QueueOrder'
  BY DEF LookAtQueue, FirstIn, Live, IInv, TypeOK, StartOrder, QueueOrder
<1>7. InfoNamesHolder'
  BY ExclusiveFromInv DEF LookAtQueue, FirstIn, Live, IInv, TypeOK, HeardInSlot, KeeperStays,
     SlotExclusive, InfoNamesHolder
<1> QED
  BY <1>1, <1>2, <1>3, <1>4, <1>5, <1>6, <1>7 DEF IInv

(* The first in the queue takes a free slot. *)
LEMMA StepTake == ASSUME IInv, NEW r \in Runs, TakeSlot(r) PROVE IInv'
<1>1. TypeOK'
  BY DEF TakeSlot, IInv, TypeOK
<1>2. StartOrder'
  BY DEF TakeSlot, IInv, TypeOK, StartOrder
<1>3. HeardInSlot'
  BY DEF TakeSlot, IInv, TypeOK, StartOrder, HeardInSlot
<1>4. LocksMatch'
  BY DEF TakeSlot, IInv, TypeOK, LocksMatch
<1>5. KeeperStays'
  BY DEF TakeSlot, IInv, TypeOK, HeardInSlot, KeeperStays
<1>6. QueueOrder'
  BY DEF TakeSlot, IInv, TypeOK, StartOrder, QueueOrder
<1>7. InfoNamesHolder'
  BY ExclusiveFromInv DEF TakeSlot, IInv, TypeOK, HeardInSlot, KeeperStays,
     SlotExclusive, InfoNamesHolder
<1> QED
  BY <1>1, <1>2, <1>3, <1>4, <1>5, <1>6, <1>7 DEF IInv

(* A slot that is taken is passed over. *)
LEMMA StepNextSlot == ASSUME IInv, NEW r \in Runs, TryNextSlot(r) PROVE IInv'
<1>1. TypeOK'
  <2>1. keeper' \in [Runs -> KeeperStages] /\ try' \in [Runs -> SlotSet]
    BY DEF TryNextSlot, IInv, TypeOK
  <2>2. \A k \in SlotSet : flock'[k] # Nobody => keeper'[flock'[k]] \in HoldingStages
    BY DEF TryNextSlot, IInv, TypeOK
  <2> QED
    BY <2>1, <2>2 DEF TryNextSlot, IInv, TypeOK
<1>2. StartOrder'
  BY DEF TryNextSlot, IInv, TypeOK, StartOrder
<1>3. HeardInSlot'
  BY DEF TryNextSlot, IInv, TypeOK, StartOrder, HeardInSlot
<1>4. LocksMatch'
  <2>1. \A s \in Runs : s # r => try'[s] = try[s] /\ keeper'[s] = keeper[s]
    BY DEF TryNextSlot, IInv, TypeOK
  <2>2. keeper[r] \notin HoldingStages /\ keeper'[r] \notin HoldingStages
    BY DEF TryNextSlot, IInv, TypeOK
  <2> QED
    BY <2>1, <2>2, LocksUntouched DEF TryNextSlot, IInv
<1>5. KeeperStays'
  BY DEF TryNextSlot, IInv, TypeOK, HeardInSlot, KeeperStays
<1>6. QueueOrder'
  <2>1. CASE try[r] + 1 \in SlotSet
    BY <2>1 DEF TryNextSlot, IInv, TypeOK, StartOrder, QueueOrder
  <2>2. CASE try[r] + 1 \notin SlotSet
    <3>1. keeper[r] = "front" /\ keeper' = [keeper EXCEPT ![r] = "tick"]
          /\ UNCHANGED <<tickets, ahead>>
      BY <2>2 DEF TryNextSlot
    <3>2. \A s \in Runs : /\ keeper'[s] \in Queueing <=> keeper[s] \in Queueing
                          /\ keeper'[s] \in {"none", "stamped"}
                               <=> keeper[s] \in {"none", "stamped"}
                          /\ keeper'[s] = "front" => keeper[s] = "front"
      BY <3>1 DEF IInv, TypeOK
    <3>3. \A q \in Runs : ahead[q] \subseteq Runs
      BY DEF IInv, TypeOK
    <3> QED
      BY <3>1, <3>2, <3>3 DEF IInv, QueueOrder
  <2> QED
    BY <2>1, <2>2
<1>7. InfoNamesHolder'
  <2>1. r \notin orphaned /\ shell[r] # "working"
    BY DEF TryNextSlot, IInv, HeardInSlot, KeeperStays
  <2>2. \A s \in Runs : s # r => try'[s] = try[s]
    BY DEF TryNextSlot, IInv, TypeOK
  <2>3. UNCHANGED <<shell, info, orphaned>> /\ orphaned \subseteq Runs
    BY DEF TryNextSlot, IInv, TypeOK
  <2>4. ASSUME NEW q \in Runs, shell'[q] = "working", info'[try'[q]] # q
        PROVE  \E s \in orphaned' : try'[s] = try'[q]
    <3>1. shell[q] = "working" /\ q # r /\ try'[q] = try[q] /\ info[try[q]] # q
      BY <2>1, <2>2, <2>3, <2>4
    <3>2. PICK s \in orphaned : try[s] = try[q]
      BY <3>1 DEF IInv, InfoNamesHolder
    <3> QED
      BY <2>1, <2>2, <2>3, <3>1, <3>2
  <2> QED
    BY <2>4 DEF InfoNamesHolder
<1> QED
  BY <1>1, <1>2, <1>3, <1>4, <1>5, <1>6, <1>7 DEF IInv

(* A keeper that has its slot removes its ticket. *)
LEMMA StepUnlink == ASSUME IInv, NEW r \in Runs, Unlink(r) PROVE IInv'
<1>1. TypeOK'
  BY DEF Unlink, IInv, TypeOK
<1>2. StartOrder'
  BY DEF Unlink, IInv, TypeOK, StartOrder
<1>3. HeardInSlot'
  BY DEF Unlink, IInv, TypeOK, StartOrder, HeardInSlot
<1>4. LocksMatch'
  BY DEF Unlink, IInv, TypeOK, LocksMatch
<1>5. KeeperStays'
  BY DEF Unlink, IInv, TypeOK, HeardInSlot, KeeperStays
<1>6. QueueOrder'
  BY DEF Unlink, IInv, TypeOK, StartOrder, QueueOrder
<1>7. InfoNamesHolder'
  BY ExclusiveFromInv DEF Unlink, IInv, TypeOK, HeardInSlot, KeeperStays,
     SlotExclusive, InfoNamesHolder
<1> QED
  BY <1>1, <1>2, <1>3, <1>4, <1>5, <1>6, <1>7 DEF IInv

(* A keeper with a slot tells its shell, or dies of writing to one that *)
(* is gone.                                                             *)
LEMMA StepAnnounce == ASSUME IInv, NEW r \in Runs, Announce(r) PROVE IInv'
<1>1. TypeOK'
  <2>1. flock' \in [SlotSet -> Runs \cup {Nobody}]
    BY DEF Announce, Unlocked, IInv, TypeOK
  <2>2. \A k \in SlotSet : flock'[k] # Nobody =>
          flock'[k] = flock[k] /\ (flock[k] = r => shell[r] \in ShellAlive)
    BY DEF Announce, Unlocked, IInv, TypeOK
  <2>3. \A s \in Runs : s # r => keeper'[s] = keeper[s]
    BY DEF Announce, IInv, TypeOK
  <2>4. shell[r] \in ShellAlive => keeper'[r] = "holding"
    BY DEF Announce, IInv, TypeOK
  <2>5. \A k \in SlotSet : flock'[k] # Nobody => keeper'[flock'[k]] \in HoldingStages
    BY <2>1, <2>2, <2>3, <2>4 DEF IInv, TypeOK
  <2>6. keeper' \in [Runs -> KeeperStages] /\ pipe' \in [Runs -> {"empty", "held", "failure"}]
    BY DEF Announce, IInv, TypeOK
  <2> QED
    BY <2>1, <2>5, <2>6 DEF Announce, IInv, TypeOK
<1>2. StartOrder'
  BY DEF Announce, Unlocked, IInv, TypeOK, StartOrder
<1>3. HeardInSlot'
  BY DEF Announce, Unlocked, IInv, TypeOK, StartOrder, HeardInSlot
<1>4. LocksMatch'
  BY DEF Announce, Unlocked, IInv, TypeOK, LocksMatch
<1>5. KeeperStays'
  BY DEF Announce, Unlocked, IInv, TypeOK, HeardInSlot, KeeperStays
<1>6. QueueOrder'
  <2>1. keeper[r] = "unlinked" /\ keeper' \in {[keeper EXCEPT ![r] = "holding"],
                                               [keeper EXCEPT ![r] = "gone"]}
        /\ UNCHANGED <<tickets, ahead>>
    BY DEF Announce
  <2>2. \A s \in Runs : /\ keeper'[s] \in Queueing <=> keeper[s] \in Queueing
                        /\ keeper'[s] \in {"none", "stamped"}
                             <=> keeper[s] \in {"none", "stamped"}
                        /\ keeper'[s] = "front" => keeper[s] = "front"
    BY <2>1 DEF IInv, TypeOK
  <2>3. \A q \in Runs : ahead[q] \subseteq Runs
    BY DEF IInv, TypeOK
  <2> QED
    BY <2>1, <2>2, <2>3 DEF IInv, QueueOrder
<1>7. InfoNamesHolder'
  BY ExclusiveFromInv DEF Announce, Unlocked, IInv, TypeOK, HeardInSlot, KeeperStays,
     SlotExclusive, InfoNamesHolder
<1> QED
  BY <1>1, <1>2, <1>3, <1>4, <1>5, <1>6, <1>7 DEF IInv

(* A keeper stops waiting; its shell may be gone already. *)
LEMMA StepGiveUp == ASSUME IInv, NEW r \in Runs, GiveUp(r) PROVE IInv'
<1>1. TypeOK'
  BY DEF GiveUp, IInv, TypeOK
<1>2. StartOrder'
  BY DEF GiveUp, IInv, TypeOK, StartOrder
<1>3. HeardInSlot'
  BY DEF GiveUp, IInv, TypeOK, StartOrder, HeardInSlot
<1>4. LocksMatch'
  BY DEF GiveUp, IInv, TypeOK, LocksMatch
<1>5. KeeperStays'
  BY DEF GiveUp, IInv, TypeOK, HeardInSlot, KeeperStays
<1>6. QueueOrder'
  BY DEF GiveUp, IInv, TypeOK, StartOrder, QueueOrder
<1>7. InfoNamesHolder'
  BY ExclusiveFromInv DEF GiveUp, IInv, TypeOK, HeardInSlot, KeeperStays,
     SlotExclusive, InfoNamesHolder
<1> QED
  BY <1>1, <1>2, <1>3, <1>4, <1>5, <1>6, <1>7 DEF IInv

(* A keeper that waits looks whether its shell lives. *)
LEMMA StepLookForParent == ASSUME IInv, NEW r \in Runs, LookForParent(r) PROVE IInv'
<1>1. TypeOK'
  BY DEF LookForParent, IInv, TypeOK
<1>2. StartOrder'
  BY DEF LookForParent, IInv, TypeOK, StartOrder
<1>3. HeardInSlot'
  BY DEF LookForParent, IInv, TypeOK, StartOrder, HeardInSlot
<1>4. LocksMatch'
  BY DEF LookForParent, IInv, TypeOK, LocksMatch
<1>5. KeeperStays'
  BY DEF LookForParent, IInv, TypeOK, HeardInSlot, KeeperStays
<1>6. QueueOrder'
  <2>1. CASE shell[r] \in ShellAlive
    BY <2>1 DEF LookForParent, IInv, TypeOK, StartOrder, QueueOrder
  <2>2. CASE shell[r] \notin ShellAlive
    <3>1. keeper[r] = "tick" /\ keeper' = [keeper EXCEPT ![r] = "gone"]
          /\ tickets' \in {tickets, tickets \ {r}} /\ UNCHANGED ahead
      BY <2>2 DEF LookForParent
    <3> QED
      BY <3>1 DEF IInv, TypeOK, QueueOrder
  <2> QED
    BY <2>1, <2>2
<1>7. InfoNamesHolder'
  BY ExclusiveFromInv DEF LookForParent, IInv, TypeOK, HeardInSlot, KeeperStays,
     SlotExclusive, InfoNamesHolder
<1> QED
  BY <1>1, <1>2, <1>3, <1>4, <1>5, <1>6, <1>7 DEF IInv

(* A keeper whose shell has ended, or that was told to, lets its lock go. *)
LEMMA StepLetGo == ASSUME IInv, NEW r \in Runs, LetGo(r) PROVE IInv'
<1>1. TypeOK'
  BY DEF LetGo, Unlocked, IInv, TypeOK
<1>2. StartOrder'
  BY DEF LetGo, Unlocked, IInv, TypeOK, StartOrder
<1>3. HeardInSlot'
  BY DEF LetGo, Unlocked, IInv, TypeOK, StartOrder, HeardInSlot
<1>4. LocksMatch'
  BY DEF LetGo, Unlocked, IInv, TypeOK, LocksMatch
<1>5. KeeperStays'
  BY DEF LetGo, Unlocked, IInv, TypeOK, HeardInSlot, KeeperStays
<1>6. QueueOrder'
  BY DEF LetGo, Unlocked, IInv, TypeOK, StartOrder, QueueOrder
<1>7. InfoNamesHolder'
  BY ExclusiveFromInv DEF LetGo, Unlocked, IInv, TypeOK, HeardInSlot, KeeperStays,
     SlotExclusive, InfoNamesHolder
<1> QED
  BY <1>1, <1>2, <1>3, <1>4, <1>5, <1>6, <1>7 DEF IInv

(* The shell reads that its slot is held. *)
LEMMA StepReadHeld == ASSUME IInv, NEW r \in Runs, ReadHeld(r) PROVE IInv'
<1>1. TypeOK'
  BY DEF ReadHeld, IInv, TypeOK
<1>2. StartOrder'
  BY DEF ReadHeld, IInv, TypeOK, StartOrder
<1>3. HeardInSlot'
  BY DEF ReadHeld, IInv, TypeOK, StartOrder, HeardInSlot
<1>4. LocksMatch'
  BY DEF ReadHeld, IInv, TypeOK, LocksMatch
<1>5. KeeperStays'
  BY DEF ReadHeld, IInv, TypeOK, HeardInSlot, KeeperStays
<1>6. QueueOrder'
  BY DEF ReadHeld, IInv, TypeOK, StartOrder, QueueOrder
<1>7. InfoNamesHolder'
  BY ExclusiveFromInv DEF ReadHeld, IInv, TypeOK, HeardInSlot, KeeperStays,
     SlotExclusive, InfoNamesHolder
<1> QED
  BY <1>1, <1>2, <1>3, <1>4, <1>5, <1>6, <1>7 DEF IInv

(* The shell reads that it got no slot, or that its keeper is gone. *)
LEMMA StepReadFailure == ASSUME IInv, NEW r \in Runs, ReadFailure(r) PROVE IInv'
<1>1. TypeOK'
  BY DEF ReadFailure, IInv, TypeOK
<1>2. StartOrder'
  BY DEF ReadFailure, IInv, TypeOK, StartOrder
<1>3. HeardInSlot'
  BY DEF ReadFailure, IInv, TypeOK, StartOrder, HeardInSlot
<1>4. LocksMatch'
  BY DEF ReadFailure, IInv, TypeOK, LocksMatch
<1>5. KeeperStays'
  BY DEF ReadFailure, IInv, TypeOK, HeardInSlot, KeeperStays
<1>6. QueueOrder'
  BY DEF ReadFailure, IInv, TypeOK, StartOrder, QueueOrder
<1>7. InfoNamesHolder'
  BY ExclusiveFromInv DEF ReadFailure, IInv, TypeOK, HeardInSlot, KeeperStays,
     SlotExclusive, InfoNamesHolder
<1> QED
  BY <1>1, <1>2, <1>3, <1>4, <1>5, <1>6, <1>7 DEF IInv

(* The shell in the slot writes who it is. *)
LEMMA StepWriteInfo == ASSUME IInv, NEW r \in Runs, WriteInfo(r) PROVE IInv'
<1>1. TypeOK'
  BY DEF WriteInfo, IInv, TypeOK
<1>2. StartOrder'
  BY DEF WriteInfo, IInv, TypeOK, StartOrder
<1>3. HeardInSlot'
  BY DEF WriteInfo, IInv, TypeOK, StartOrder, HeardInSlot
<1>4. LocksMatch'
  BY DEF WriteInfo, IInv, TypeOK, LocksMatch
<1>5. KeeperStays'
  BY DEF WriteInfo, IInv, TypeOK, HeardInSlot, KeeperStays
<1>6. QueueOrder'
  BY DEF WriteInfo, IInv, TypeOK, StartOrder, QueueOrder
<1>7. InfoNamesHolder'
  BY ExclusiveFromInv DEF WriteInfo, IInv, TypeOK, HeardInSlot, KeeperStays,
     SlotExclusive, InfoNamesHolder
<1> QED
  BY <1>1, <1>2, <1>3, <1>4, <1>5, <1>6, <1>7 DEF IInv

(* The shell in the slot removes the info file. *)
LEMMA StepRemoveInfo == ASSUME IInv, NEW r \in Runs, RemoveInfo(r) PROVE IInv'
<1>1. TypeOK'
  BY DEF RemoveInfo, IInv, TypeOK
<1>2. StartOrder'
  BY DEF RemoveInfo, IInv, TypeOK, StartOrder
<1>3. HeardInSlot'
  BY DEF RemoveInfo, IInv, TypeOK, StartOrder, HeardInSlot
<1>4. LocksMatch'
  BY DEF RemoveInfo, IInv, TypeOK, LocksMatch
<1>5. KeeperStays'
  BY DEF RemoveInfo, IInv, TypeOK, HeardInSlot, KeeperStays
<1>6. QueueOrder'
  BY DEF RemoveInfo, IInv, TypeOK, StartOrder, QueueOrder
<1>7. InfoNamesHolder'
  BY ExclusiveFromInv DEF RemoveInfo, IInv, TypeOK, HeardInSlot, KeeperStays,
     SlotExclusive, InfoNamesHolder
<1> QED
  BY <1>1, <1>2, <1>3, <1>4, <1>5, <1>6, <1>7 DEF IInv

(* The shell tells its keeper to stop. *)
LEMMA StepStop == ASSUME IInv, NEW r \in Runs, StopKeeper(r) PROVE IInv'
<1>1. TypeOK'
  BY DEF StopKeeper, IInv, TypeOK
<1>2. StartOrder'
  BY DEF StopKeeper, IInv, TypeOK, StartOrder
<1>3. HeardInSlot'
  BY DEF StopKeeper, IInv, TypeOK, StartOrder, HeardInSlot
<1>4. LocksMatch'
  <2>1. CASE keeper[r] = "gone"
    BY <2>1 DEF StopKeeper, IInv, TypeOK, HeardInSlot, KeeperStays, LocksMatch
  <2>2. CASE keeper[r] # "gone"
    BY <2>2 DEF StopKeeper, IInv, TypeOK, HeardInSlot, KeeperStays, LocksMatch
  <2> QED
    BY <2>1, <2>2
<1>5. KeeperStays'
  BY DEF StopKeeper, IInv, TypeOK, HeardInSlot, KeeperStays
<1>6. QueueOrder'
  BY DEF StopKeeper, IInv, TypeOK, StartOrder, QueueOrder
<1>7. InfoNamesHolder'
  BY ExclusiveFromInv DEF StopKeeper, IInv, TypeOK, HeardInSlot, KeeperStays,
     SlotExclusive, InfoNamesHolder
<1> QED
  BY <1>1, <1>2, <1>3, <1>4, <1>5, <1>6, <1>7 DEF IInv

(* A shell is killed at any point. *)
LEMMA StepKillShell == ASSUME IInv, NEW r \in Runs, KillShell(r) PROVE IInv'
<1>1. TypeOK'
  BY DEF KillShell, IInv, TypeOK
<1>2. StartOrder'
  BY DEF KillShell, IInv, TypeOK, StartOrder
<1>3. HeardInSlot'
  BY DEF KillShell, IInv, TypeOK, StartOrder, HeardInSlot
<1>4. LocksMatch'
  BY DEF KillShell, IInv, TypeOK, LocksMatch
<1>5. KeeperStays'
  BY DEF KillShell, IInv, TypeOK, HeardInSlot, KeeperStays
<1>6. QueueOrder'
  BY DEF KillShell, IInv, TypeOK, StartOrder, QueueOrder
<1>7. InfoNamesHolder'
  BY ExclusiveFromInv DEF KillShell, IInv, TypeOK, HeardInSlot, KeeperStays,
     SlotExclusive, InfoNamesHolder
<1> QED
  BY <1>1, <1>2, <1>3, <1>4, <1>5, <1>6, <1>7 DEF IInv

(* A keeper is killed at any point. *)
LEMMA StepKillKeeper == ASSUME IInv, NEW r \in Runs, KillKeeper(r) PROVE IInv'
<1>1. TypeOK'
  <2>1. keeper' \in [Runs -> KeeperStages] /\ flock' \in [SlotSet -> Runs \cup {Nobody}]
    BY DEF KillKeeper, Unlocked, IInv, TypeOK
  <2>2. \A k \in SlotSet : flock'[k] # Nobody => keeper'[flock'[k]] \in HoldingStages
    BY DEF KillKeeper, Unlocked, IInv, TypeOK
  <2>3. orphaned' \in SUBSET Runs /\ kills' \in 0..MaxKills
    BY DEF KillKeeper, IInv, TypeOK
  <2> QED
    BY <2>1, <2>2, <2>3 DEF KillKeeper, IInv, TypeOK
<1>2. StartOrder'
  BY DEF KillKeeper, Unlocked, IInv, TypeOK, StartOrder
<1>3. HeardInSlot'
  BY DEF KillKeeper, Unlocked, IInv, TypeOK, StartOrder, HeardInSlot
<1>4. LocksMatch'
  BY DEF KillKeeper, Unlocked, IInv, TypeOK, LocksMatch
<1>5. KeeperStays'
  BY DEF KillKeeper, Unlocked, IInv, TypeOK, HeardInSlot, KeeperStays
<1>6. QueueOrder'
  BY DEF KillKeeper, Unlocked, IInv, TypeOK, StartOrder, QueueOrder
<1>7. InfoNamesHolder'
  BY ExclusiveFromInv DEF KillKeeper, Unlocked, IInv, TypeOK, HeardInSlot, KeeperStays,
     SlotExclusive, InfoNamesHolder
<1> QED
  BY <1>1, <1>2, <1>3, <1>4, <1>5, <1>6, <1>7 DEF IInv

(* Every step keeps the inductive invariant. *)
LEMMA InvStep == IInv /\ [Next]_vars => IInv'
<1> SUFFICES ASSUME IInv, [Next]_vars PROVE IInv'
  OBVIOUS
<1>1. CASE UNCHANGED vars
  BY <1>1 DEF vars, IInv, TypeOK, StartOrder, HeardInSlot, LocksMatch, KeeperStays,
     QueueOrder, InfoNamesHolder
<1>2. CASE Next
  <2>1. PICK r \in Runs : \/ Start(r) \/ KeeperStep(r) \/ ShellStep(r) \/ GiveUp(r)
                          \/ KillShell(r) \/ KillKeeper(r)
    BY <1>2 DEF Next
  <2>2. CASE KeeperStep(r)
    BY <2>2, StepPut, StepLook, StepTake, StepNextSlot, StepUnlink, StepAnnounce,
       StepLookForParent, StepLetGo DEF KeeperStep
  <2>3. CASE ShellStep(r)
    BY <2>3, StepReadHeld, StepReadFailure, StepWriteInfo, StepRemoveInfo, StepStop
       DEF ShellStep, Release
  <2> QED
    BY <2>1, <2>2, <2>3, StepStart, StepGiveUp, StepKillShell, StepKillKeeper
<1> QED
  BY <1>1, <1>2

(* The inductive invariant holds in every behaviour. *)
LEMMA Invariant == Spec => []IInv
BY InvInit, InvStep, PTL DEF Spec

(* Every variable keeps its type and the kernel's locks have live holders  *)
(* (preflight.sh:13-150), whatever is killed.                              *)
THEOREM TypeCorrect == Spec => []TypeOK
<1>1. IInv => TypeOK
  BY DEF IInv
<1> QED
  BY <1>1, Invariant, PTL

(* No two runs are in one slot unless a keeper was killed under a living   *)
(* shell.                                                                  *)
THEOREM SlotsExclusive == Spec => []SlotExclusive
BY ExclusiveFromInv, Invariant, PTL

(* The info file of a working run names it (preflight.sh:45-47, 114-123).  *)
THEOREM InfoCorrect == Spec => []InfoNamesHolder
<1>1. IInv => InfoNamesHolder
  BY DEF IInv
<1> QED
  BY <1>1, Invariant, PTL

(* The queue is first in, first out (preflight.sh:60-79).                  *)
THEOREM FirstInFirstOut == Spec => NoOvertaking
<1>1. ASSUME IInv, NEW r \in Runs, TakeSlot(r), NEW s \in ahead[r]
      PROVE  ~(s \in tickets /\ keeper[s] \in Queueing)
  BY <1>1 DEF IInv, QueueOrder, TakeSlot
<1>2. IInv /\ [Next]_vars =>
        [\A r \in Runs : TakeSlot(r) =>
           \A s \in ahead[r] : ~(s \in tickets /\ keeper[s] \in Queueing)]_vars
  BY <1>1
<1> QED
  BY <1>2, Invariant, PTL DEF Spec, NoOvertaking
=============================================================================
