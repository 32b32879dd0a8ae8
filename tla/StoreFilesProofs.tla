-------------------------- MODULE StoreFilesProofs --------------------------
(***************************************************************************)
(* Proofs of StoreFiles, for every set of targets, threads and layouts: a   *)
(* Store maps a target once, works on complete files of its own layout and *)
(* turns files away for a reason.  The inductive invariant says why: the   *)
(* map's Mutex has one holder, what the holder is about to open is not in   *)
(* the map yet, and a file nobody spoilt has one creator.                  *)
(***************************************************************************)
EXTENDS StoreFiles, TLAPS

PCs   == MapHeld \cup {"idle", "series", "lock", "work"}
Calls == [pc : PCs, s : Stores, t : Targets \cup {<<>>}, job : {"none", "record", "fetch"},
          existed : BOOLEAN]

MapType ==
  /\ call \in [Threads -> Calls]
  /\ \A h \in Threads : call[h].pc # "idle" => call[h].t \in Targets
  /\ open \in [Stores -> SUBSET Targets]
  /\ opened \in [Stores -> [Targets -> Nat]]

(* One thread at a time holds the Mutex of a Store's map, *)
OneHolder ==
  \A h, g \in Threads :
    (call[h].pc \in MapHeld /\ call[g].pc \in MapHeld /\ call[h].s = call[g].s) => h = g

(* to open a target that is not in the map. *)
NotYetOpen == \A h \in Threads : call[h].pc \in MapHeld => call[h].t \notin open[call[h].s]

(* What was opened once is in the map, and nothing was opened twice. *)
OpenedIsOpen == \A s \in Stores : \A t \in Targets :
                  opened[s][t] <= 1 /\ (opened[s][t] > 0 => t \in open[s])

MapInv == MapType /\ OneHolder /\ NotYetOpen /\ OpenedIsOpen

-----------------------------------------------------------------------------
LEMMA StoresNat == Stores \subseteq Nat /\ 1 \in Stores
  BY StoreAssumption DEF Stores

LEMMA IdleCall == Idle \in Calls /\ Idle.pc = "idle"
  BY StoresNat DEF Idle, Calls, PCs

LEMMA MapInit == Init => MapInv
  <1> SUFFICES ASSUME Init PROVE MapInv
    OBVIOUS
  <1>1. call = [h \in Threads |-> Idle] /\ open = [s \in Stores |-> {}]
        /\ opened = [s \in Stores |-> [t \in Targets |-> 0]]
    BY DEF Init
  <1>2. MapType
    BY <1>1, IdleCall DEF MapType
  <1>3. \A h \in Threads : call[h].pc \notin MapHeld
    BY <1>1, IdleCall DEF MapHeld
  <1>4. OpenedIsOpen
    BY <1>1 DEF OpenedIsOpen
  <1> QED  BY <1>2, <1>3, <1>4 DEF MapInv, OneHolder, NotYetOpen

(* A thread that ends up without the map's Mutex, and opened nothing. *)
LEMMA LeavesMap ==
  ASSUME MapInv, NEW h \in Threads, NEW c \in Calls,
         c.pc \notin MapHeld, c.pc # "idle" => c.t \in Targets,
         call' = [call EXCEPT ![h] = c], UNCHANGED <<open, opened>>
  PROVE  MapInv'
  <1>1. MapType'
    BY DEF MapInv, MapType
  <1>2. \A g \in Threads : call'[g].pc \in MapHeld => g # h /\ call'[g] = call[g]
    BY DEF MapInv, MapType
  <1>3. OneHolder' /\ NotYetOpen'
    BY <1>2 DEF MapInv, OneHolder, NotYetOpen
  <1>4. OpenedIsOpen'
    BY DEF MapInv, OpenedIsOpen
  <1> QED  BY <1>1, <1>3, <1>4 DEF MapInv

(* The holder of the Mutex goes on holding it. *)
LEMMA StaysInMap ==
  ASSUME MapInv, NEW h \in Threads, NEW c \in Calls,
         call[h].pc \in MapHeld, c.s = call[h].s, c.t = call[h].t,
         call' = [call EXCEPT ![h] = c], UNCHANGED <<open, opened>>
  PROVE  MapInv'
  <1>1. call[h].t \in Targets
    BY DEF MapInv, MapType, MapHeld
  <1>2. MapType'
    BY <1>1 DEF MapInv, MapType
  <1>3. \A g \in Threads : /\ call'[g].s = call[g].s /\ call'[g].t = call[g].t
                           /\ call'[g].pc \in MapHeld => call[g].pc \in MapHeld
    BY DEF MapInv, MapType
  <1>4. OneHolder' /\ NotYetOpen'
    BY <1>3 DEF MapInv, OneHolder, NotYetOpen
  <1>5. OpenedIsOpen'
    BY DEF MapInv, OpenedIsOpen
  <1> QED  BY <1>2, <1>4, <1>5 DEF MapInv

LEMMA AtType ==
  ASSUME MapInv, NEW h \in Threads
  PROVE  call[h] \in Calls /\ (call[h].pc # "idle" => call[h].t \in Targets)
  BY DEF MapInv, MapType

LEMMA GotoCall ==
  ASSUME MapInv, NEW h \in Threads, NEW pc \in PCs, Goto(h, pc)
  PROVE  \E c \in Calls : /\ c.pc = pc /\ c.s = call[h].s /\ c.t = call[h].t
                          /\ call' = [call EXCEPT ![h] = c]
  <1> DEFINE c == [call[h] EXCEPT !.pc = pc]
  <1>1. c \in Calls /\ c.pc = pc /\ c.s = call[h].s /\ c.t = call[h].t
    BY AtType DEF Calls
  <1>2. call' = [call EXCEPT ![h] = c]
    BY DEF Goto
  <1> QED  BY <1>1, <1>2

(* The holder of the Mutex opens its target. *)
LEMMA EnterKeeps ==
  ASSUME MapInv, NEW h \in Threads, call[h].pc \in MapHeld, Enter(h)
  PROVE  MapInv'
  <1> DEFINE s == call[h].s
             t == call[h].t
  <1>1. "lock" \in PCs /\ "lock" \notin MapHeld
    BY DEF PCs, MapHeld
  <1>2. PICK c \in Calls : /\ c.pc = "lock" /\ c.s = s /\ c.t = t
                           /\ call' = [call EXCEPT ![h] = c]
    BY <1>1, GotoCall DEF Enter
  <1>3. s \in Stores /\ t \in Targets /\ t \notin open[s]
    BY AtType DEF Calls, MapInv, NotYetOpen, MapHeld
  <1>4. opened[s][t] = 0
    BY <1>3 DEF MapInv, OpenedIsOpen, MapType
  <1> HIDE DEF s, t
  <1>5. open' = [open EXCEPT ![s] = @ \cup {t}] /\ opened' = [opened EXCEPT ![s][t] = @ + 1]
    BY DEF Enter, s, t
  <1>6. MapType'
    BY <1>2, <1>3, <1>5 DEF MapInv, MapType
  <1>7. \A g \in Threads : call'[g].pc \in MapHeld =>
          /\ g # h /\ call'[g] = call[g] /\ call[g].s # s /\ call[g].s \in Stores
    BY <1>1, <1>2, AtType DEF MapInv, MapType, OneHolder, s, Calls
  <1>8. OneHolder'
    BY <1>7 DEF MapInv, OneHolder
  <1>9. NotYetOpen'
    BY <1>5, <1>7 DEF MapInv, NotYetOpen, MapType
  <1>10. OpenedIsOpen'
    <2> SUFFICES ASSUME NEW s2 \in Stores, NEW t2 \in Targets
                 PROVE  opened'[s2][t2] <= 1 /\ (opened'[s2][t2] > 0 => t2 \in open'[s2])
      BY DEF OpenedIsOpen
    <2>1. CASE s2 = s /\ t2 = t
      BY <1>3, <1>4, <1>5, <2>1 DEF MapInv, MapType
    <2>2. CASE ~(s2 = s /\ t2 = t)
      <3>1. opened'[s2][t2] = opened[s2][t2] /\ open[s2] \subseteq open'[s2]
        BY <1>3, <1>5, <2>2 DEF MapInv, MapType
      <3> QED  BY <3>1 DEF MapInv, OpenedIsOpen
    <2> QED  BY <2>1, <2>2
  <1> QED  BY <1>6, <1>8, <1>9, <1>10 DEF MapInv

-----------------------------------------------------------------------------
LEMMA LookUpKeeps ==
  ASSUME MapInv, NEW h \in Threads, LookUp(h)
  PROVE  MapInv'
  <1>1. call[h].pc = "series" /\ MapFree(call[h].s) /\ UNCHANGED <<open, opened>>
    BY DEF LookUp
  <1>2. call[h] \in Calls /\ call[h].t \in Targets
    BY <1>1, AtType
  <1>3. CASE call[h].t \in open[call[h].s]
    <2>1. Goto(h, "lock") /\ "lock" \in PCs /\ "lock" \notin MapHeld
      BY <1>3 DEF LookUp, PCs, MapHeld
    <2>2. PICK c \in Calls : c.pc = "lock" /\ c.t = call[h].t /\ call' = [call EXCEPT ![h] = c]
      BY <2>1, GotoCall
    <2> QED  BY <1>1, <1>2, <2>1, <2>2, LeavesMap
  <1>4. CASE call[h].t \notin open[call[h].s] /\ call' = [call EXCEPT ![h] = Idle]
    <2>1. Idle.pc \notin MapHeld
      BY IdleCall DEF MapHeld
    <2> QED  BY <1>1, <1>4, <2>1, IdleCall, LeavesMap
  <1>5. CASE call[h].t \notin open[call[h].s] /\ Goto(h, "exists")
    <2>1. "exists" \in PCs
      BY DEF PCs, MapHeld
    <2>2. PICK c \in Calls : /\ c.pc = "exists" /\ c.s = call[h].s /\ c.t = call[h].t
                             /\ call' = [call EXCEPT ![h] = c]
      BY <1>5, <2>1, GotoCall
    <2>3. MapType'
      BY <1>1, <1>2, <2>2 DEF MapInv, MapType
    <2>4. call'[h] = c /\ \A g \in Threads : g # h => call'[g] = call[g]
      BY <2>2 DEF MapInv, MapType
    <2>5. \A g \in Threads : (call'[g].pc \in MapHeld /\ g # h) =>
            call[g].pc \in MapHeld /\ call[g].s # call[h].s
      BY <1>1, <2>4 DEF MapFree
    <2>6. OneHolder'
      BY <2>2, <2>4, <2>5 DEF MapInv, OneHolder
    <2>7. NotYetOpen'
      BY <1>1, <1>5, <2>2, <2>4 DEF MapInv, NotYetOpen
    <2>8. OpenedIsOpen'
      BY <1>1 DEF MapInv, OpenedIsOpen
    <2> QED  BY <2>3, <2>6, <2>7, <2>8 DEF MapInv
  <1> QED  BY <1>3, <1>4, <1>5 DEF LookUp

LEMMA RefuseKeeps ==
  ASSUME MapInv, NEW h \in Threads, Refuse(h), UNCHANGED <<open, opened>>
  PROVE  MapInv'
  <1>1. Idle.pc \notin MapHeld /\ call' = [call EXCEPT ![h] = Idle]
    BY IdleCall DEF MapHeld, Refuse
  <1> QED  BY <1>1, IdleCall, LeavesMap

LEMMA GotoHeldKeeps ==
  ASSUME MapInv, NEW h \in Threads, NEW pc \in MapHeld, call[h].pc \in MapHeld,
         Goto(h, pc), UNCHANGED <<open, opened>>
  PROVE  MapInv'
  <1>1. pc \in PCs
    BY DEF PCs
  <1>2. PICK c \in Calls : /\ c.pc = pc /\ c.s = call[h].s /\ c.t = call[h].t
                           /\ call' = [call EXCEPT ![h] = c]
    BY <1>1, GotoCall
  <1> QED  BY <1>2, StaysInMap

LEMMA MapStep == MapInv /\ [Next]_vars => MapInv'
  <1> SUFFICES ASSUME MapInv, [Next]_vars PROVE MapInv'
    OBVIOUS
  <1>1. ASSUME NEW h \in Threads, NEW s \in Stores, NEW t \in Targets,
               NEW job \in {"record", "fetch"}, Call(h, s, t, job)
        PROVE  MapInv'
    <2> DEFINE c == [pc |-> "series", s |-> s, t |-> t, job |-> job, existed |-> FALSE]
    <2>1. c \in Calls /\ c.pc \notin MapHeld /\ c.t \in Targets
      BY DEF Calls, PCs, MapHeld
    <2>2. call' = [call EXCEPT ![h] = c] /\ UNCHANGED <<open, opened>>
      BY <1>1 DEF Call
    <2> HIDE DEF c
    <2> QED  BY <2>1, <2>2, LeavesMap
  <1>2. ASSUME NEW h \in Threads, LookUp(h) PROVE MapInv'
    BY <1>2, LookUpKeeps
  <1>3. ASSUME NEW h \in Threads, Exists(h) PROVE MapInv'
    <2> DEFINE c == [call[h] EXCEPT !.pc = "open", !.existed = disk[File(h)] # "absent"]
    <2>1. call[h].pc \in MapHeld /\ UNCHANGED <<open, opened>> /\ call' = [call EXCEPT ![h] = c]
      BY <1>3 DEF Exists, MapHeld
    <2>2. c \in Calls /\ c.s = call[h].s /\ c.t = call[h].t
      BY AtType DEF Calls, PCs, MapHeld
    <2> HIDE DEF c
    <2> QED  BY <2>1, <2>2, StaysInMap
  <1>4. ASSUME NEW h \in Threads, Open(h) PROVE MapInv'
    <2>1. call[h].pc \in MapHeld /\ UNCHANGED <<open, opened>>
          /\ (Goto(h, "setLen") \/ Refuse(h) \/ Goto(h, "validate"))
      BY <1>4 DEF Open, MapHeld
    <2>2. "setLen" \in MapHeld /\ "validate" \in MapHeld
      BY DEF MapHeld
    <2> QED  BY <2>1, <2>2, GotoHeldKeeps, RefuseKeeps
  <1>5. ASSUME NEW h \in Threads, SetLen(h) PROVE MapInv'
    <2>1. call[h].pc \in MapHeld /\ UNCHANGED <<open, opened>> /\ Goto(h, "initHeaders")
          /\ "initHeaders" \in MapHeld
      BY <1>5 DEF SetLen, MapHeld
    <2> QED  BY <2>1, GotoHeldKeeps
  <1>6. ASSUME NEW h \in Threads, SetLenFails(h) PROVE MapInv'
    BY <1>6, RefuseKeeps DEF SetLenFails, Refuse
  <1>7. ASSUME NEW h \in Threads, InitHeaders(h) PROVE MapInv'
    BY <1>7, EnterKeeps DEF InitHeaders, MapHeld
  <1>8. ASSUME NEW h \in Threads, Validate(h) PROVE MapInv'
    <2>1. call[h].pc \in MapHeld /\ (Enter(h) \/ (Refuse(h) /\ UNCHANGED <<open, opened>>))
      BY <1>8 DEF Validate, MapHeld
    <2> QED  BY <2>1, EnterKeeps, RefuseKeeps
  <1>9. ASSUME NEW h \in Threads, Lock(h) PROVE MapInv'
    <2>1. call[h].pc = "lock" /\ Goto(h, "work") /\ UNCHANGED <<open, opened>>
          /\ "work" \in PCs /\ "work" \notin MapHeld
      BY <1>9 DEF Lock, PCs, MapHeld
    <2>2. PICK c \in Calls : c.pc = "work" /\ c.t = call[h].t /\ call' = [call EXCEPT ![h] = c]
      BY <2>1, GotoCall
    <2>3. call[h].t \in Targets
      BY <2>1, AtType
    <2> QED  BY <2>1, <2>2, <2>3, LeavesMap
  <1>10. ASSUME NEW h \in Threads, Unlock(h) PROVE MapInv'
    BY <1>10, RefuseKeeps DEF Unlock, Refuse
  <1>11. ASSUME NEW l \in Layouts, MakeStore(l) PROVE MapInv'
    BY <1>11 DEF MakeStore, MapInv, MapType, OneHolder, NotYetOpen, OpenedIsOpen
  <1>12. CASE Kill
    <2>1. call' = [h \in Threads |-> Idle] /\ UNCHANGED <<open, opened>>
      BY <1>12 DEF Kill
    <2>2. MapType'
      BY <2>1, IdleCall DEF MapInv, MapType
    <2>3. \A h \in Threads : call'[h].pc \notin MapHeld
      BY <2>1, IdleCall DEF MapHeld
    <2>4. OpenedIsOpen'
      BY <2>1 DEF MapInv, OpenedIsOpen
    <2> QED  BY <2>2, <2>3, <2>4 DEF MapInv, OneHolder, NotYetOpen
  <1>13. CASE UNCHANGED vars
    BY <1>13 DEF vars, MapInv, MapType, OneHolder, NotYetOpen, OpenedIsOpen
  <1> QED
    BY <1>1, <1>2, <1>3, <1>4, <1>5, <1>6, <1>7, <1>8, <1>9, <1>10, <1>11, <1>12, <1>13 DEF Next

(* The series map of a Store is consistent in every reachable state. *)
THEOREM MapInvariant == Spec => []MapInv
  BY MapInit, MapStep, PTL DEF Spec

(* However many threads call record and fetch for however many targets, a   *)
(* Store maps a target at most once, so all of them share one Mutex.        *)
THEOREM MappedOnce == Spec => []OneMapping
  <1>1. MapInv => OneMapping
    BY DEF MapInv, OpenedIsOpen, OneMapping
  <1> QED  BY <1>1, MapInvariant, PTL
-----------------------------------------------------------------------------
(* What a Store's file is worth.  A thread creates a file between open and *)
(* the end of init_headers.                                                *)
Creators == {"setLen", "initHeaders"}
Creates(h, f) == call[h].pc \in Creators /\ File(h) = f

FileType ==
  /\ made \in Stores /\ alive \subseteq 1..made /\ layout \in [Stores -> Layouts]
  /\ disk \in [Files -> {"absent", "empty", "sized", "ready"}] /\ shape \in [Files -> Layouts]
  /\ faults \in 0..MaxFaults /\ spoilt \subseteq Files

(* Calls are made on Stores that were made, and only those map anything. *)
StoresMade ==
  /\ \A h \in Threads : call[h].pc # "idle" => call[h].s <= made
  /\ \A s \in Stores : open[s] # {} => s <= made

(* What is in the map was opened, and what a thread locks is in the map. *)
MapHasOpened ==
  /\ \A s \in Stores : \A t \in open[s] : opened[s][t] > 0
  /\ \A h \in Threads : call[h].pc \in {"lock", "work"} => call[h].t \in open[call[h].s]

(* An unspoilt file has one creator at most, who found what it left. *)
SoleCreator ==
  \A h \in Threads : \A f \in Files \ spoilt :
    Creates(h, f) =>
      /\ disk[f] = IF call[h].pc = "setLen" THEN "empty" ELSE "sized"
      /\ \A g \in Threads : Creates(g, f) => g = h

(* One that is half done has one. *)
HalfDoneHasCreator ==
  \A f \in Files \ spoilt : disk[f] \in {"empty", "sized"} => \E h \in Threads : Creates(h, f)

(* An unspoilt file in a map is complete, with the layout of the Store. *)
MappedIsReady ==
  \A s \in Stores : \A t \in open[s] :
    FileOf(t) \notin spoilt => disk[FileOf(t)] = "ready" /\ shape[FileOf(t)] = layout[s]

(* A file found on the disk is on the disk. *)
FoundIsThere ==
  \A h \in Threads :
    (call[h].pc = "open" /\ call[h].existed) \/ call[h].pc = "validate" => disk[File(h)] # "absent"

FileInv == FileType /\ StoresMade /\ MapHasOpened /\ SoleCreator /\ HalfDoneHasCreator
           /\ MappedIsReady /\ FoundIsThere

LEMMA FileOfIn == ASSUME NEW t \in Targets PROVE FileOf(t) \in Files
  BY DEF Files

LEMMA FileInit == Init => FileInv
  <1> SUFFICES ASSUME Init PROVE FileInv
    OBVIOUS
  <1>1. /\ call = [h \in Threads |-> Idle] /\ open = [s \in Stores |-> {}]
        /\ disk = [f \in Files |-> "absent"] /\ spoilt = {} /\ made = 1 /\ alive = {1} /\ faults = 0
    BY DEF Init
  <1>2. FileType
    <2>1. PICK l \in Layouts : layout = [s \in Stores |-> l]
      BY DEF Init
    <2>2. shape = [f \in Files |-> layout[1]]
      BY DEF Init
    <2> QED  BY <1>1, <2>1, <2>2, StoresNat, StoreAssumption DEF FileType
  <1>3. \A h \in Threads : call[h].pc = "idle"
    BY <1>1, IdleCall
  <1>4. StoresMade /\ MapHasOpened /\ MappedIsReady
    BY <1>1, <1>3 DEF StoresMade, MapHasOpened, MappedIsReady
  <1>5. SoleCreator /\ HalfDoneHasCreator /\ FoundIsThere
    BY <1>1, <1>3 DEF SoleCreator, HalfDoneHasCreator, FoundIsThere, Creates, Creators
  <1> QED  BY <1>2, <1>4, <1>5 DEF FileInv

(* A thread that does not create a file, before or after. *)
LEMMA AsideKeeps ==
  ASSUME MapInv, FileInv, NEW h \in Threads, NEW c,
         call' = [call EXCEPT ![h] = c],
         UNCHANGED <<alive, layout, made, disk, shape, open, faults, opened, spoilt>>,
         call[h].pc \notin Creators, c.pc \notin Creators,
         c.pc # "idle" => c.s <= made,
         c.pc \in {"lock", "work"} => c.t \in open[c.s],
         (c.pc = "open" /\ c.existed) \/ c.pc = "validate" => disk[FileOf(c.t)] # "absent"
  PROVE  FileInv'
  <1>1. call'[h] = c /\ \A g \in Threads : g # h => call'[g] = call[g]
    BY DEF MapInv, MapType
  <1>2. FileType' /\ MappedIsReady'
    BY DEF FileInv, FileType, MappedIsReady
  <1>3. StoresMade' /\ MapHasOpened'
    BY <1>1 DEF FileInv, StoresMade, MapHasOpened
  <1>4. \A g \in Threads, f \in Files : Creates(g, f)' <=> Creates(g, f)
    BY <1>1 DEF Creates, File
  <1>5. SoleCreator'
    BY <1>1, <1>4 DEF FileInv, SoleCreator, Creates
  <1>6. HalfDoneHasCreator'
    BY <1>4 DEF FileInv, HalfDoneHasCreator
  <1>7. FoundIsThere'
    BY <1>1 DEF FileInv, FoundIsThere, File
  <1> QED  BY <1>2, <1>3, <1>5, <1>6, <1>7 DEF FileInv

(* What a step of a thread does to its call. *)
LEMMA GotoMoves ==
  ASSUME MapInv, NEW h \in Threads, NEW pc, Goto(h, pc)
  PROVE  \E c : /\ call' = [call EXCEPT ![h] = c]
                /\ c.pc = pc /\ c.s = call[h].s /\ c.t = call[h].t /\ c.existed = call[h].existed
  <1> DEFINE c == [call[h] EXCEPT !.pc = pc]
  <1>1. call[h] \in Calls
    BY AtType
  <1>2. c.pc = pc /\ c.s = call[h].s /\ c.t = call[h].t /\ c.existed = call[h].existed
    BY <1>1 DEF Calls
  <1>3. call' = [call EXCEPT ![h] = c]
    BY DEF Goto
  <1> QED  BY <1>2, <1>3

LEMMA RefuseAside ==
  ASSUME MapInv, FileInv, NEW h \in Threads, Refuse(h), call[h].pc \notin Creators,
         UNCHANGED <<alive, layout, made, disk, shape, open, faults, opened, spoilt>>
  PROVE  FileInv'
  <1>1. call' = [call EXCEPT ![h] = Idle] /\ Idle.pc = "idle" /\ "idle" \notin Creators
    BY IdleCall DEF Refuse, Creators
  <1> QED  BY <1>1, AsideKeeps

LEMMA CallFiles ==
  ASSUME MapInv, FileInv, NEW h \in Threads, NEW s \in Stores, NEW t \in Targets,
         NEW job, Call(h, s, t, job)
  PROVE  FileInv'
  <1> DEFINE c == [pc |-> "series", s |-> s, t |-> t, job |-> job, existed |-> FALSE]
  <1>1. /\ call' = [call EXCEPT ![h] = c] /\ call[h] = Idle /\ s \in alive
        /\ UNCHANGED <<alive, layout, made, disk, shape, open, faults, opened, spoilt>>
    BY DEF Call
  <1>2. c.pc = "series" /\ c.s = s
    OBVIOUS
  <1>3. s <= made
    BY <1>1 DEF FileInv, FileType
  <1> HIDE DEF c
  <1> QED  BY <1>1, <1>2, <1>3, IdleCall, AsideKeeps DEF Creators

LEMMA LookUpFiles ==
  ASSUME MapInv, FileInv, NEW h \in Threads, LookUp(h)
  PROVE  FileInv'
  <1>1. /\ call[h].pc = "series" /\ call[h].pc \notin Creators
        /\ UNCHANGED <<alive, layout, made, disk, shape, open, faults, opened, spoilt>>
    BY DEF LookUp, Creators
  <1>2. call[h].s <= made
    BY <1>1 DEF FileInv, StoresMade
  <1>3. CASE Goto(h, "lock") /\ call[h].t \in open[call[h].s]
    <2>1. PICK c : call' = [call EXCEPT ![h] = c] /\ c.pc = "lock" /\ c.s = call[h].s /\ c.t = call[h].t
      BY <1>3, GotoMoves
    <2> QED  BY <1>1, <1>2, <1>3, <2>1, AsideKeeps DEF Creators
  <1>4. CASE call' = [call EXCEPT ![h] = Idle]
    BY <1>1, <1>4, RefuseAside DEF Refuse
  <1>5. CASE Goto(h, "exists")
    <2>1. PICK c : call' = [call EXCEPT ![h] = c] /\ c.pc = "exists" /\ c.s = call[h].s
      BY <1>5, GotoMoves
    <2> QED  BY <1>1, <1>2, <2>1, AsideKeeps DEF Creators
  <1> QED  BY <1>3, <1>4, <1>5 DEF LookUp

LEMMA ExistsFiles ==
  ASSUME MapInv, FileInv, NEW h \in Threads, Exists(h)
  PROVE  FileInv'
  <1> DEFINE c == [call[h] EXCEPT !.pc = "open", !.existed = disk[File(h)] # "absent"]
  <1>1. /\ call[h].pc = "exists" /\ call' = [call EXCEPT ![h] = c]
        /\ UNCHANGED <<alive, layout, made, disk, shape, open, faults, opened, spoilt>>
    BY DEF Exists
  <1>2. c.pc = "open" /\ c.s = call[h].s /\ c.t = call[h].t /\ c.existed = (disk[File(h)] # "absent")
    BY AtType DEF Calls
  <1>3. c.s <= made
    BY <1>1, <1>2 DEF FileInv, StoresMade
  <1>4. c.existed => disk[FileOf(c.t)] # "absent"
    BY <1>2 DEF File
  <1> HIDE DEF c
  <1> QED  BY <1>1, <1>2, <1>3, <1>4, AsideKeeps DEF Creators

LEMMA LockFiles ==
  ASSUME MapInv, FileInv, NEW h \in Threads, Lock(h)
  PROVE  FileInv'
  <1>1. /\ call[h].pc = "lock" /\ Goto(h, "work")
        /\ UNCHANGED <<alive, layout, made, disk, shape, open, faults, opened, spoilt>>
    BY DEF Lock
  <1>2. PICK c : call' = [call EXCEPT ![h] = c] /\ c.pc = "work" /\ c.s = call[h].s /\ c.t = call[h].t
    BY <1>1, GotoMoves
  <1>3. c.s <= made /\ c.t \in open[c.s]
    BY <1>1, <1>2 DEF FileInv, StoresMade, MapHasOpened
  <1> QED  BY <1>1, <1>2, <1>3, AsideKeeps DEF Creators

LEMMA OpenFiles ==
  ASSUME MapInv, FileInv, NEW h \in Threads, Open(h)
  PROVE  FileInv'
  <1> DEFINE f == File(h)
  <1>1. /\ call[h].pc = "open" /\ call[h].pc \notin Creators /\ f \in Files
        /\ disk' = [disk EXCEPT ![f] = IF @ = "absent" THEN "empty" ELSE @]
        /\ spoilt' = IF ~call[h].existed /\ disk[f] # "absent" THEN spoilt \cup {f} ELSE spoilt
        /\ UNCHANGED <<alive, layout, made, shape, open, faults, opened>>
    BY AtType, FileOfIn DEF Open, Creators, File
  <1>2. call[h].s <= made /\ call[h] \in Calls
    BY <1>1, AtType DEF FileInv, StoresMade
  <1>3. CASE call[h].existed
    <2>1. disk[f] # "absent"
      BY <1>1, <1>3 DEF FileInv, FoundIsThere
    <2>2. disk' = disk /\ spoilt' = spoilt
      BY <1>1, <1>3, <2>1 DEF FileInv, FileType
    <2>3. CASE Refuse(h)
      BY <1>1, <2>2, <2>3, RefuseAside
    <2>4. CASE Goto(h, "validate")
      <3>1. PICK c : call' = [call EXCEPT ![h] = c] /\ c.pc = "validate" /\ c.s = call[h].s /\ c.t = call[h].t
        BY <2>4, GotoMoves
      <3>2. disk[FileOf(c.t)] # "absent"
        BY <2>1, <3>1 DEF File
      <3> QED  BY <1>1, <1>2, <2>2, <3>1, <3>2, AsideKeeps DEF Creators
    <2> QED  BY <1>3, <2>3, <2>4 DEF Open
  <1>4. CASE ~call[h].existed
    <2>1. Goto(h, "setLen")
      BY <1>4 DEF Open
    <2>2. PICK c : call' = [call EXCEPT ![h] = c] /\ c.pc = "setLen" /\ c.s = call[h].s /\ c.t = call[h].t
      BY <2>1, GotoMoves
    <2>3. call'[h] = c /\ \A g \in Threads : g # h => call'[g] = call[g]
      BY <2>2 DEF MapInv, MapType
    <2>4. /\ disk \in [Files -> {"absent", "empty", "sized", "ready"}]
          /\ disk'[f] = IF disk[f] = "absent" THEN "empty" ELSE disk[f]
          /\ \A e \in Files : e # f => disk'[e] = disk[e]
      BY <1>1 DEF FileInv, FileType
    <2>5. spoilt \subseteq spoilt' /\ (f \notin spoilt' => disk[f] = "absent" /\ spoilt' = spoilt)
      BY <1>1, <1>4
    <2>6. \A e \in Files \ spoilt' : e \in Files \ spoilt
      BY <2>5
    <2>7. FileType'
      BY <1>1 DEF FileInv, FileType
    <2>8. StoresMade' /\ MapHasOpened'
      BY <1>1, <1>2, <2>2, <2>3 DEF FileInv, StoresMade, MapHasOpened
    <2>9. /\ \A e \in Files : e = f => Creates(h, e)'
          /\ \A g \in Threads, e \in Files : Creates(g, e)' =>
                                      Creates(g, e) \/ (g = h /\ e = f)
      BY <2>2, <2>3 DEF Creates, File, Creators
    <2>10. \A g \in Threads, e \in Files : Creates(g, e) => Creates(g, e)' /\ g # h
      BY <1>1, <2>3 DEF Creates, File
    <2>11. \A g \in Threads : f \in Files \ spoilt' => ~Creates(g, f)
      BY <2>5, <2>6 DEF FileInv, SoleCreator
    <2>12. SoleCreator'
      <3> SUFFICES ASSUME NEW g \in Threads, NEW e \in Files \ spoilt', Creates(g, e)'
                   PROVE  /\ disk'[e] = IF call'[g].pc = "setLen" THEN "empty" ELSE "sized"
                          /\ \A k \in Threads : Creates(k, e)' => k = g
        BY DEF SoleCreator
      <3>1. CASE e = f
        BY <2>2, <2>3, <2>4, <2>5, <2>9, <2>11, <3>1
      <3>2. CASE e # f
        <4>1. Creates(g, e) /\ g # h /\ call'[g] = call[g] /\ e \in Files \ spoilt /\ disk'[e] = disk[e]
          BY <2>3, <2>4, <2>6, <2>9, <2>10, <3>2
        <4>2. \A k \in Threads : Creates(k, e)' => Creates(k, e)
          BY <2>9, <3>2
        <4> QED  BY <4>1, <4>2 DEF FileInv, SoleCreator
      <3> QED  BY <3>1, <3>2
    <2>13. HalfDoneHasCreator'
      <3> SUFFICES ASSUME NEW e \in Files \ spoilt', disk'[e] \in {"empty", "sized"}
                   PROVE  \E g \in Threads : Creates(g, e)'
        BY DEF HalfDoneHasCreator
      <3>1. CASE e = f
        BY <2>9, <3>1
      <3>2. CASE e # f
        BY <2>4, <2>6, <2>10, <3>2 DEF FileInv, HalfDoneHasCreator
      <3> QED  BY <3>1, <3>2
    <2>14. MappedIsReady'
      <3> SUFFICES ASSUME NEW s \in Stores, NEW t \in open'[s], FileOf(t) \notin spoilt'
                   PROVE  disk'[FileOf(t)] = "ready" /\ shape'[FileOf(t)] = layout'[s]
        BY DEF MappedIsReady
      <3>1. t \in open[s] /\ FileOf(t) \notin spoilt /\ FileOf(t) \in Files
        BY <1>1, <2>5, FileOfIn DEF MapInv, MapType
      <3>2. disk[FileOf(t)] = "ready" /\ shape[FileOf(t)] = layout[s]
        BY <3>1 DEF FileInv, MappedIsReady
      <3> QED  BY <1>1, <2>4, <3>1, <3>2
    <2>15. FoundIsThere'
      <3> SUFFICES ASSUME NEW g \in Threads,
                          (call'[g].pc = "open" /\ call'[g].existed) \/ call'[g].pc = "validate"
                   PROVE  disk'[FileOf(call'[g].t)] # "absent"
        BY DEF FoundIsThere, File
      <3>1. g # h /\ call'[g] = call[g]
        BY <2>2, <2>3
      <3>2. disk[File(g)] # "absent" /\ File(g) \in Files /\ File(g) = FileOf(call'[g].t)
        BY <3>1, AtType, FileOfIn DEF FileInv, FoundIsThere, File
      <3> QED  BY <2>4, <3>2
    <2> QED  BY <2>7, <2>8, <2>12, <2>13, <2>14, <2>15 DEF FileInv
  <1> QED  BY <1>3, <1>4

LEMMA SetLenFiles ==
  ASSUME MapInv, FileInv, NEW h \in Threads, SetLen(h)
  PROVE  FileInv'
  <1> DEFINE f == File(h)
  <1>1. /\ call[h].pc = "setLen" /\ f \in Files /\ Creates(h, f)
        /\ disk' = [disk EXCEPT ![f] = IF @ = "empty" THEN "sized" ELSE @]
        /\ UNCHANGED <<alive, layout, made, shape, open, faults, opened, spoilt>>
    BY AtType, FileOfIn DEF SetLen, Creates, Creators, File
  <1>2. PICK c : call' = [call EXCEPT ![h] = c] /\ c.pc = "initHeaders" /\ c.s = call[h].s /\ c.t = call[h].t
    BY GotoMoves DEF SetLen
  <1>3. call'[h] = c /\ \A g \in Threads : g # h => call'[g] = call[g]
    BY <1>2 DEF MapInv, MapType
  <1>4. /\ disk \in [Files -> {"absent", "empty", "sized", "ready"}]
        /\ disk'[f] = IF disk[f] = "empty" THEN "sized" ELSE disk[f]
        /\ \A e \in Files : e # f => disk'[e] = disk[e]
    BY <1>1 DEF FileInv, FileType
  <1>5. \A g \in Threads, e \in Files : Creates(g, e)' <=> Creates(g, e)
    BY <1>1, <1>2, <1>3 DEF Creates, File, Creators
  <1>6. f \notin spoilt => disk[f] = "empty" /\ \A g \in Threads : Creates(g, f) => g = h
    BY <1>1 DEF FileInv, SoleCreator
  <1>7. FileType'
    BY <1>1 DEF FileInv, FileType
  <1>8. StoresMade' /\ MapHasOpened'
    BY <1>1, <1>2, <1>3 DEF FileInv, StoresMade, MapHasOpened
  <1>9. SoleCreator'
    <2> SUFFICES ASSUME NEW g \in Threads, NEW e \in Files \ spoilt, Creates(g, e)
                 PROVE  /\ disk'[e] = IF call'[g].pc = "setLen" THEN "empty" ELSE "sized"
                        /\ \A k \in Threads : Creates(k, e) => k = g
      BY <1>1, <1>5 DEF SoleCreator
    <2>1. CASE e = f
      BY <1>2, <1>3, <1>4, <1>6, <2>1
    <2>2. CASE e # f
      <3>1. g # h
        BY <1>1, <2>2 DEF Creates
      <3> QED  BY <1>3, <1>4, <2>2, <3>1 DEF FileInv, SoleCreator
    <2> QED  BY <2>1, <2>2
  <1>10. HalfDoneHasCreator'
    BY <1>1, <1>4, <1>5 DEF FileInv, HalfDoneHasCreator
  <1>11. MappedIsReady'
    <2> SUFFICES ASSUME NEW s \in Stores, NEW t \in open[s], FileOf(t) \notin spoilt
                 PROVE  disk'[FileOf(t)] = "ready" /\ shape[FileOf(t)] = layout[s]
      BY <1>1 DEF MappedIsReady
    <2>1. FileOf(t) \in Files
      BY FileOfIn DEF MapInv, MapType
    <2> QED  BY <1>4, <2>1 DEF FileInv, MappedIsReady
  <1>12. FoundIsThere'
    <2> SUFFICES ASSUME NEW g \in Threads,
                        (call'[g].pc = "open" /\ call'[g].existed) \/ call'[g].pc = "validate"
                 PROVE  disk'[FileOf(call'[g].t)] # "absent"
      BY DEF FoundIsThere, File
    <2>1. g # h /\ call'[g] = call[g]
      BY <1>2, <1>3
    <2>2. disk[File(g)] # "absent" /\ File(g) \in Files /\ File(g) = FileOf(call'[g].t)
      BY <2>1, AtType, FileOfIn DEF FileInv, FoundIsThere, File
    <2> QED  BY <1>4, <2>2
  <1> QED  BY <1>7, <1>8, <1>9, <1>10, <1>11, <1>12 DEF FileInv

LEMMA SetLenFailsFiles ==
  ASSUME MapInv, FileInv, NEW h \in Threads, SetLenFails(h)
  PROVE  FileInv'
  <1> DEFINE f == File(h)
  <1>1. /\ call[h].pc = "setLen" /\ f \in Files /\ Creates(h, f)
        /\ faults < MaxFaults /\ faults' = faults + 1 /\ spoilt' = spoilt \cup {f}
        /\ call' = [call EXCEPT ![h] = Idle]
        /\ UNCHANGED <<alive, layout, made, disk, shape, open, opened>>
    BY AtType, FileOfIn DEF SetLenFails, Creates, Creators, File
  <1>2. call'[h].pc = "idle" /\ \A g \in Threads : g # h => call'[g] = call[g]
    BY <1>1, IdleCall DEF MapInv, MapType
  <1>3. FileType'
    BY <1>1, StoreAssumption DEF FileInv, FileType
  <1>4. StoresMade' /\ MapHasOpened' /\ MappedIsReady' /\ FoundIsThere'
    BY <1>1, <1>2 DEF FileInv, StoresMade, MapHasOpened, MappedIsReady, FoundIsThere, File
  <1>5. \A g \in Threads, e \in Files \ {f} : Creates(g, e)' <=> Creates(g, e)
    BY <1>1, <1>2 DEF Creates, File, Creators
  <1>6. \A g \in Threads, e \in Files : Creates(g, e)' => call'[g] = call[g]
    BY <1>2 DEF Creates, Creators
  <1>7. SoleCreator' /\ HalfDoneHasCreator'
    BY <1>1, <1>5, <1>6 DEF FileInv, SoleCreator, HalfDoneHasCreator
  <1> QED  BY <1>3, <1>4, <1>7 DEF FileInv

(* The series a thread opened enters the map, and its file is ready with   *)
(* the layout of the thread's Store: it is now, or it was already.         *)
LEMMA EnterFiles ==
  ASSUME MapInv, FileInv, NEW h \in Threads, Enter(h), call[h].pc \in {"initHeaders", "validate"},
         disk' = [disk EXCEPT ![File(h)] = "ready"],
         shape' = [shape EXCEPT ![File(h)] = layout[call[h].s]],
         UNCHANGED <<alive, layout, made, faults, spoilt>>,
         \/ Creates(h, File(h))
         \/ disk[File(h)] = "ready" /\ shape[File(h)] = layout[call[h].s]
  PROVE  FileInv'
  <1> DEFINE f == File(h)
             s == call[h].s
             t == call[h].t
  <1>1. PICK c : call' = [call EXCEPT ![h] = c] /\ c.pc = "lock" /\ c.s = s /\ c.t = t
    BY GotoMoves DEF Enter
  <1>2. call'[h] = c /\ \A g \in Threads : g # h => call'[g] = call[g]
    BY <1>1 DEF MapInv, MapType
  <1>3. s \in Stores /\ t \in Targets /\ f \in Files /\ f = FileOf(t) /\ s <= made
    BY AtType, FileOfIn DEF Calls, File, FileInv, StoresMade
  <1>4. /\ disk'[f] = "ready" /\ \A e \in Files : e # f => disk'[e] = disk[e]
        /\ shape'[f] = layout[s] /\ \A e \in Files : e # f => shape'[e] = shape[e]
    BY <1>3 DEF FileInv, FileType
  <1>5. /\ open' = [open EXCEPT ![s] = @ \cup {t}] /\ opened' = [opened EXCEPT ![s][t] = @ + 1]
        /\ open \in [Stores -> SUBSET Targets] /\ opened \in [Stores -> [Targets -> Nat]]
    BY DEF Enter, MapInv, MapType
  <1> HIDE DEF s, t
  <1>6. /\ t \in open'[s] /\ opened'[s][t] > 0
        /\ \A u \in Stores : open[u] \subseteq open'[u] /\ open'[u] \subseteq open[u] \cup {t}
        /\ \A u \in Stores : u # s => open'[u] = open[u]
        /\ \A u \in Stores, v \in Targets : opened'[u][v] >= opened[u][v]
    BY <1>3, <1>5
  <1>7. FileType'
    <2>1. layout[s] \in Layouts
      BY <1>3 DEF FileInv, FileType
    <2> QED  BY <2>1 DEF FileInv, FileType, s
  <1>8. StoresMade'
    BY <1>1, <1>2, <1>3, <1>6 DEF FileInv, StoresMade
  <1>9. MapHasOpened'
    <2>1. \A u \in Stores : \A v \in open'[u] : opened'[u][v] > 0
      <3> SUFFICES ASSUME NEW u \in Stores, NEW v \in open'[u] PROVE opened'[u][v] > 0
        OBVIOUS
      <3>1. CASE u = s /\ v = t
        BY <1>6, <3>1
      <3>2. CASE v \in open[u]
        <4>1. v \in Targets /\ opened[u][v] \in Nat /\ opened[u][v] > 0 /\ opened'[u][v] >= opened[u][v]
          BY <1>5, <1>6, <3>2 DEF FileInv, MapHasOpened
        <4>2. opened'[u][v] \in Nat
          BY <1>3, <1>5, <4>1
        <4> QED  BY <4>1, <4>2
      <3> QED  BY <1>6, <3>1, <3>2
    <2>2. \A g \in Threads : call'[g].pc \in {"lock", "work"} => call'[g].t \in open'[call'[g].s]
      <3> SUFFICES ASSUME NEW g \in Threads, call'[g].pc \in {"lock", "work"}
                   PROVE  call'[g].t \in open'[call'[g].s]
        OBVIOUS
      <3>1. CASE g = h
        BY <1>1, <1>2, <1>6, <3>1
      <3>2. CASE g # h
        <4>1. call'[g] = call[g] /\ call[g].s \in Stores
          BY <1>2, <3>2, AtType DEF Calls
        <4> QED  BY <1>6, <4>1 DEF FileInv, MapHasOpened
      <3> QED  BY <3>1, <3>2
    <2> QED  BY <2>1, <2>2 DEF MapHasOpened
  <1>10. \A g \in Threads, e \in Files : Creates(g, e)' <=> Creates(g, e) /\ g # h
    BY <1>1, <1>2 DEF Creates, File, Creators
  (* Nobody else creates the file, unless it is spoilt, *)
  <1>11. f \notin spoilt => \A g \in Threads : Creates(g, f) => g = h
    BY <1>3 DEF FileInv, SoleCreator
  (* and who has it mapped has it with this layout. *)
  <1>12. ASSUME NEW u \in Stores, NEW v \in open[u], FileOf(v) = f, f \notin spoilt
         PROVE  layout[u] = layout[s]
    <2>1. disk[f] = "ready" /\ shape[f] = layout[u]
      BY <1>12 DEF FileInv, MappedIsReady
    <2>2. ~Creates(h, f)
      BY <1>3, <1>12, <2>1 DEF FileInv, SoleCreator
    <2> QED  BY <2>1, <2>2 DEF s
  <1>13. SoleCreator'
    <2> SUFFICES ASSUME NEW g \in Threads, NEW e \in Files \ spoilt, Creates(g, e)'
                 PROVE  /\ disk'[e] = IF call'[g].pc = "setLen" THEN "empty" ELSE "sized"
                        /\ \A k \in Threads : Creates(k, e)' => k = g
      BY DEF SoleCreator
    <2>1. Creates(g, e) /\ g # h /\ e # f /\ call'[g] = call[g]
      BY <1>2, <1>10, <1>11
    <2> QED  BY <1>4, <1>10, <2>1 DEF FileInv, SoleCreator
  <1>14. HalfDoneHasCreator'
    <2> SUFFICES ASSUME NEW e \in Files \ spoilt, disk'[e] \in {"empty", "sized"}
                 PROVE  \E g \in Threads : Creates(g, e)'
      BY DEF HalfDoneHasCreator
    <2>1. e # f /\ disk'[e] = disk[e]
      BY <1>4
    <2>2. PICK g \in Threads : Creates(g, e)
      BY <2>1 DEF FileInv, HalfDoneHasCreator
    <2>3. g # h
      BY <2>1, <2>2 DEF Creates
    <2> QED  BY <1>10, <2>2, <2>3
  <1>15. MappedIsReady'
    <2> SUFFICES ASSUME NEW u \in Stores, NEW v \in open'[u], FileOf(v) \notin spoilt
                 PROVE  disk'[FileOf(v)] = "ready" /\ shape'[FileOf(v)] = layout[u]
      BY DEF MappedIsReady
    <2>1. CASE u = s /\ v = t
      BY <1>3, <1>4, <2>1
    <2>2. CASE v \in open[u]
      <3>1. FileOf(v) \in Files /\ disk[FileOf(v)] = "ready" /\ shape[FileOf(v)] = layout[u]
        BY <1>5, <2>2, FileOfIn DEF FileInv, MappedIsReady
      <3>2. CASE FileOf(v) = f
        BY <1>4, <1>12, <2>2, <3>2
      <3>3. CASE FileOf(v) # f
        BY <1>4, <3>1, <3>3
      <3> QED  BY <3>2, <3>3
    <2> QED  BY <1>6, <2>1, <2>2
  <1>16. FoundIsThere'
    <2> SUFFICES ASSUME NEW g \in Threads,
                        (call'[g].pc = "open" /\ call'[g].existed) \/ call'[g].pc = "validate"
                 PROVE  disk'[FileOf(call'[g].t)] # "absent"
      BY DEF FoundIsThere, File
    <2>1. g # h /\ call'[g] = call[g]
      BY <1>1, <1>2
    <2>2. disk[File(g)] # "absent" /\ File(g) \in Files /\ File(g) = FileOf(call'[g].t)
      BY <2>1, AtType, FileOfIn DEF FileInv, FoundIsThere, File
    <2> QED  BY <1>4, <2>2
  <1> QED  BY <1>7, <1>8, <1>9, <1>13, <1>14, <1>15, <1>16 DEF FileInv

LEMMA InitHeadersFiles ==
  ASSUME MapInv, FileInv, NEW h \in Threads, InitHeaders(h)
  PROVE  FileInv'
  <1>1. Creates(h, File(h)) /\ call[h].pc = "initHeaders"
    BY DEF InitHeaders, Creates, Creators
  <1> QED  BY <1>1, EnterFiles DEF InitHeaders

LEMMA ValidateFiles ==
  ASSUME MapInv, FileInv, NEW h \in Threads, Validate(h)
  PROVE  FileInv'
  <1>1. /\ call[h].pc = "validate" /\ call[h].pc \notin Creators
        /\ UNCHANGED <<alive, layout, made, disk, shape, faults, spoilt>>
    BY DEF Validate, Creators
  <1>2. CASE Enter(h) /\ disk[File(h)] = "ready" /\ shape[File(h)] = layout[call[h].s]
    <2>1. disk' = [disk EXCEPT ![File(h)] = "ready"] /\ shape' = [shape EXCEPT ![File(h)] = layout[call[h].s]]
      BY <1>1, <1>2 DEF FileInv, FileType
    <2> QED  BY <1>1, <1>2, <2>1, EnterFiles
  <1>3. CASE Refuse(h) /\ UNCHANGED <<open, opened>>
    BY <1>1, <1>3, RefuseAside
  <1> QED  BY <1>2, <1>3 DEF Validate

(* A new Store has mapped nothing yet. *)
LEMMA MakeStoreFiles ==
  ASSUME MapInv, FileInv, NEW l \in Layouts, MakeStore(l)
  PROVE  FileInv'
  <1>1. /\ made < MaxStores /\ made' = made + 1 /\ layout' = [layout EXCEPT ![made + 1] = l]
        /\ alive' \in {{made + 1}, alive \cup {made + 1}}
        /\ UNCHANGED <<disk, shape, open, call, faults, opened, spoilt>>
    BY DEF MakeStore
  <1>2. made \in Nat /\ made' \in Stores /\ made' \in Nat
    BY <1>1, StoreAssumption DEF FileInv, FileType, Stores
  <1>3. FileType'
    BY <1>1, <1>2 DEF FileInv, FileType
  <1>4. StoresMade'
    <2>1. \A s \in Stores : s <= made => s <= made'
      BY <1>1, <1>2, StoresNat
    <2>2. \A h \in Threads : call[h].s \in Stores
      BY AtType DEF Calls
    <2> QED  BY <1>1, <2>1, <2>2 DEF FileInv, StoresMade
  <1>5. \A s \in Stores : open[s] # {} => layout'[s] = layout[s]
    BY <1>1, <1>2, StoresNat DEF FileInv, StoresMade, FileType
  <1>6. MappedIsReady'
    BY <1>1, <1>5 DEF FileInv, MappedIsReady
  <1>7. MapHasOpened' /\ SoleCreator' /\ HalfDoneHasCreator' /\ FoundIsThere'
    BY <1>1 DEF FileInv, MapHasOpened, SoleCreator, HalfDoneHasCreator, FoundIsThere, Creates, File
  <1> QED  BY <1>3, <1>4, <1>6, <1>7 DEF FileInv

(* A kill spoils the files that are half done. *)
LEMMA KillFiles ==
  ASSUME MapInv, FileInv, Kill
  PROVE  FileInv'
  <1> DEFINE cut == {File(h) : h \in {g \in Threads : call[g].pc \in {"setLen", "initHeaders"}}}
  <1>1. /\ faults < MaxFaults /\ faults' = faults + 1 /\ alive' = {}
        /\ call' = [h \in Threads |-> Idle] /\ spoilt' = spoilt \cup cut
        /\ UNCHANGED <<layout, made, disk, shape, open, opened>>
    BY DEF Kill
  <1>2. \A h \in Threads : call'[h].pc = "idle"
    BY <1>1, IdleCall
  <1>3. cut \subseteq Files
    BY AtType, FileOfIn DEF File
  <1>4. \A g \in Threads, e \in Files : Creates(g, e) => e \in cut
    BY DEF Creates, Creators
  <1>5. FileType'
    BY <1>1, <1>3, StoreAssumption DEF FileInv, FileType
  <1>6. StoresMade' /\ MapHasOpened' /\ MappedIsReady'
    BY <1>1, <1>2 DEF FileInv, StoresMade, MapHasOpened, MappedIsReady
  <1>7. SoleCreator' /\ FoundIsThere'
    BY <1>2 DEF SoleCreator, FoundIsThere, Creates, Creators
  <1>8. HalfDoneHasCreator'
    BY <1>1, <1>4 DEF FileInv, HalfDoneHasCreator
  <1> QED  BY <1>5, <1>6, <1>7, <1>8 DEF FileInv

LEMMA FileStep == MapInv /\ FileInv /\ [Next]_vars => FileInv'
  <1> SUFFICES ASSUME MapInv, FileInv, [Next]_vars PROVE FileInv'
    OBVIOUS
  <1>1. ASSUME NEW h \in Threads, Unlock(h) PROVE FileInv'
    BY <1>1, RefuseAside DEF Unlock, Refuse, Creators
  <1>2. CASE UNCHANGED vars
    BY <1>2 DEF vars, FileInv, FileType, StoresMade, MapHasOpened, SoleCreator, HalfDoneHasCreator,
                MappedIsReady, FoundIsThere, Creates, File
  <1> QED
    BY <1>1, <1>2, CallFiles, LookUpFiles, ExistsFiles, OpenFiles, SetLenFiles, SetLenFailsFiles,
       InitHeadersFiles, ValidateFiles, LockFiles, MakeStoreFiles, KillFiles DEF Next

(* The files on the disk are what the callers of a Store take them for.    *)
THEOREM FileInvariant == Spec => [](MapInv /\ FileInv)
  BY MapInit, MapStep, FileInit, FileStep, PTL DEF Spec

(* Every variable has its type, and a Store knows the series it mapped.    *)
THEOREM StoreTypes == Spec => []TypeOK
  <1>1. MapInv /\ FileInv => TypeOK
    <2> SUFFICES ASSUME MapInv, FileInv PROVE TypeOK
      OBVIOUS
    <2>1. \A h \in Threads : call[h].pc \in PCs
      BY AtType DEF Calls
    <2>2. \A s \in Stores, t \in Targets : t \in open[s] <=> opened[s][t] > 0
      BY DEF MapInv, OpenedIsOpen, FileInv, MapHasOpened
    <2> QED  BY <2>1, <2>2 DEF TypeOK, FileInv, FileType, MapInv, MapType, PCs
  <1> QED  BY <1>1, FileInvariant, PTL

(* record and fetch work on a file that is complete and has the layout of   *)
(* their Store, unless a fault cut its creation short or two Stores         *)
(* created it at once.                                                     *)
THEOREM WorkOnReady == Spec => []WorksOnReady
  <1>1. MapInv /\ FileInv => WorksOnReady
    <2> SUFFICES ASSUME MapInv, FileInv, NEW h \in Threads, call[h].pc = "work", File(h) \notin spoilt
                 PROVE  disk[File(h)] = "ready" /\ shape[File(h)] = layout[call[h].s]
      BY DEF WorksOnReady
    <2>1. call[h].s \in Stores /\ call[h].t \in open[call[h].s]
      BY AtType DEF Calls, FileInv, MapHasOpened
    <2> QED  BY <2>1 DEF FileInv, MappedIsReady, File
  <1> QED  BY <1>1, FileInvariant, PTL

(* open_or_create turns a file away only for its layout, or because its     *)
(* creation was cut short or is still going on in another Store.            *)
THEOREM RefusedForAReason == Spec => RefusalsExplained
  <1> DEFINE Reason(h) == \/ shape[File(h)] # layout[call[h].s]
                          \/ File(h) \in spoilt
                          \/ \E g \in Threads : call[g].pc \in {"setLen", "initHeaders"} /\ File(g) = File(h)
             A == \A h \in Threads : Refused(h) => Reason(h)
  <1>1. ASSUME MapInv, FileInv, [Next]_vars PROVE A
    <2> SUFFICES ASSUME NEW h \in Threads, Refused(h), File(h) \notin spoilt PROVE Reason(h)
      OBVIOUS
    <2>1. call[h].pc \in {"open", "validate"} /\ call'[h] = Idle /\ faults' = faults
      BY DEF Refused
    <2>2. call'[h].pc = "idle" /\ faults \in Nat
      BY <1>1, <2>1, IdleCall, StoreAssumption DEF FileInv, FileType
    <2>3. File(h) \in Files
      BY <1>1, <2>1, AtType, FileOfIn DEF File
    <2>4. /\ call[h].pc \in {"open", "validate"} /\ call'[h] = Idle /\ faults' = faults
          /\ call'[h].pc = "idle" /\ File(h) \in Files /\ faults \in Nat
      BY <2>1, <2>2, <2>3
    <2>5. disk[File(h)] \in {"empty", "sized"} => Reason(h)
      <3> SUFFICES ASSUME disk[File(h)] \in {"empty", "sized"} PROVE Reason(h)
        OBVIOUS
      <3>1. PICK g \in Threads : Creates(g, File(h))
        BY <1>1, <2>4 DEF FileInv, HalfDoneHasCreator
      <3> QED  BY <3>1 DEF Creates, Creators
    <2>6. ASSUME NEW g \in Threads, NEW c, call' = [call EXCEPT ![g] = c], c.pc # "idle" \/ g # h
          PROVE  FALSE
      BY <1>1, <2>4, <2>6 DEF MapInv, MapType
    <2>7. Open(h) => Reason(h)
      <3> SUFFICES ASSUME Open(h) PROVE Reason(h)
        OBVIOUS
      <3>1. CASE disk[File(h)] = "empty"
        BY <2>5, <3>1
      <3>2. CASE \E pc \in {"setLen", "validate"} : Goto(h, pc)
        <4>1. PICK pc \in {"setLen", "validate"} : Goto(h, pc)
          BY <3>2
        <4>2. PICK c : call' = [call EXCEPT ![h] = c] /\ c.pc = pc
          BY <1>1, <4>1, GotoMoves
        <4> QED  BY <2>6, <4>2
      <3> QED  BY <1>1, <3>1, <3>2 DEF Open
    <2>8. Validate(h) => Reason(h)
      <3> SUFFICES ASSUME Validate(h) PROVE Reason(h)
        OBVIOUS
      <3>1. CASE Enter(h)
        <4>1. PICK c : call' = [call EXCEPT ![h] = c] /\ c.pc = "lock"
          BY <1>1, <3>1, GotoMoves DEF Enter
        <4> QED  BY <2>6, <4>1
      <3>2. CASE disk[File(h)] # "ready"
        <4>1. disk[File(h)] # "absent"
          BY <1>1 DEF Validate, FileInv, FoundIsThere
        <4>2. disk[File(h)] \in {"empty", "sized"}
          BY <1>1, <2>4, <3>2, <4>1 DEF FileInv, FileType
        <4> QED  BY <2>5, <4>2
      <3> QED  BY <3>1, <3>2 DEF Validate
    <2>9. ASSUME NEW g \in Threads, g # h,
                 \/ LookUp(g) \/ Exists(g) \/ Open(g) \/ SetLen(g) \/ SetLenFails(g)
                 \/ InitHeaders(g) \/ Validate(g) \/ Lock(g) \/ Unlock(g)
          PROVE  FALSE
      <3>1. \E c : call' = [call EXCEPT ![g] = c]
        BY <1>1, <2>9 DEF LookUp, Exists, Open, SetLen, SetLenFails, InitHeaders, Validate, Lock, Unlock,
                    Goto, Refuse, Enter
      <3> QED  BY <2>6, <2>9, <3>1
    <2>10. ASSUME NEW g \in Threads, NEW s \in Stores, NEW t \in Targets, NEW job, Call(g, s, t, job)
          PROVE  FALSE
      <3>1. g # h
        BY <2>4, <2>10, IdleCall DEF Call
      <3> QED  BY <2>6, <2>10, <3>1 DEF Call
    <2>11. call' # call /\ ~Kill
      BY <2>4 DEF Kill
    <2>12. ASSUME LookUp(h) \/ Exists(h) \/ SetLen(h) \/ SetLenFails(h) \/ InitHeaders(h) \/ Lock(h) \/ Unlock(h)
          PROVE  FALSE
      BY <2>4, <2>12 DEF LookUp, Exists, SetLen, SetLenFails, InitHeaders, Lock, Unlock
    <2>13. \A l \in Layouts : ~MakeStore(l)
      BY <2>11 DEF MakeStore
    <2>14. Next
      BY <1>1, <2>11 DEF vars
    <2>15. PICK g \in Threads :
              \/ LookUp(g) \/ Exists(g) \/ Open(g) \/ SetLen(g) \/ SetLenFails(g)
              \/ InitHeaders(g) \/ Validate(g) \/ Lock(g) \/ Unlock(g)
      BY <2>10, <2>11, <2>13, <2>14 DEF Next
    <2>16. g = h
      BY <2>9, <2>15
    <2> QED  BY <2>7, <2>8, <2>12, <2>15, <2>16
  <1>2. A <=> \A h \in Threads : Refused(h) => Reason(h)
    OBVIOUS
  <1> QED  BY <1>1, FileInvariant, PTL DEF Spec, RefusalsExplained
=============================================================================
