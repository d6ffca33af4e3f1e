--------------------------- MODULE WorkspaceProofs ---------------------------
(***************************************************************************)
(* What a report shows and what a commit replaces, for any number of       *)
(* processes, paths, commands, edits and crashes.                          *)
(***************************************************************************)
EXTENDS Workspace, SequenceLemmas

Acquiring == {"validate", "open", "read", "acquired"}
Owning == {"gate", "recover", "prepare", "install", "rollback", "restore", "cleanup"}

\* A process that needs the exclusive lock, or the shared one.
Exclusive(self) ==
  \/ process[self].pc \in Owning
  \/ /\ process[self].pc \in Acquiring
     /\ process[self].use \in {"locked", "revalidate", "complete"}
Sharing(self) ==
  \/ process[self].pc = "scan"
  \/ process[self].pc \in Acquiring /\ process[self].use = "report" /\ ~process[self].warned

\* A process that looks at the files between transactions.
Viewing(self) ==
  /\ process[self].pc \in Acquiring
  /\ \/ process[self].use = "locked"
     \/ process[self].use = "report" /\ ~process[self].warned

\* A process that looks at them again before a transaction replaces them.
Rechecking(self) ==
  process[self].pc \in Acquiring /\ process[self].use \in {"revalidate", "complete"}

CommitCommands == {cmd \in Commands : cmd.kind = "commit"}
Bytes ==
  {Whole(value) : value \in EditedTo \cup ToSet(Contents)}
  \cup UNION {{cmd.batch.result[p] : p \in ToSet(cmd.batch.targets)} : cmd \in CommitCommands}
Inode == [bytes : Bytes, stamp : Nat]
WriterRecord == [tx : Nat, targets : SUBSET PathSet, hole : BOOLEAN, user : BOOLEAN]

-----------------------------------------------------------------------------
(***************************************************************************)
(* The inductive invariant.                                                *)
(***************************************************************************)
FileInv ==
  /\ inodes \in Seq(Inode) /\ Len(Contents) <= Len(inodes)
  /\ entry \in [PathSet -> Entries(Len(inodes))]
  /\ created \in Nat
  /\ writer \in [PathSet -> WriterRecord] /\ \A p \in PathSet : writer[p].tx <= created

\* flock, and who holds it where.
LockInv ==
  /\ DOMAIN holders = {"shared", "exclusive"}
  /\ \A self \in holders.exclusive : holders.exclusive = {self} /\ holders.shared = {}
  /\ \A self \in Procs : /\ Exclusive(self) => self \in holders.exclusive
                         /\ Sharing(self) => self \in holders.shared

TxFields ==
  {"phase", "id", "batch", "inputs", "before", "done", "candidate", "expect"}
TxPhases ==
  {"preparing", "prepared", "committing", "committed", "rolling_back", "rolled_back"}
TxInv ==
  \/ tx = NoTx
  \/ /\ DOMAIN tx = TxFields /\ tx.phase \in TxPhases /\ tx.id \in 1 .. created
     /\ tx.batch.targets \in Seq(PathSet)
     /\ \A p \in Targets : tx.batch.result[p] \in Bytes
     /\ tx.done \in [PathSet -> {"none", "backed_up", "installed"}]
     /\ \A p \in PathSet : p \notin Targets => tx.done[p] = "none"
     /\ tx.phase \in {"preparing", "prepared", "rolled_back"} =>
          \A p \in PathSet : tx.done[p] = "none"
     /\ tx.phase = "committed" => \A p \in Targets : tx.done[p] = "installed"
     /\ \A p \in PathSet : tx.inputs[p][1] \in 0 .. Len(inodes)
     /\ tx.expect # {} => tx.inputs \in tx.expect

\* Two writers of which the first replaced, later, what the second is seen at.
Agree(first, second, q) ==
  ~(~first.user /\ ~second.user /\ q \in first.targets /\ second.tx < first.tx)

\* Who wrote a path, as long as nobody edited it: whoever did before the
\* transaction, or the transaction.
RecordedWriter(p) ==
  IF tx.done[p] = "none" THEN tx.before[p]
  ELSE Writer(tx.id, Targets, tx.done[p] = "backed_up")

WriterInv ==
  /\ ~Unfinished => /\ \A p \in PathSet : ~writer[p].hole
                    /\ \A p, q \in PathSet : Agree(writer[p], writer[q], q)
  /\ Unfinished => /\ tx.before \in [PathSet -> WriterRecord]
                   /\ \A p \in PathSet : ~tx.before[p].hole /\ tx.before[p].tx < tx.id
                   /\ \A p, q \in PathSet : Agree(tx.before[p], tx.before[q], q)
                   /\ \A p \in PathSet : writer[p] \in {User, RecordedWriter(p)}

\* A candidate is complete, and nobody else's, until it is installed.
CandidateInv ==
  tx.phase \in {"prepared", "committing"} =>
    /\ \A p \in Targets : tx.candidate[p] \in Len(Contents) + 1 .. Len(inodes)
    /\ \A p, q \in Targets : p # q => tx.candidate[p] # tx.candidate[q]
    /\ \A p \in Targets : tx.done[p] # "installed" =>
         inodes[tx.candidate[p]].bytes = tx.batch.result[p]
    /\ \A p \in Targets, q \in PathSet : entry[q] = File(tx.candidate[p]) =>
         q = p /\ tx.done[p] = "installed"

RecordInv ==
  tx.phase = "committing" => \A p \in PathSet : p \notin touched => AsRecorded(p)

StateFields == {"pc", "cmd", "use", "todo", "attempt", "open", "snapshot", "prelock",
                "warned", "error", "result"}

CommandInv(self) ==
  /\ DOMAIN process[self] = StateFields
  /\ process[self].cmd \in Commands \/ process[self].cmd.kind \in {"none", "complete", "rollback"}
  /\ process[self].pc = "gate" \/ (process[self].pc \in Acquiring /\ process[self].use = "locked")
       => Kind(self) = "commit"

\* A program point against the transaction.
PointInv(self) ==
  LET pc == process[self].pc
  IN  /\ pc = "prepare" => tx.phase = "preparing"
      /\ Rechecking(self) => tx.phase = "prepared"
      /\ pc = "install" => tx.phase = "committing"
      /\ pc = "rollback" => tx.phase \in {"prepared", "committing", "rolling_back"}
      /\ pc = "restore" => tx.phase = "rolling_back"
      /\ pc = "cleanup" => tx.phase \in Completed
      /\ pc \in Acquiring /\ process[self].use = "locked" => tx = NoTx

\* An open file: as long as its time stamp is the same, so are its bytes.
HandleInv(self) ==
  LET open == process[self].open
  IN  /\ process[self].pc \in {"open", "read"} => open.inode \in 1 .. Len(inodes)
      /\ process[self].pc = "read" =>
           /\ open.stamp \in Nat /\ open.stamp <= inodes[open.inode].stamp
           /\ open.stamp = inodes[open.inode].stamp => open.first = inodes[open.inode].bytes[1]

\* What was seen of a path is whole.
SeenInv(self) ==
  LET snapshot == process[self].snapshot
      todo == process[self].todo
  IN  /\ \A p \in DOMAIN snapshot :
           /\ p \in PathSet /\ snapshot[p].inode \in 0 .. Len(inodes)
           /\ snapshot[p].bytes = << >> \/ snapshot[p].bytes \in Bytes
           /\ snapshot[p].writer \in WriterRecord
      /\ process[self].pc \in Acquiring =>
           /\ todo \in Seq(PathSet) /\ (process[self].pc = "acquired" <=> todo = << >>)
           /\ \A p \in PathSet : p \in DOMAIN snapshot \/ p \in ToSet(todo)

\* No transaction starts while somebody looks, so what was seen agrees with
\* what is there, and with itself.
ViewInv(self) ==
  LET snapshot == process[self].snapshot
  IN  Viewing(self) =>
        /\ ~Unfinished
        /\ \A p \in DOMAIN snapshot : /\ ~snapshot[p].writer.hole
                                      /\ writer[p] \in {User, snapshot[p].writer}
                                      /\ snapshot[p].writer.tx <= created
        /\ \A p, q \in DOMAIN snapshot : Agree(snapshot[p].writer, snapshot[q].writer, q)
        /\ \A p \in PathSet, q \in DOMAIN snapshot :
             Agree(writer[p], snapshot[q].writer, q) /\ Agree(snapshot[q].writer, writer[p], p)

\* What was seen is still there, unless somebody edited it.
IsCurrent(p, seen) ==
  IF seen.inode = 0 THEN entry[p] = Absent /\ seen.bytes = << >>
  ELSE entry[p] = File(seen.inode) /\ inodes[seen.inode].bytes = seen.bytes
RecheckInv(self) ==
  Rechecking(self) =>
    \A p \in DOMAIN process[self].snapshot :
      p \notin touched => IsCurrent(p, process[self].snapshot[p])

ReportInv(self) ==
  /\ process[self].pc # "done" => process[self].result = "none"
  /\ process[self].result = "reported" /\ ~process[self].warned =>
       ~HalfInstalled(process[self].snapshot)

ProcessInv(self) ==
  /\ CommandInv(self) /\ PointInv(self) /\ HandleInv(self) /\ SeenInv(self)
  /\ ViewInv(self) /\ RecheckInv(self) /\ ReportInv(self)

WInv ==
  /\ FileInv /\ LockInv /\ TxInv /\ WriterInv /\ CandidateInv /\ RecordInv
  /\ DOMAIN process = Procs /\ \A self \in Procs : ProcessInv(self)

-----------------------------------------------------------------------------
(***************************************************************************)
(* Steps that leave files and transaction alone, and what the other        *)
(* processes see of a step.                                                *)
(***************************************************************************)
\* Only self moves.
Moves(self) == DOMAIN process' = Procs /\ \A t \in Procs : t # self => process'[t] = process[t]

\* Its locks are kept, given up, or taken as flock allows.
Locks(self) ==
  \/ UNCHANGED holders
  \/ holders' = Released(self)
  \/ holders.exclusive = {} /\ holders' = [holders EXCEPT !.shared = @ \cup {self}]
  \/ holders = NoLocks /\ holders' = [holders EXCEPT !.exclusive = @ \cup {self}]
Locked(self) ==
  /\ Exclusive(self) => self \in holders.exclusive
  /\ Sharing(self) => self \in holders.shared

\* Files only come into being, and every change of one shows in its stamp.
Grows ==
  /\ inodes' \in Seq(Inode) /\ Len(inodes) <= Len(inodes')
  /\ \A i \in 1 .. Len(inodes) :
       /\ inodes[i].stamp <= inodes'[i].stamp
       /\ inodes'[i].stamp = inodes[i].stamp => inodes'[i].bytes = inodes[i].bytes

LEMMA SetMoves ==
  ASSUME DOMAIN process = Procs, NEW self \in Procs, NEW state, Set(self, state)
  PROVE  Moves(self) /\ process'[self] = state
BY DEF Set, Moves

LEMMA GoToMoves ==
  ASSUME DOMAIN process = Procs, NEW self \in Procs, DOMAIN process[self] = StateFields,
         NEW pc, GoTo(self, pc)
  PROVE  /\ Moves(self) /\ DOMAIN process'[self] = StateFields /\ process'[self].pc = pc
         /\ process'[self].cmd = process[self].cmd /\ process'[self].use = process[self].use
         /\ process'[self].snapshot = process[self].snapshot
         /\ process'[self].warned = process[self].warned
         /\ process'[self].result = process[self].result
<1>1. process'[self] = [process[self] EXCEPT !.pc = pc]
  BY DEF GoTo
<1>2. Moves(self)
  BY DEF GoTo, Moves
<1> QED  BY <1>1, <1>2 DEF StateFields

LEMMA LocksKept ==
  ASSUME LockInv, NEW self \in Procs, Moves(self), Locks(self), Locked(self)'
  PROVE  LockInv'
<1>1. /\ DOMAIN holders = {"shared", "exclusive"}
      /\ \A a \in holders.exclusive : holders.exclusive = {a} /\ holders.shared = {}
      /\ \A t \in Procs : (Exclusive(t) => t \in holders.exclusive)
                          /\ (Sharing(t) => t \in holders.shared)
  BY DEF LockInv
<1>2. /\ DOMAIN holders' = {"shared", "exclusive"}
      /\ \A a \in holders'.exclusive : holders'.exclusive = {a} /\ holders'.shared = {}
      /\ \A t \in Procs : t # self => /\ t \in holders.exclusive => t \in holders'.exclusive
                                      /\ t \in holders.shared => t \in holders'.shared
  <2>1. CASE UNCHANGED holders
    BY <1>1, <2>1
  <2>2. CASE holders' = Released(self)
    <3>1. /\ holders'.shared = holders.shared \ {self}
          /\ holders'.exclusive = holders.exclusive \ {self}
          /\ DOMAIN holders' = {"shared", "exclusive"}
      BY <2>2 DEF Released
    <3> QED  BY <1>1, <3>1
  <2>3. CASE /\ holders.exclusive = {}
             /\ holders' = [holders EXCEPT !.shared = @ \cup {self}]
    <3>1. /\ holders'.shared = holders.shared \cup {self}
          /\ holders'.exclusive = {} /\ DOMAIN holders' = {"shared", "exclusive"}
      BY <1>1, <2>3
    <3> QED  BY <1>1, <2>3, <3>1
  <2>4. CASE holders = NoLocks /\ holders' = [holders EXCEPT !.exclusive = @ \cup {self}]
    <3>1. /\ holders'.shared = {} /\ holders'.exclusive = {self}
          /\ DOMAIN holders' = {"shared", "exclusive"}
          /\ holders.shared = {} /\ holders.exclusive = {}
      BY <1>1, <2>4 DEF NoLocks
    <3> QED  BY <3>1
  <2> QED  BY <2>1, <2>2, <2>3, <2>4 DEF Locks
<1>3. ASSUME NEW t \in Procs
      PROVE  /\ Exclusive(t)' => t \in holders'.exclusive
             /\ Sharing(t)' => t \in holders'.shared
  <2>1. CASE t = self
    BY <2>1 DEF Locked
  <2>2. CASE t # self
    <3>1. process'[t] = process[t]
      BY <2>2 DEF Moves
    <3>2. (Exclusive(t)' => Exclusive(t)) /\ (Sharing(t)' => Sharing(t))
      BY <3>1 DEF Exclusive, Sharing
    <3> QED  BY <1>1, <1>2, <2>2, <3>2
  <2> QED  BY <2>1, <2>2
<1> QED  BY <1>2, <1>3 DEF LockInv

\* With an exclusive holder, nobody else is in a place that needs a lock.
LEMMA OwnerAlone ==
  ASSUME LockInv, NEW self \in Procs, Exclusive(self), NEW t \in Procs, t # self
  PROVE  ~Exclusive(t) /\ ~Sharing(t) /\ ~Viewing(t) /\ ~Rechecking(t)
<1>1. holders.exclusive = {self} /\ holders.shared = {}
  BY DEF LockInv
<1>2. ~Exclusive(t) /\ ~Sharing(t)
  BY <1>1 DEF LockInv
<1> QED  BY <1>2 DEF Exclusive, Sharing, Viewing, Rechecking

\* The parts of ProcessInv that speak of a process and the inodes only.
OwnInv(self) ==
  CommandInv(self) /\ HandleInv(self) /\ SeenInv(self) /\ ReportInv(self)

LEMMA Bystander ==
  ASSUME FileInv, NEW t, OwnInv(t), process'[t] = process[t], Grows
  PROVE  OwnInv(t)'
<1>1. CommandInv(t)' /\ ReportInv(t)'
  BY DEF OwnInv, CommandInv, ReportInv, Kind, HalfInstalled
<1>2. HandleInv(t)'
  <2>1. inodes \in Seq(Inode)
    BY DEF FileInv
  <2>2. CASE process[t].pc = "read"
    <3> DEFINE i == process[t].open.inode
    <3>1. /\ i \in 1 .. Len(inodes) /\ process[t].open.stamp \in Nat
          /\ process[t].open.stamp <= inodes[i].stamp
          /\ process[t].open.stamp = inodes[i].stamp =>
               process[t].open.first = inodes[i].bytes[1]
      BY <2>2 DEF OwnInv, HandleInv
    <3>2. i \in 1 .. Len(inodes') /\ inodes[i] \in Inode /\ inodes'[i] \in Inode
      BY <2>1, <3>1 DEF Grows
    <3>3. /\ inodes[i].stamp <= inodes'[i].stamp
          /\ inodes'[i].stamp = inodes[i].stamp => inodes'[i].bytes = inodes[i].bytes
      BY <3>1 DEF Grows
    <3>4. inodes[i].stamp \in Nat /\ inodes'[i].stamp \in Nat
      BY <3>2 DEF Inode
    <3>5. /\ process[t].open.stamp <= inodes'[i].stamp
          /\ process[t].open.stamp = inodes'[i].stamp =>
               process[t].open.first = inodes'[i].bytes[1]
      BY <3>1, <3>3, <3>4
    <3> QED  BY <3>1, <3>2, <3>5 DEF HandleInv
  <2>3. CASE process[t].pc # "read"
    <3>1. process[t].pc = "open" => process[t].open.inode \in 1 .. Len(inodes)
      BY DEF OwnInv, HandleInv
    <3>2. /\ process'[t].pc # "read"
          /\ process'[t].pc = "open" => process'[t].open.inode \in 1 .. Len(inodes')
      BY <2>1, <2>3, <3>1 DEF Grows
    <3> QED  BY <3>2 DEF HandleInv
  <2> QED  BY <2>2, <2>3
<1>3. SeenInv(t)'
  <2>1. \A p : process[t].snapshot[p].inode \in 0 .. Len(inodes) =>
               process[t].snapshot[p].inode \in 0 .. Len(inodes')
    BY DEF Grows
  <2> QED  BY <2>1 DEF OwnInv, SeenInv
<1> QED  BY <1>1, <1>2, <1>3 DEF OwnInv

LEMMA Unchanged ==
  ASSUME FileInv, UNCHANGED inodes
  PROVE  Grows
<1>1. inodes \in Seq(Inode)
  BY DEF FileInv
<1>2. \A i \in 1 .. Len(inodes) : inodes[i] \in Inode
  BY <1>1
<1>3. \A i \in 1 .. Len(inodes) : inodes[i].stamp \in Nat
  BY <1>2 DEF Inode
<1> QED  BY <1>1, <1>3 DEF Grows

LEMMA ProcessParts ==
  ASSUME NEW t
  PROVE  ProcessInv(t) <=> OwnInv(t) /\ PointInv(t) /\ ViewInv(t) /\ RecheckInv(t)
BY DEF ProcessInv, OwnInv

\* A step that leaves files and transaction alone.
LEMMA QuietStep ==
  ASSUME WInv, NEW self \in Procs, Moves(self), Locks(self), Locked(self)', ProcessInv(self)',
         UNCHANGED <<entry, inodes, writer, tx, created, touched>>
  PROVE  WInv'
<1>1. LockInv'
  BY LocksKept DEF WInv
<1>2. Grows
  BY Unchanged DEF WInv
<1>3. FileInv' /\ TxInv'
  BY DEF WInv, FileInv, TxInv, Targets
<1>4. WriterInv'
  BY DEF WInv, WriterInv, Unfinished, RecordedWriter, Targets
<1>5. CandidateInv' /\ RecordInv'
  BY DEF WInv, CandidateInv, RecordInv, Targets, AsRecorded, Original, Candidate
<1>6. ASSUME NEW t \in Procs
      PROVE  ProcessInv(t)'
  <2>1. CASE t = self
    BY <2>1
  <2>2. CASE t # self
    <3>1. process'[t] = process[t]
      BY <2>2 DEF Moves
    <3>2. OwnInv(t) /\ PointInv(t) /\ ViewInv(t) /\ RecheckInv(t)
      BY ProcessParts DEF WInv
    <3>3. OwnInv(t)'
      BY <1>2, <3>1, <3>2, Bystander DEF WInv
    <3>4. PointInv(t)'
      BY <3>1, <3>2 DEF PointInv, Rechecking
    <3>5. ViewInv(t)'
      BY <3>1, <3>2 DEF ViewInv, Viewing, Unfinished
    <3>6. RecheckInv(t)'
      BY <3>1, <3>2 DEF RecheckInv, Rechecking, IsCurrent
    <3> QED  BY <3>3, <3>4, <3>5, <3>6 DEF ProcessInv, OwnInv
  <2> QED  BY <2>1, <2>2
<1> QED  BY <1>1, <1>3, <1>4, <1>5, <1>6 DEF WInv, Moves

\* A step of the holder of the exclusive lock: nobody else notices.
LEMMA OwnerStep ==
  ASSUME WInv, NEW self \in Procs, Exclusive(self), Moves(self), Locks(self), Locked(self)',
         ProcessInv(self)', Grows, FileInv', TxInv', WriterInv', CandidateInv', RecordInv'
  PROVE  WInv'
<1>1. LockInv'
  BY LocksKept DEF WInv
<1>2. ASSUME NEW t \in Procs
      PROVE  ProcessInv(t)'
  <2>1. CASE t = self
    BY <2>1
  <2>2. CASE t # self
    <3>1. process'[t] = process[t]
      BY <2>2 DEF Moves
    <3>2. OwnInv(t)
      BY ProcessParts DEF WInv
    <3>3. OwnInv(t)'
      BY <3>1, <3>2, Bystander DEF WInv
    <3>4. ~Exclusive(t) /\ ~Viewing(t) /\ ~Rechecking(t)
      BY <2>2, OwnerAlone DEF WInv
    <3>5. PointInv(t)'
      BY <3>1, <3>4 DEF PointInv, Rechecking, Exclusive, Owning
    <3>6. ViewInv(t)' /\ RecheckInv(t)'
      BY <3>1, <3>4 DEF ViewInv, Viewing, RecheckInv, Rechecking
    <3> QED  BY <3>3, <3>5, <3>6 DEF ProcessInv, OwnInv
  <2> QED  BY <2>1, <2>2
<1> QED  BY <1>1, <1>2 DEF WInv, Moves

-----------------------------------------------------------------------------
(***************************************************************************)
(* The states a process can be put into.                                   *)
(***************************************************************************)
\* It is not reading files, and shows nothing or what it had seen.
LEMMA Elsewhere ==
  ASSUME NEW self \in Procs, DOMAIN process'[self] = StateFields,
         process'[self].pc \notin Acquiring,
         \/ process'[self].cmd \in Commands
         \/ process'[self].cmd.kind \in {"none", "complete", "rollback"},
         process'[self].pc = "gate" => process'[self].cmd.kind = "commit",
         \/ process'[self].snapshot = << >>
         \/ SeenInv(self) /\ Grows /\ process'[self].snapshot = process[self].snapshot,
         process'[self].result = "none", PointInv(self)'
  PROVE  ProcessInv(self)'
<1>1. CommandInv(self)' /\ ReportInv(self)'
  BY DEF CommandInv, ReportInv, Kind
<1>2. HandleInv(self)' /\ ViewInv(self)' /\ RecheckInv(self)'
  BY DEF HandleInv, ViewInv, Viewing, RecheckInv, Rechecking, Acquiring
<1>3. SeenInv(self)'
  <2>1. CASE process'[self].snapshot = << >>
    BY <2>1 DEF SeenInv
  <2>2. CASE SeenInv(self) /\ Grows /\ process'[self].snapshot = process[self].snapshot
    <3>1. \A p \in DOMAIN process'[self].snapshot :
            /\ p \in PathSet /\ process'[self].snapshot[p].inode \in 0 .. Len(inodes)
            /\ \/ process'[self].snapshot[p].bytes = << >>
               \/ process'[self].snapshot[p].bytes \in Bytes
            /\ process'[self].snapshot[p].writer \in WriterRecord
      BY <2>2 DEF SeenInv
    <3>2. Len(inodes) <= Len(inodes') /\ inodes' \in Seq(Inode)
      BY <2>2 DEF Grows
    <3>3. \A i : i \in 0 .. Len(inodes) => i \in 0 .. Len(inodes')
      BY <3>2
    <3> QED  BY <3>1, <3>3 DEF SeenInv
  <2> QED  BY <2>1, <2>2
<1> QED  BY <1>1, <1>2, <1>3 DEF ProcessInv

LEMMA Ends ==
  ASSUME DOMAIN process = Procs, NEW self \in Procs, NEW result, NEW warned,
         End(self, result, << >>, warned)
  PROVE  Moves(self) /\ Locks(self) /\ Locked(self)' /\ ProcessInv(self)'
<1> DEFINE state == [Idle EXCEPT !.pc = "done", !.result = result, !.snapshot = << >>,
                                 !.warned = warned]
<1>1. Moves(self) /\ process'[self] = state
  BY SetMoves DEF End
<1>2. /\ state.pc = "done" /\ DOMAIN state = StateFields /\ state.cmd.kind = "none"
      /\ state.snapshot = << >>
  BY DEF Idle, StateFields
<1> HIDE DEF state
<1>3. Locks(self) /\ Locked(self)'
  BY <1>1, <1>2 DEF End, Locks, Locked, Exclusive, Sharing, Owning, Acquiring
<1>4. CommandInv(self)' /\ PointInv(self)' /\ HandleInv(self)'
  BY <1>1, <1>2 DEF CommandInv, Kind, PointInv, Rechecking, HandleInv, Acquiring
<1>5. SeenInv(self)' /\ ViewInv(self)' /\ RecheckInv(self)'
  BY <1>1, <1>2 DEF SeenInv, ViewInv, Viewing, RecheckInv, Rechecking, Acquiring
<1>6. ReportInv(self)'
  BY <1>1, <1>2 DEF ReportInv, HalfInstalled
<1> QED  BY <1>1, <1>3, <1>4, <1>5, <1>6 DEF ProcessInv

LEMMA Refuses ==
  ASSUME DOMAIN process = Procs, NEW self \in Procs, NEW error, Refuse(self, error)
  PROVE  Moves(self) /\ Locks(self) /\ Locked(self)' /\ ProcessInv(self)'
BY Ends DEF Refuse

\* It starts to look at the files.
LEMMA PathsOrdered == Paths \in Seq(PathSet) /\ PathSet = ToSet(Paths)
<1>1. Paths \in Seq(Nat)
  BY WorkspaceAssumption
<1>2. PathSet = {Paths[i] : i \in DOMAIN Paths}
  BY DEF PathSet, ToSet
<1> QED  BY <1>1, <1>2 DEF PathSet

LEMMA Looks ==
  ASSUME DOMAIN process = Procs, NEW self \in Procs, NEW state, NEW use,
         DOMAIN state = StateFields, state.result = "none",
         state.cmd \in Commands \/ state.cmd.kind \in {"none", "complete", "rollback"},
         Set(self, AcquireSnapshot(state, use)),
         use = "locked" => state.cmd.kind = "commit" /\ tx' = NoTx,
         use = "report" /\ ~state.warned => ~Unfinished',
         use \in {"revalidate", "complete"} => tx'.phase = "prepared"
  PROVE  Moves(self) /\ ProcessInv(self)'
         /\ process'[self].pc \in {"acquired", "validate"} /\ process'[self].use = use
         /\ process'[self].warned = state.warned
<1> DEFINE new == AcquireSnapshot(state, use)
<1>1. Moves(self) /\ process'[self] = new
  BY SetMoves
<1>2. /\ DOMAIN new = StateFields /\ new.pc = PathsLeft(Paths) /\ new.use = use
      /\ new.todo = Paths /\ new.snapshot = << >> /\ new.result = "none"
      /\ new.cmd = state.cmd /\ new.warned = state.warned
  BY DEF AcquireSnapshot, StateFields
<1>3. /\ PathsLeft(Paths) \in {"acquired", "validate"}
      /\ PathsLeft(Paths) = "acquired" <=> Paths = << >>
  BY DEF PathsLeft
<1> HIDE DEF new
<1>4. CommandInv(self)' /\ HandleInv(self)' /\ ReportInv(self)'
  BY <1>1, <1>2, <1>3 DEF CommandInv, Kind, HandleInv, ReportInv
<1>5. SeenInv(self)'
  BY <1>1, <1>2, <1>3, PathsOrdered DEF SeenInv, Acquiring
<1>6. ~Unfinished' \/ ~Viewing(self)'
  BY <1>1, <1>2, <1>3 DEF Viewing, Unfinished, NoTx
<1>7. ViewInv(self)' /\ RecheckInv(self)'
  BY <1>1, <1>2, <1>6 DEF ViewInv, RecheckInv
<1>8. PointInv(self)'
  BY <1>1, <1>2, <1>3 DEF PointInv, Rechecking, NoTx
<1> QED  BY <1>1, <1>2, <1>3, <1>4, <1>5, <1>7, <1>8 DEF ProcessInv

-----------------------------------------------------------------------------
(***************************************************************************)
(* Snapshot acquisition.                                                   *)
(***************************************************************************)
Quiet == UNCHANGED <<entry, inodes, writer, tx, created, touched>>

LEMMA EndStep ==
  ASSUME WInv, NEW self \in Procs, NEW result, NEW warned, Quiet,
         End(self, result, << >>, warned)
  PROVE  WInv'
<1>1. DOMAIN process = Procs
  BY DEF WInv
<1>2. Moves(self) /\ Locks(self) /\ Locked(self)' /\ ProcessInv(self)'
  BY <1>1, Ends
<1> QED  BY <1>2, QuietStep DEF Quiet

LEMMA RefuseStep ==
  ASSUME WInv, NEW self \in Procs, NEW error, Quiet, Refuse(self, error)
  PROVE  WInv'
BY EndStep DEF Refuse

LEMMA SnapshotErrorStep ==
  ASSUME WInv, NEW self \in Procs, process[self].pc \in Acquiring, NEW error, Quiet,
         SnapshotError(self, error)
  PROVE  WInv'
<1>1. CASE process[self].use = "revalidate"
  <2> DEFINE state == [process[self] EXCEPT !.pc = "rollback", !.error = error,
                         !.todo = << >>, !.open = NoFile, !.attempt = 1, !.snapshot = << >>]
  <2>1. /\ DOMAIN process = Procs /\ DOMAIN process[self] = StateFields
        /\ \/ process[self].cmd \in Commands
           \/ process[self].cmd.kind \in {"none", "complete", "rollback"}
        /\ process[self].pc # "done" => process[self].result = "none"
        /\ Rechecking(self) => tx.phase = "prepared"
        /\ Exclusive(self) => self \in holders.exclusive
    BY DEF WInv, ProcessInv, CommandInv, ReportInv, PointInv, LockInv
  <2>2. Moves(self) /\ process'[self] = state /\ UNCHANGED holders
    BY <1>1, <2>1, SetMoves DEF SnapshotError
  <2>3. /\ DOMAIN state = StateFields /\ state.pc = "rollback" /\ state.snapshot = << >>
        /\ state.cmd = process[self].cmd /\ state.result = process[self].result
    BY <2>1 DEF StateFields
  <2> HIDE DEF state
  <2>4. Exclusive(self) /\ Rechecking(self)
    BY <1>1 DEF Exclusive, Rechecking
  <2>5. process[self].pc # "done"
    BY DEF Acquiring
  <2>6. PointInv(self)'
    BY <2>1, <2>2, <2>3, <2>4 DEF PointInv, Rechecking, Acquiring, Quiet
  <2>7. ProcessInv(self)'
    BY <2>1, <2>2, <2>3, <2>5, <2>6, Elsewhere DEF Acquiring
  <2>8. Locked(self)' /\ Locks(self)
    BY <2>1, <2>2, <2>3, <2>4 DEF Locked, Locks, Sharing, Acquiring
  <2> QED  BY <2>2, <2>7, <2>8, QuietStep DEF Quiet
<1>2. CASE process[self].use # "revalidate"
  BY <1>2, RefuseStep DEF SnapshotError
<1> QED  BY <1>1, <1>2

\* It stays where it is in the order of the paths, with the lock it has.
LEMMA LookOn ==
  ASSUME WInv, NEW self \in Procs, process[self].pc \in Acquiring, Moves(self),
         DOMAIN process'[self] = StateFields, process'[self].pc \in Acquiring \ {"acquired"},
         process[self].pc # "acquired", UNCHANGED holders, Quiet,
         process'[self].cmd = process[self].cmd, process'[self].use = process[self].use,
         process'[self].todo = process[self].todo,
         process'[self].snapshot = process[self].snapshot,
         process'[self].warned = process[self].warned,
         process'[self].result = process[self].result, HandleInv(self)'
  PROVE  WInv'
<1>1. /\ CommandInv(self) /\ PointInv(self) /\ SeenInv(self) /\ ViewInv(self)
      /\ RecheckInv(self) /\ ReportInv(self)
      /\ Exclusive(self) => self \in holders.exclusive
      /\ Sharing(self) => self \in holders.shared
  BY DEF WInv, ProcessInv, LockInv
<1>2. CommandInv(self)'
  BY <1>1 DEF CommandInv, Kind, Acquiring
<1>3. PointInv(self)'
  BY <1>1 DEF PointInv, Rechecking, Acquiring, Quiet
<1>4. SeenInv(self)'
  BY <1>1 DEF SeenInv, Quiet
<1>5. ViewInv(self)'
  BY <1>1 DEF ViewInv, Viewing, Unfinished, Quiet
<1>6. RecheckInv(self)'
  BY <1>1 DEF RecheckInv, Rechecking, IsCurrent, Quiet
<1>7. ReportInv(self)'
  BY <1>1 DEF ReportInv, HalfInstalled, Acquiring
<1>8. Locked(self)' /\ Locks(self)
  BY <1>1 DEF Locked, Locks, Exclusive, Sharing, Acquiring, Owning
<1>9. ProcessInv(self)'
  BY <1>2, <1>3, <1>4, <1>5, <1>6, <1>7 DEF ProcessInv
<1> QED  BY <1>8, <1>9, QuietStep DEF Quiet

LEMMA UnstableStep ==
  ASSUME WInv, NEW self \in Procs, process[self].pc \in {"open", "read"}, Quiet, Unstable(self)
  PROVE  WInv'
<1>1. process[self].pc \in Acquiring /\ process[self].pc # "acquired"
  BY DEF Acquiring
<1>2. CASE process[self].attempt < MAX_ACQUISITION_ATTEMPTS
  <2> DEFINE state == [process[self] EXCEPT !.pc = "validate", !.open = NoFile,
                                            !.attempt = @ + 1]
  <2>1. DOMAIN process = Procs /\ DOMAIN process[self] = StateFields
    BY DEF WInv, ProcessInv, CommandInv
  <2>2. Moves(self) /\ process'[self] = state /\ UNCHANGED holders
    BY <1>2, <2>1, SetMoves DEF Unstable
  <2>3. /\ DOMAIN state = StateFields /\ state.pc = "validate"
        /\ state.cmd = process[self].cmd /\ state.use = process[self].use
        /\ state.todo = process[self].todo /\ state.snapshot = process[self].snapshot
        /\ state.warned = process[self].warned /\ state.result = process[self].result
    BY <2>1 DEF StateFields
  <2> HIDE DEF state
  <2>4. HandleInv(self)'
    BY <2>2, <2>3 DEF HandleInv
  <2>5. process'[self].pc \in Acquiring \ {"acquired"}
    BY <2>2, <2>3 DEF Acquiring
  <2> QED  BY <1>1, <2>2, <2>3, <2>4, <2>5, LookOn
<1>3. CASE ~(process[self].attempt < MAX_ACQUISITION_ATTEMPTS)
  BY <1>1, <1>3, SnapshotErrorStep DEF Unstable
<1> QED  BY <1>2, <1>3

\* The next path is one of the workspace's.
LEMMA NextPath ==
  ASSUME WInv, NEW self \in Procs, process[self].pc \in Acquiring \ {"acquired"}
  PROVE  /\ process[self].todo \in Seq(PathSet) /\ process[self].todo # << >>
         /\ Head(process[self].todo) \in PathSet
         /\ Tail(process[self].todo) \in Seq(PathSet)
         /\ \A p \in ToSet(process[self].todo) :
              p = Head(process[self].todo) \/ p \in ToSet(Tail(process[self].todo))
<1> DEFINE todo == process[self].todo
<1>1. todo \in Seq(PathSet) /\ todo # << >>
  BY DEF WInv, ProcessInv, SeenInv, Acquiring
<1> HIDE DEF todo
<1>2. Head(todo) \in PathSet /\ Tail(todo) \in Seq(PathSet)
  BY <1>1
<1>3. ASSUME NEW p \in ToSet(todo)
      PROVE  p = Head(todo) \/ p \in ToSet(Tail(todo))
  <2>1. PICK i \in DOMAIN todo : p = todo[i]
    BY DEF ToSet
  <2>2. CASE i = 1
    BY <1>1, <2>1, <2>2
  <2>3. CASE i # 1
    <3>1. i - 1 \in DOMAIN Tail(todo) /\ Tail(todo)[i - 1] = todo[i]
      BY <1>1, <2>3
    <3> QED  BY <2>1, <3>1 DEF ToSet
  <2> QED  BY <2>2, <2>3
<1> QED  BY <1>1, <1>2, <1>3 DEF todo

\* What is known of an entry.
LEMMA EntryKinds ==
  ASSUME FileInv, NEW p \in PathSet
  PROVE  /\ entry[p] \in Entries(Len(inodes))
         /\ entry[p].kind = "absent" => entry[p] = Absent
         /\ entry[p].kind = "file" => /\ entry[p] = File(entry[p].inode)
                                      /\ entry[p].inode \in 1 .. Len(inodes)
<1>1. entry[p] \in Entries(Len(inodes))
  BY DEF FileInv
<1> QED  BY <1>1 DEF Entries, Absent, Symlink, Special, File

LEMMA FileNamed ==
  ASSUME FileInv, NEW p \in PathSet, NEW i, entry[p] = File(i)
  PROVE  i \in 1 .. Len(inodes)
<1>1. entry[p].kind = "file" /\ entry[p].inode = i
  BY DEF File
<1> QED  BY <1>1, EntryKinds

\* A file is whole.
LEMMA WholeBytes ==
  ASSUME NEW b \in Bytes
  PROVE  b = <<b[1], b[2]>> /\ b[1] = b[2] /\ b # << >>
<1>1. PICK value : b = Whole(value)
  <2>1. CASE b \in {Whole(value) : value \in EditedTo \cup ToSet(Contents)}
    BY <2>1
  <2>2. CASE b \in UNION {{cmd.batch.result[p] : p \in ToSet(cmd.batch.targets)} :
                             cmd \in CommitCommands}
    <3>1. PICK cmd \in CommitCommands : b \in {cmd.batch.result[p] : p \in ToSet(cmd.batch.targets)}
      BY <2>2
    <3>2. PICK p \in ToSet(cmd.batch.targets) : b = cmd.batch.result[p]
      BY <3>1
    <3> QED  BY <3>2, WorkspaceAssumption DEF CommitCommands
  <2> QED  BY <2>1, <2>2 DEF Bytes
<1> QED  BY <1>1 DEF Whole

LEMMA ObserveStep ==
  ASSUME WInv, NEW self \in Procs, process[self].pc \in Acquiring \ {"acquired"},
         NEW inode \in 0 .. Len(inodes), NEW bytes, bytes = << >> \/ bytes \in Bytes,
         Observe(self, Head(process[self].todo), inode, bytes),
         IF inode = 0 THEN entry[Head(process[self].todo)] = Absent /\ bytes = << >>
         ELSE /\ entry[Head(process[self].todo)] = File(inode)
              /\ inodes[inode].bytes = bytes,
         UNCHANGED <<entry, inodes, writer, tx, created>>
  PROVE  WInv'
<1> DEFINE p == Head(process[self].todo)
           rest == Tail(process[self].todo)
           before == process[self].snapshot
           seen == [inode |-> inode, bytes |-> bytes, writer |-> writer[p]]
           now == [q \in DOMAIN before \cup {p} |-> IF q = p THEN seen ELSE before[q]]
           state == [process[self] EXCEPT !.todo = rest, !.attempt = 1, !.open = NoFile,
                                          !.snapshot = now, !.pc = PathsLeft(rest)]
<1>1. /\ FileInv /\ LockInv /\ TxInv /\ WriterInv /\ CandidateInv /\ RecordInv
      /\ CommandInv(self) /\ PointInv(self) /\ SeenInv(self) /\ ViewInv(self)
      /\ RecheckInv(self) /\ ReportInv(self)
      /\ DOMAIN process = Procs /\ DOMAIN process[self] = StateFields
  BY DEF WInv, ProcessInv, CommandInv
<1>2. /\ p \in PathSet /\ rest \in Seq(PathSet) /\ process[self].todo \in Seq(PathSet)
      /\ \A q \in ToSet(process[self].todo) : q = p \/ q \in ToSet(rest)
  BY NextPath
<1>3. /\ Moves(self) /\ process'[self] = state /\ UNCHANGED holders
      /\ touched' = IF process[self].use \in {"revalidate", "complete"}
                    THEN touched \ {p} ELSE touched
  BY <1>1, SetMoves DEF Observe
<1>4. /\ DOMAIN state = StateFields /\ state.pc = PathsLeft(rest) /\ state.todo = rest
      /\ state.cmd = process[self].cmd /\ state.use = process[self].use
      /\ state.warned = process[self].warned /\ state.result = process[self].result
      /\ state.snapshot = now
  BY <1>1 DEF StateFields
<1>5. /\ DOMAIN now = DOMAIN before \cup {p} /\ now[p] = seen
      /\ \A q \in DOMAIN now : q # p => q \in DOMAIN before /\ now[q] = before[q]
  OBVIOUS
<1>6. /\ PathsLeft(rest) \in {"acquired", "validate"}
      /\ PathsLeft(rest) = "acquired" <=> rest = << >>
      /\ PathsLeft(rest) \in Acquiring
  BY DEF PathsLeft, Acquiring
<1>7. /\ seen.inode = inode /\ seen.bytes = bytes /\ seen.writer = writer[p]
      /\ writer[p] \in WriterRecord /\ writer[p].tx <= created
  BY <1>1, <1>2 DEF FileInv
<1>8. IsCurrent(p, seen)
  BY <1>7 DEF IsCurrent
<1> HIDE DEF state, now, seen
<1>9. CommandInv(self)' /\ HandleInv(self)' /\ PointInv(self)'
  <2>1. CommandInv(self)' /\ HandleInv(self)'
    BY <1>1, <1>3, <1>4, <1>6 DEF CommandInv, Kind, HandleInv, Acquiring
  <2>2. PointInv(self)'
    BY <1>1, <1>3, <1>4, <1>6 DEF PointInv, Rechecking, Acquiring
  <2> QED  BY <2>1, <2>2
<1>10. ReportInv(self)'
  BY <1>1, <1>3, <1>4, <1>6 DEF ReportInv, HalfInstalled, Acquiring
<1>11. SeenInv(self)'
  <2>1. ASSUME NEW q \in DOMAIN now
        PROVE  /\ q \in PathSet /\ now[q].inode \in 0 .. Len(inodes)
               /\ now[q].bytes = << >> \/ now[q].bytes \in Bytes
               /\ now[q].writer \in WriterRecord
    <3>1. CASE q = p
      BY <1>2, <1>5, <1>7, <3>1
    <3>2. CASE q # p
      BY <1>1, <1>5, <3>2 DEF SeenInv
    <3> QED  BY <3>1, <3>2
  <2>2. \A q \in PathSet : q \in DOMAIN now \/ q \in ToSet(rest)
    BY <1>1, <1>2, <1>5 DEF SeenInv, Acquiring
  <2> QED  BY <1>2, <1>3, <1>4, <1>6, <2>1, <2>2 DEF SeenInv
<1>12. ViewInv(self)'
  <2>1. CASE ~Viewing(self)
    BY <1>3, <1>4, <2>1 DEF ViewInv, Viewing, Acquiring
  <2>2. CASE Viewing(self)
    <3>1. /\ ~Unfinished
          /\ \A q \in DOMAIN before : /\ ~before[q].writer.hole
                                      /\ writer[q] \in {User, before[q].writer}
                                      /\ before[q].writer.tx <= created
          /\ \A q, r \in DOMAIN before : Agree(before[q].writer, before[r].writer, r)
          /\ \A q \in PathSet, r \in DOMAIN before :
               Agree(writer[q], before[r].writer, r) /\ Agree(before[r].writer, writer[q], q)
      BY <1>1, <2>2 DEF ViewInv
    <3>2. /\ \A q \in PathSet : ~writer[q].hole
          /\ \A q, r \in PathSet : Agree(writer[q], writer[r], r)
      BY <1>1, <3>1 DEF WriterInv
    <3>3. \A q \in DOMAIN now : /\ ~now[q].writer.hole
                                /\ writer[q] \in {User, now[q].writer}
                                /\ now[q].writer.tx <= created
      BY <1>2, <1>5, <1>7, <3>1, <3>2
    <3>4. ASSUME NEW q \in DOMAIN now, NEW r \in DOMAIN now
          PROVE  Agree(now[q].writer, now[r].writer, r)
      <4>1. CASE q = p /\ r = p
        BY <1>2, <1>5, <1>7, <3>2, <4>1
      <4>2. CASE q = p /\ r # p
        BY <1>2, <1>5, <1>7, <3>1, <4>2
      <4>3. CASE q # p /\ r = p
        BY <1>2, <1>5, <1>7, <3>1, <4>3
      <4>4. CASE q # p /\ r # p
        BY <1>5, <3>1, <4>4
      <4> QED  BY <4>1, <4>2, <4>3, <4>4
    <3>5. ASSUME NEW q \in PathSet, NEW r \in DOMAIN now
          PROVE  Agree(writer[q], now[r].writer, r) /\ Agree(now[r].writer, writer[q], q)
      BY <1>2, <1>5, <1>7, <3>1, <3>2
    <3>6. process'[self].snapshot = now /\ ~Unfinished'
      BY <1>3, <1>4, <3>1 DEF Unfinished
    <3> QED  BY <3>3, <3>4, <3>5, <3>6 DEF ViewInv
  <2> QED  BY <2>1, <2>2
<1>13. RecheckInv(self)'
  <2>1. CASE ~Rechecking(self)
    BY <1>3, <1>4, <2>1 DEF RecheckInv, Rechecking, Acquiring
  <2>2. CASE Rechecking(self)
    <3>1. touched' = touched \ {p}
      BY <1>3, <2>2 DEF Rechecking
    <3>2. ASSUME NEW q \in DOMAIN now, q \notin touched'
          PROVE  IsCurrent(q, now[q])
      BY <1>1, <1>5, <1>8, <2>2, <3>1, <3>2 DEF RecheckInv
    <3>3. \A q, s : IsCurrent(q, s) => IsCurrent(q, s)'
      BY DEF IsCurrent
    <3>4. process'[self].snapshot = now
      BY <1>3, <1>4
    <3> QED  BY <3>2, <3>3, <3>4 DEF RecheckInv
  <2> QED  BY <2>1, <2>2
<1>14. ProcessInv(self)'
  BY <1>9, <1>10, <1>11, <1>12, <1>13 DEF ProcessInv
<1>15. Locks(self) /\ Locked(self)'
  BY <1>1, <1>3, <1>4, <1>6 DEF Locks, Locked, LockInv, Exclusive, Sharing, Acquiring, Owning
<1>16. CASE process[self].use \in {"revalidate", "complete"}
  <2>1. Exclusive(self) /\ Rechecking(self)
    BY <1>16 DEF Exclusive, Rechecking
  <2>2. tx.phase = "prepared" /\ UNCHANGED tx
    BY <1>1, <2>1 DEF PointInv
  <2>3. Grows
    BY <1>1, Unchanged
  <2>4. FileInv' /\ TxInv'
    BY <1>1 DEF FileInv, TxInv, Targets
  <2>5. WriterInv'
    BY <1>1 DEF WriterInv, Unfinished, RecordedWriter, Targets
  <2>6. CandidateInv' /\ RecordInv'
    BY <1>1, <2>2 DEF CandidateInv, RecordInv, Targets
  <2> QED  BY <1>3, <1>14, <1>15, <2>1, <2>3, <2>4, <2>5, <2>6, OwnerStep
<1>17. CASE process[self].use \notin {"revalidate", "complete"}
  <2>1. UNCHANGED touched
    BY <1>3, <1>17
  <2> QED  BY <1>3, <1>14, <1>15, <2>1, QuietStep
<1> QED  BY <1>16, <1>17

LEMMA ValidatePath ==
  ASSUME WInv, NEW self \in Procs, validate_path(self)
  PROVE  WInv'
<1> DEFINE p == Head(process[self].todo)
<1>1. /\ process[self].pc = "validate" /\ process[self].pc \in Acquiring \ {"acquired"}
      /\ UNCHANGED <<entry, inodes, writer, tx, created>>
  BY DEF validate_path, At, Acquiring, Budgets
<1>2. FileInv /\ p \in PathSet /\ DOMAIN process = Procs /\ DOMAIN process[self] = StateFields
  BY <1>1, NextPath DEF WInv, ProcessInv, CommandInv
<1>3. CASE \E error : SnapshotError(self, error) /\ UNCHANGED touched
  BY <1>1, <1>3, SnapshotErrorStep DEF Quiet
<1>4. CASE entry[p].kind = "absent" /\ Observe(self, p, 0, << >>)
  <2>1. entry[p] = Absent
    BY <1>2, <1>4, EntryKinds
  <2>2. 0 \in 0 .. Len(inodes)
    BY <1>2 DEF FileInv
  <2> QED  BY <1>1, <1>4, <2>1, <2>2, ObserveStep
<1>5. CASE /\ entry[p].kind = "file" /\ UNCHANGED <<holders, touched>>
           /\ Set(self, [process[self] EXCEPT
                           !.pc = "open", !.open = [NoFile EXCEPT !.inode = entry[p].inode]])
  <2> DEFINE state == [process[self] EXCEPT
                         !.pc = "open", !.open = [NoFile EXCEPT !.inode = entry[p].inode]]
  <2>1. Moves(self) /\ process'[self] = state
    BY <1>2, <1>5, SetMoves
  <2>2. /\ DOMAIN state = StateFields /\ state.pc = "open"
        /\ state.cmd = process[self].cmd /\ state.use = process[self].use
        /\ state.todo = process[self].todo /\ state.snapshot = process[self].snapshot
        /\ state.warned = process[self].warned /\ state.result = process[self].result
        /\ state.open.inode = entry[p].inode
    BY <1>2 DEF StateFields, NoFile
  <2> HIDE DEF state
  <2>3. entry[p].inode \in 1 .. Len(inodes)
    BY <1>2, <1>5, EntryKinds
  <2>4. HandleInv(self)'
    BY <1>1, <2>1, <2>2, <2>3 DEF HandleInv
  <2>5. process'[self].pc \in Acquiring \ {"acquired"}
    BY <2>1, <2>2 DEF Acquiring
  <2> QED  BY <1>1, <1>5, <2>1, <2>2, <2>4, <2>5, LookOn DEF Quiet
<1> QED  BY <1>3, <1>4, <1>5 DEF validate_path

LEMMA OpenSnapshotFile ==
  ASSUME WInv, NEW self \in Procs, open_snapshot_file(self)
  PROVE  WInv'
<1> DEFINE p == Head(process[self].todo)
           i == process[self].open.inode
<1>1. /\ process[self].pc = "open" /\ process[self].pc \in Acquiring \ {"acquired"} /\ Quiet
  BY DEF open_snapshot_file, At, Acquiring, Budgets, Files, Quiet
<1>2. CASE Unstable(self)
  BY <1>1, <1>2, UnstableStep
<1>3. CASE /\ entry[p] = File(i) /\ UNCHANGED holders
           /\ Set(self, [process[self] EXCEPT
                           !.pc = "read",
                           !.open = [inode |-> i, stamp |-> inodes[i].stamp,
                                     first |-> inodes[i].bytes[1]]])
  <2> DEFINE state == [process[self] EXCEPT
                         !.pc = "read",
                         !.open = [inode |-> i, stamp |-> inodes[i].stamp,
                                   first |-> inodes[i].bytes[1]]]
  <2>1. FileInv /\ p \in PathSet /\ DOMAIN process = Procs /\ DOMAIN process[self] = StateFields
    BY <1>1, NextPath DEF WInv, ProcessInv, CommandInv
  <2>2. Moves(self) /\ process'[self] = state
    BY <1>3, <2>1, SetMoves
  <2>3. /\ DOMAIN state = StateFields /\ state.pc = "read"
        /\ state.cmd = process[self].cmd /\ state.use = process[self].use
        /\ state.todo = process[self].todo /\ state.snapshot = process[self].snapshot
        /\ state.warned = process[self].warned /\ state.result = process[self].result
        /\ state.open.inode = i /\ state.open.stamp = inodes[i].stamp
        /\ state.open.first = inodes[i].bytes[1]
    BY <2>1 DEF StateFields
  <2> HIDE DEF state
  <2>4. i \in 1 .. Len(inodes) /\ inodes[i] \in Inode
    BY <1>3, <2>1, FileNamed DEF FileInv
  <2>5. inodes[i].stamp \in Nat
    BY <2>4 DEF Inode
  <2>6. HandleInv(self)'
    BY <1>1, <2>2, <2>3, <2>4, <2>5 DEF HandleInv, Quiet
  <2>7. process'[self].pc \in Acquiring \ {"acquired"}
    BY <2>2, <2>3 DEF Acquiring
  <2> QED  BY <1>1, <1>3, <2>2, <2>3, <2>6, <2>7, LookOn
<1> QED  BY <1>2, <1>3 DEF open_snapshot_file

LEMMA AcquireExisting ==
  ASSUME WInv, NEW self \in Procs, acquire_existing_attempt(self)
  PROVE  WInv'
<1> DEFINE p == Head(process[self].todo)
           open == process[self].open
           i == open.inode
           bytes == <<open.first, inodes[open.inode].bytes[2]>>
<1>1. /\ process[self].pc = "read" /\ process[self].pc \in Acquiring \ {"acquired"}
      /\ UNCHANGED <<entry, inodes, writer, tx, created>>
  BY DEF acquire_existing_attempt, At, Acquiring, Budgets
<1>2. CASE Unstable(self) /\ UNCHANGED touched
  BY <1>1, <1>2, UnstableStep DEF Quiet
<1>3. CASE \E error : SnapshotError(self, error) /\ UNCHANGED touched
  BY <1>1, <1>3, SnapshotErrorStep DEF Quiet
<1>4. CASE Stable(p, open) /\ Observe(self, p, i, bytes)
  <2>1. FileInv /\ p \in PathSet /\ HandleInv(self)
    BY <1>1, NextPath DEF WInv, ProcessInv
  <2>2. inodes[i].stamp = open.stamp /\ entry[p] = File(i)
    BY <1>4 DEF Stable
  <2>3. i \in 1 .. Len(inodes) /\ inodes[i] \in Inode
    BY <2>1, <2>2, FileNamed DEF FileInv
  <2>4. inodes[i].bytes \in Bytes
    BY <2>3 DEF Inode
  <2>5. open.first = inodes[i].bytes[1]
    BY <1>1, <2>1, <2>2 DEF HandleInv
  <2>6. bytes = inodes[i].bytes
    BY <2>4, <2>5, WholeBytes
  <2>7. i \in 0 .. Len(inodes) /\ i # 0
    BY <2>1, <2>3 DEF FileInv
  <2> HIDE DEF bytes
  <2> QED  BY <1>1, <1>4, <2>2, <2>4, <2>6, <2>7, ObserveStep
<1> QED  BY <1>2, <1>3, <1>4 DEF acquire_existing_attempt

-----------------------------------------------------------------------------
(***************************************************************************)
(* Locks, and what leads to the transaction.                               *)
(***************************************************************************)
LEMMA CommandFacts ==
  ASSUME WInv, NEW self \in Procs
  PROVE  /\ DOMAIN process = Procs /\ DOMAIN process[self] = StateFields
         /\ \/ process[self].cmd \in Commands
            \/ process[self].cmd.kind \in {"none", "complete", "rollback"}
         /\ process[self].pc # "done" => process[self].result = "none"
         /\ Exclusive(self) => self \in holders.exclusive
         /\ Sharing(self) => self \in holders.shared
         /\ SeenInv(self) /\ PointInv(self)
BY DEF WInv, ProcessInv, CommandInv, ReportInv, LockInv

LEMMA GoToState ==
  ASSUME WInv, NEW self \in Procs, NEW pc, GoTo(self, pc), process[self].pc # "done",
         pc \notin Acquiring, pc # "gate" \/ process[self].cmd.kind = "commit",
         Grows, PointInv(self)'
  PROVE  ProcessInv(self)' /\ Moves(self) /\ process'[self].pc = pc
         /\ process'[self].use = process[self].use
<1>1. /\ DOMAIN process = Procs /\ DOMAIN process[self] = StateFields /\ SeenInv(self)
      /\ \/ process[self].cmd \in Commands
         \/ process[self].cmd.kind \in {"none", "complete", "rollback"}
      /\ process[self].pc # "done" => process[self].result = "none"
  BY DEF WInv, ProcessInv, CommandInv, ReportInv
<1>2. /\ Moves(self) /\ DOMAIN process'[self] = StateFields /\ process'[self].pc = pc
      /\ process'[self].cmd = process[self].cmd /\ process'[self].use = process[self].use
      /\ process'[self].snapshot = process[self].snapshot
      /\ process'[self].result = process[self].result
  BY <1>1, GoToMoves
<1>3. ProcessInv(self)'
  BY <1>1, <1>2, Elsewhere
<1> QED  BY <1>2, <1>3

\* A move between places that say nothing about the transaction.
LEMMA WalkStep ==
  ASSUME WInv, NEW self \in Procs, NEW pc \in {"share", "scan", "create", "exclude", "gate", "recover"},
         GoTo(self, pc), process[self].pc # "done",
         pc # "gate" \/ process[self].cmd.kind = "commit", Quiet, Locks(self),
         pc = "scan" => self \in holders'.shared,
         pc \in {"gate", "recover"} => self \in holders'.exclusive
  PROVE  WInv'
<1>1. Grows
  BY Unchanged DEF WInv, Quiet
<1>2. process'[self].pc = pc
  BY CommandFacts, GoToMoves
<1>3. PointInv(self)'
  BY <1>2 DEF PointInv, Rechecking, Acquiring
<1>4. ProcessInv(self)' /\ Moves(self)
  BY <1>1, <1>3, GoToState DEF Acquiring
<1>5. Locked(self)'
  BY <1>2 DEF Locked, Exclusive, Sharing, Acquiring, Owning
<1> QED  BY <1>4, <1>5, QuietStep DEF Quiet

LEMMA DiagnosticLock ==
  ASSUME WInv, NEW self \in Procs, diagnostic_lock(self)
  PROVE  WInv'
<1>1. process[self].pc = "diagnose" /\ Quiet
  BY DEF diagnostic_lock, At, Quiet, Files, Budgets
<1>2. CASE \E error : Refuse(self, error)
  BY <1>1, <1>2, RefuseStep
<1>3. CASE \E result, warned : End(self, result, << >>, warned)
  BY <1>1, <1>3, EndStep
<1>4. CASE /\ Set(self, AcquireSnapshot([process[self] EXCEPT !.warned = TRUE], "report"))
           /\ UNCHANGED holders
  <2> DEFINE state == [process[self] EXCEPT !.warned = TRUE]
  <2>1. DOMAIN process = Procs /\ DOMAIN process[self] = StateFields
    BY CommandFacts
  <2>2. /\ DOMAIN state = StateFields /\ state.warned = TRUE /\ state.cmd = process[self].cmd
        /\ state.result = process[self].result
    BY <2>1 DEF StateFields
  <2>3. state.result = "none"
    BY <1>1, <2>2, CommandFacts
  <2>4. state.cmd \in Commands \/ state.cmd.kind \in {"none", "complete", "rollback"}
    BY <2>2, CommandFacts
  <2>5. Set(self, AcquireSnapshot(state, "report"))
    BY <1>4
  <2> HIDE DEF state
  <2>6. /\ Moves(self) /\ ProcessInv(self)' /\ process'[self].use = "report"
        /\ process'[self].pc \in {"acquired", "validate"} /\ process'[self].warned = TRUE
    BY <2>1, <2>2, <2>3, <2>4, <2>5, Looks
  <2>7. Locks(self) /\ Locked(self)'
    BY <1>4, <2>6 DEF Locks, Locked, Exclusive, Sharing, Owning, Acquiring
  <2> QED  BY <1>1, <2>6, <2>7, QuietStep DEF Quiet
<1>5. CASE GoTo(self, "share") /\ UNCHANGED holders
  BY <1>1, <1>5, WalkStep DEF Locks
<1> QED  BY <1>2, <1>3, <1>4, <1>5 DEF diagnostic_lock

LEMMA Share ==
  ASSUME WInv, NEW self \in Procs, share(self)
  PROVE  WInv'
<1>1. process[self].pc = "share" /\ Quiet
  BY DEF share, At, Quiet, Files, Budgets
<1>2. CASE Refuse(self, "TransactionBusy")
  BY <1>1, <1>2, RefuseStep
<1>3. CASE /\ try_flock(FALSE) /\ GoTo(self, "scan")
           /\ holders' = [holders EXCEPT !.shared = @ \cup {self}]
  <2>1. DOMAIN holders = {"shared", "exclusive"}
    BY DEF WInv, LockInv
  <2>2. Locks(self) /\ self \in holders'.shared
    BY <1>3, <2>1 DEF Locks, try_flock
  <2> QED  BY <1>1, <1>3, <2>2, WalkStep
<1> QED  BY <1>2, <1>3 DEF share

LEMMA DiagnosticContext ==
  ASSUME WInv, NEW self \in Procs, diagnostic_context(self)
  PROVE  WInv'
<1>1. process[self].pc = "scan" /\ Quiet
  BY DEF diagnostic_context, At, Quiet, Files, Budgets
<1>2. CASE \E error : Refuse(self, error)
  BY <1>1, <1>2, RefuseStep
<1>3. CASE \E result, warned : End(self, result, << >>, warned)
  BY <1>1, <1>3, EndStep
<1>4. CASE /\ ~Unfinished /\ Set(self, AcquireSnapshot(process[self], "report"))
           /\ UNCHANGED holders
  <2>1. ~Unfinished'
    BY <1>1, <1>4 DEF Unfinished, Quiet
  <2>2. process[self].result = "none"
    BY <1>1, CommandFacts
  <2>3. /\ Moves(self) /\ ProcessInv(self)' /\ process'[self].use = "report"
        /\ process'[self].pc \in {"acquired", "validate"}
        /\ process'[self].warned = process[self].warned
    BY <1>4, <2>1, <2>2, CommandFacts, Looks
  <2>4. self \in holders.shared
    BY <1>1, CommandFacts DEF Sharing
  <2>5. Locks(self) /\ Locked(self)'
    BY <1>4, <2>3, <2>4 DEF Locks, Locked, Exclusive, Sharing, Owning, Acquiring
  <2> QED  BY <1>1, <2>3, <2>5, QuietStep DEF Quiet
<1>5. CASE GoTo(self, "exclude") /\ holders' = Released(self)
  BY <1>1, <1>5, WalkStep DEF Locks
<1> QED  BY <1>2, <1>3, <1>4, <1>5 DEF diagnostic_context

LEMMA CreateControlTree ==
  ASSUME WInv, NEW self \in Procs, create_or_validate_control_tree(self)
  PROVE  WInv'
<1>1. /\ process[self].pc = "create" /\ Quiet /\ UNCHANGED holders
      /\ GoTo(self, "exclude") \/ GoTo(self, "create")
  BY DEF create_or_validate_control_tree, At, Quiet, Files, Budgets
<1> QED  BY <1>1, WalkStep DEF Locks

LEMMA MutationLock ==
  ASSUME WInv, NEW self \in Procs, mutation_lock(self)
  PROVE  WInv'
<1>1. process[self].pc = "exclude" /\ Quiet
  BY DEF mutation_lock, At, Quiet, Files, Budgets
<1>2. CASE Refuse(self, "TransactionBusy")
  BY <1>1, <1>2, RefuseStep
<1>3. CASE /\ try_flock(TRUE) /\ holders' = [holders EXCEPT !.exclusive = @ \cup {self}]
           /\ GoTo(self, IF Kind(self) = "commit" THEN "gate" ELSE "recover")
  <2>1. DOMAIN holders = {"shared", "exclusive"}
    BY DEF WInv, LockInv
  <2>2. Locks(self) /\ self \in holders'.exclusive
    BY <1>3, <2>1 DEF Locks, try_flock
  <2>3. CASE Kind(self) = "commit"
    BY <1>1, <1>3, <2>2, <2>3, WalkStep DEF Kind
  <2>4. CASE Kind(self) # "commit"
    BY <1>1, <1>3, <2>2, <2>4, WalkStep
  <2> QED  BY <2>3, <2>4
<1> QED  BY <1>2, <1>3 DEF mutation_lock

\* Nothing is pending, and the files agree on it.
Settled ==
  /\ \A p \in PathSet : ~writer[p].hole
  /\ \A p, q \in PathSet : Agree(writer[p], writer[q], q)

LEMMA NoTransaction ==
  ASSUME FileInv, Settled, tx' = NoTx, UNCHANGED Files, UNCHANGED created
  PROVE  FileInv' /\ TxInv' /\ WriterInv' /\ CandidateInv' /\ RecordInv' /\ Grows
<1>1. UNCHANGED <<entry, inodes, writer, touched>>
  BY DEF Files
<1>2. tx'.phase = "none"
  BY DEF NoTx
<1>3. FileInv' /\ TxInv'
  BY <1>1 DEF FileInv, TxInv
<1>4. WriterInv'
  BY <1>1, <1>2 DEF WriterInv, Unfinished, Settled
<1>5. CandidateInv' /\ RecordInv'
  BY <1>2 DEF CandidateInv, RecordInv
<1> QED  BY <1>1, <1>3, <1>4, <1>5, Unchanged

LEMMA GateNewTransaction ==
  ASSUME WInv, NEW self \in Procs, gate_new_transaction(self)
  PROVE  WInv'
<1>1. process[self].pc = "gate" /\ UNCHANGED Files /\ UNCHANGED created
  BY DEF gate_new_transaction, At, Budgets
<1>2. CASE Refuse(self, "TransactionRecoveryRequired") /\ UNCHANGED tx
  BY <1>1, <1>2, RefuseStep DEF Quiet, Files
<1>3. CASE /\ ~Unfinished /\ tx' = NoTx /\ UNCHANGED holders
           /\ Set(self, AcquireSnapshot(process[self], "locked"))
  <2>1. Settled /\ FileInv /\ Exclusive(self)
    BY <1>1, <1>3 DEF WInv, WriterInv, Settled, Exclusive, Owning
  <2>2. FileInv' /\ TxInv' /\ WriterInv' /\ CandidateInv' /\ RecordInv' /\ Grows
    BY <1>1, <1>3, <2>1, NoTransaction
  <2>3. process[self].result = "none" /\ process[self].cmd.kind = "commit"
    BY <1>1 DEF WInv, ProcessInv, CommandInv, ReportInv, Kind
  <2>4. /\ Moves(self) /\ ProcessInv(self)' /\ process'[self].use = "locked"
        /\ process'[self].pc \in {"acquired", "validate"}
    BY <1>3, <2>3, CommandFacts, Looks
  <2>5. self \in holders.exclusive
    BY <2>1, CommandFacts
  <2>6. Locks(self) /\ Locked(self)'
    BY <1>3, <2>4, <2>5 DEF Locks, Locked, Sharing
  <2> QED  BY <2>1, <2>2, <2>4, <2>6, OwnerStep
<1> QED  BY <1>2, <1>3 DEF gate_new_transaction

LEMMA Report ==
  ASSUME WInv, NEW self \in Procs, report(self)
  PROVE  WInv'
<1> DEFINE seen == process[self].snapshot
           state == [Idle EXCEPT !.pc = "done", !.result = "reported", !.snapshot = seen,
                                 !.warned = process[self].warned]
<1>1. /\ process[self].pc = "acquired" /\ process[self].use = "report" /\ Quiet
      /\ Set(self, state) /\ holders' = Released(self)
  BY DEF report, At, End, Quiet, Files, Budgets
<1>2. Moves(self) /\ process'[self] = state
  BY <1>1, CommandFacts, SetMoves
<1>3. /\ state.pc = "done" /\ DOMAIN state = StateFields /\ state.cmd.kind = "none"
      /\ state.snapshot = seen /\ state.warned = process[self].warned
  BY DEF Idle, StateFields
<1> HIDE DEF state
<1>4. Locks(self) /\ Locked(self)'
  BY <1>1, <1>2, <1>3 DEF Locks, Locked, Exclusive, Sharing, Owning, Acquiring
<1>5. CommandInv(self)' /\ PointInv(self)' /\ HandleInv(self)'
  BY <1>2, <1>3 DEF CommandInv, Kind, PointInv, Rechecking, HandleInv, Acquiring
<1>6. SeenInv(self)'
  BY <1>1, <1>2, <1>3, CommandFacts DEF SeenInv, Acquiring, Quiet
<1>7. ViewInv(self)' /\ RecheckInv(self)'
  BY <1>2, <1>3 DEF ViewInv, Viewing, RecheckInv, Rechecking, Acquiring
<1>8. ReportInv(self)'
  <2>1. ASSUME ~process[self].warned
        PROVE  ~HalfInstalled(seen)
    <3>1. /\ \A p \in DOMAIN seen : ~seen[p].writer.hole
          /\ \A p, q \in DOMAIN seen : Agree(seen[p].writer, seen[q].writer, q)
      BY <1>1, <2>1 DEF WInv, ProcessInv, ViewInv, Viewing, Acquiring
    <3> QED  BY <3>1 DEF HalfInstalled, Agree
  <2>2. \A s : HalfInstalled(s)' <=> HalfInstalled(s)
    BY DEF HalfInstalled
  <2>3. process'[self].snapshot = seen /\ process'[self].warned = process[self].warned
    BY <1>2, <1>3
  <2> QED  BY <1>2, <1>3, <2>1, <2>2, <2>3 DEF ReportInv
<1>9. ProcessInv(self)'
  BY <1>5, <1>6, <1>7, <1>8 DEF ProcessInv
<1> QED  BY <1>1, <1>2, <1>4, <1>9, QuietStep DEF Quiet

LEMMA PrelockPlan ==
  ASSUME WInv, NEW self \in Procs, prelock_plan(self)
  PROVE  WInv'
<1> DEFINE digest == PlanDigest(process[self].snapshot)
<1>1. process[self].pc = "acquired" /\ process[self].use = "prelock" /\ Quiet
  BY DEF prelock_plan, At, Quiet, Files, Budgets
<1>2. CASE Refuse(self, "ExpectedPlanMismatch")
  BY <1>1, <1>2, RefuseStep
<1>3. ASSUME NEW pc \in {"diagnose", "create"}, UNCHANGED holders,
             Set(self, [process[self] EXCEPT !.pc = pc, !.use = "none", !.prelock = digest,
                                             !.snapshot = << >>])
      PROVE  WInv'
  <2> DEFINE state == [process[self] EXCEPT !.pc = pc, !.use = "none", !.prelock = digest,
                                            !.snapshot = << >>]
  <2>1. Moves(self) /\ process'[self] = state
    BY <1>3, CommandFacts, SetMoves
  <2>2. /\ DOMAIN state = StateFields /\ state.pc = pc /\ state.snapshot = << >>
        /\ state.cmd = process[self].cmd /\ state.result = process[self].result
    BY CommandFacts DEF StateFields
  <2> HIDE DEF state
  <2>3. PointInv(self)'
    BY <2>1, <2>2 DEF PointInv, Rechecking, Acquiring
  <2>4. ProcessInv(self)'
    BY <1>1, <2>1, <2>2, <2>3, CommandFacts, Elsewhere DEF Acquiring
  <2>5. Locks(self) /\ Locked(self)'
    BY <1>3, <2>1, <2>2 DEF Locks, Locked, Exclusive, Sharing, Owning, Acquiring
  <2> QED  BY <1>1, <2>1, <2>4, <2>5, QuietStep DEF Quiet
<1>4. CASE /\ UNCHANGED holders
           /\ Set(self, [process[self] EXCEPT
                           !.pc = IF Batch(self).targets = << >> THEN "diagnose" ELSE "create",
                           !.use = "none", !.prelock = digest, !.snapshot = << >>])
  <2> DEFINE pc == IF Batch(self).targets = << >> THEN "diagnose" ELSE "create"
  <2>1. pc \in {"diagnose", "create"}
    OBVIOUS
  <2> QED  BY <1>3, <1>4, <2>1
<1> QED  BY <1>2, <1>4 DEF prelock_plan

-----------------------------------------------------------------------------
(***************************************************************************)
(* The transaction.                                                        *)
(***************************************************************************)
\* The commands a transaction is made from.
LEMMA CommitBatch ==
  ASSUME NEW cmd \in Commands, cmd.kind = "commit"
  PROVE  /\ cmd.batch.targets \in Seq(PathSet)
         /\ \A p \in ToSet(cmd.batch.targets) : cmd.batch.result[p] \in Bytes
<1>1. cmd.batch.targets \in Seq(PathSet)
  BY WorkspaceAssumption
<1>2. cmd \in CommitCommands
  BY DEF CommitCommands
<1>3. ASSUME NEW p \in ToSet(cmd.batch.targets)
      PROVE  cmd.batch.result[p] \in Bytes
  <2>1. cmd.batch.result[p] \in {cmd.batch.result[q] : q \in ToSet(cmd.batch.targets)}
    OBVIOUS
  <2> QED  BY <1>2, <2>1 DEF Bytes
<1> QED  BY <1>1, <1>3

\* Everything has been looked at.
LEMMA AllSeen ==
  ASSUME WInv, NEW self \in Procs, process[self].pc = "acquired"
  PROVE  /\ DOMAIN process[self].snapshot = PathSet
         /\ \A p \in PathSet : PlanDigest(process[self].snapshot)[p] =
              <<process[self].snapshot[p].inode, process[self].snapshot[p].bytes>>
<1>1. /\ process[self].todo = << >>
      /\ \A p \in DOMAIN process[self].snapshot : p \in PathSet
      /\ \A p \in PathSet : p \in DOMAIN process[self].snapshot \/ p \in ToSet(process[self].todo)
  BY DEF WInv, ProcessInv, SeenInv, Acquiring
<1>2. ToSet(process[self].todo) = {}
  BY <1>1 DEF ToSet
<1> QED  BY <1>1, <1>2 DEF PlanDigest

LEMMA LockedPlan ==
  ASSUME WInv, NEW self \in Procs, locked_plan(self)
  PROVE  WInv'
<1> DEFINE seen == process[self].snapshot
           digest == PlanDigest(seen)
           cmd == process[self].cmd
           state == [process[self] EXCEPT !.pc = "prepare", !.use = "none",
                                          !.prelock = NoPlan, !.snapshot = << >>]
           new == [phase |-> "preparing", id |-> created + 1, batch |-> cmd.batch,
                   inputs |-> digest, before |-> [p \in PathSet |-> seen[p].writer],
                   done |-> [p \in PathSet |-> "none"],
                   candidate |-> [p \in PathSet |-> 0], expect |-> cmd.expect]
<1>1. process[self].pc = "acquired" /\ process[self].use = "locked" /\ UNCHANGED Files
  BY DEF locked_plan, At
<1>2. CASE \E error : Refuse(self, error) /\ UNCHANGED <<tx, created>>
  BY <1>1, <1>2, RefuseStep DEF Quiet, Files
<1>3. CASE /\ ~Unexpected(self, digest) /\ tx' = new /\ created' = created + 1
           /\ Set(self, state) /\ UNCHANGED holders
  <2>1. Exclusive(self) /\ Viewing(self) /\ cmd \in Commands /\ cmd.kind = "commit"
    BY <1>1, CommandFacts DEF Exclusive, Viewing, Acquiring, WInv, ProcessInv, CommandInv, Kind
  <2>2. /\ FileInv /\ created \in Nat /\ inodes \in Seq(Inode) /\ UNCHANGED <<entry, inodes, writer, touched>>
    BY <1>1 DEF WInv, FileInv, Files
  <2>3. /\ DOMAIN seen = PathSet /\ \A p \in PathSet : digest[p] = <<seen[p].inode, seen[p].bytes>>
    BY <1>1, AllSeen
  <2>4. \A p \in PathSet : seen[p].inode \in 0 .. Len(inodes) /\ seen[p].writer \in WriterRecord
    BY <2>3 DEF WInv, ProcessInv, SeenInv
  <2>5. /\ \A p \in PathSet : /\ ~seen[p].writer.hole
                              /\ writer[p] \in {User, seen[p].writer}
                              /\ seen[p].writer.tx <= created
        /\ \A p, q \in PathSet : Agree(seen[p].writer, seen[q].writer, q)
    BY <2>1, <2>3 DEF WInv, ProcessInv, ViewInv
  <2>6. cmd.expect # {} => digest \in cmd.expect
    BY <1>3 DEF Unexpected
  <2> HIDE DEF digest
  <2>7. /\ tx'.phase = "preparing" /\ DOMAIN tx' = TxFields /\ tx'.id = created + 1
        /\ tx'.batch = cmd.batch /\ tx'.inputs = digest /\ tx'.expect = cmd.expect
        /\ tx'.before = [p \in PathSet |-> seen[p].writer]
        /\ tx'.done = [p \in PathSet |-> "none"]
    BY <1>3 DEF TxFields
  <2> HIDE DEF new
  <2>8. FileInv' /\ Grows
    <3>1. created' \in Nat /\ \A p \in PathSet : writer'[p].tx <= created'
      <4>1. \A p \in PathSet : writer[p] \in WriterRecord /\ writer[p].tx <= created
        BY <2>2 DEF FileInv
      <4>2. \A p \in PathSet : writer[p].tx \in Nat
        BY <4>1 DEF WriterRecord
      <4> QED  BY <1>3, <2>2, <4>1, <4>2
    <3>2. FileInv'
      BY <2>2, <3>1 DEF FileInv
    <3> QED  BY <2>2, <3>2, Unchanged
  <2>9. TxInv'
    <3>1. tx'.id \in 1 .. created'
      BY <1>3, <2>2, <2>7
    <3>2. Targets' = ToSet(cmd.batch.targets)
      BY <2>7 DEF Targets
    <3>3. \A p \in PathSet : tx'.inputs[p][1] \in 0 .. Len(inodes')
      BY <2>2, <2>3, <2>4, <2>7
    <3>4. tx'.done \in [PathSet -> {"none", "backed_up", "installed"}]
      BY <2>7
    <3> QED  BY <2>1, <2>6, <2>7, <3>1, <3>2, <3>3, <3>4, CommitBatch DEF TxInv, TxPhases
  <2>10. WriterInv'
    <3>1. tx'.before \in [PathSet -> WriterRecord]
      BY <2>4, <2>7
    <3>2. \A p \in PathSet : seen[p].writer.tx < created + 1
      BY <2>2, <2>4, <2>5 DEF WriterRecord
    <3>3. \A p \in PathSet : tx'.before[p] = seen[p].writer
      BY <2>7
    <3>4. Unfinished'
      BY <2>7 DEF Unfinished, Completed
    <3>5. \A p \in PathSet : ~tx'.before[p].hole /\ tx'.before[p].tx < tx'.id
      BY <2>5, <2>7, <3>2, <3>3
    <3>6. \A p, q \in PathSet : Agree(tx'.before[p], tx'.before[q], q)
      BY <2>5, <3>3
    <3>7. \A p \in PathSet : writer'[p] \in {User, RecordedWriter(p)'}
      BY <2>2, <2>5, <2>7, <3>3 DEF RecordedWriter
    <3> QED  BY <3>1, <3>4, <3>5, <3>6, <3>7 DEF WriterInv
  <2>11. CandidateInv' /\ RecordInv'
    BY <2>7 DEF CandidateInv, RecordInv
  <2>12. Moves(self) /\ process'[self] = state
    BY <1>3, CommandFacts, SetMoves
  <2>13. /\ DOMAIN state = StateFields /\ state.pc = "prepare" /\ state.snapshot = << >>
         /\ state.cmd = cmd /\ state.result = process[self].result
    BY CommandFacts DEF StateFields
  <2> HIDE DEF state
  <2>14. PointInv(self)'
    BY <2>7, <2>12, <2>13 DEF PointInv, Rechecking, Acquiring
  <2>15. ProcessInv(self)'
    BY <1>1, <2>12, <2>13, <2>14, CommandFacts, Elsewhere DEF Acquiring
  <2>16. self \in holders.exclusive
    BY <2>1, CommandFacts
  <2>17. Locks(self) /\ Locked(self)'
    BY <1>3, <2>12, <2>13, <2>16 DEF Locks, Locked, Sharing, Acquiring
  <2> QED  BY <2>1, <2>8, <2>9, <2>10, <2>11, <2>12, <2>15, <2>17, OwnerStep
<1> QED  BY <1>2, <1>3 DEF locked_plan, Batch

LEMMA FunctionIsSequence ==
  ASSUME NEW S, NEW k \in Nat, NEW f \in [1 .. k -> S]
  PROVE  f \in Seq(S) /\ Len(f) = k
OBVIOUS

LEMMA Concatenation ==
  ASSUME NEW S, NEW s \in Seq(S), NEW t \in Seq(S), NEW u, u = s \o t
  PROVE  /\ u \in Seq(S) /\ Len(u) = Len(s) + Len(t)
         /\ \A i \in 1 .. Len(s) : u[i] = s[i]
         /\ \A i \in 1 .. Len(t) : u[Len(s) + i] = t[i]
OBVIOUS

LEMMA Prepare ==
  ASSUME WInv, NEW self \in Procs, prepare(self)
  PROVE  WInv'
<1> DEFINE targets == tx.batch.targets
           n == Len(inodes)
           made == [k \in DOMAIN targets |->
                      [bytes |-> tx.batch.result[targets[k]], stamp |-> 0]]
           at(p) == CHOOSE k \in DOMAIN targets : targets[k] = p
           candidate == [p \in PathSet |-> IF p \in ToSet(targets) THEN n + at(p) ELSE 0]
<1>1. /\ process[self].pc = "prepare" /\ UNCHANGED <<entry, writer, touched, holders, created>>
      /\ Set(self, AcquireSnapshot(process[self], "revalidate"))
      /\ inodes' = inodes \o made
      /\ tx' = [tx EXCEPT !.phase = "prepared", !.candidate = candidate]
  BY DEF prepare, At, Budgets
<1>2. /\ tx.phase = "preparing" /\ Exclusive(self) /\ FileInv /\ inodes \in Seq(Inode)
      /\ TxInv /\ WriterInv /\ Len(Contents) <= n
  BY <1>1 DEF WInv, ProcessInv, PointInv, Exclusive, Owning, FileInv
<1>3. /\ DOMAIN tx = TxFields /\ targets \in Seq(PathSet) /\ Targets = ToSet(targets)
      /\ \A p \in Targets : p \in PathSet /\ tx.batch.result[p] \in Bytes
      /\ \A p \in PathSet : tx.done[p] = "none" /\ tx.inputs[p][1] \in 0 .. n
      /\ \A k \in DOMAIN targets : targets[k] \in Targets
  <2>1. tx # NoTx
    BY <1>2 DEF NoTx
  <2>2. /\ DOMAIN tx = TxFields /\ targets \in Seq(PathSet) /\ Targets = ToSet(targets)
        /\ \A p \in Targets : tx.batch.result[p] \in Bytes
        /\ \A p \in PathSet : tx.done[p] = "none" /\ tx.inputs[p][1] \in 0 .. n
    BY <1>2, <2>1 DEF TxInv, Targets
  <2> QED  BY <2>2 DEF ToSet
<1>4. /\ tx'.phase = "prepared" /\ DOMAIN tx' = TxFields /\ tx'.id = tx.id
      /\ tx'.batch = tx.batch /\ tx'.inputs = tx.inputs /\ tx'.expect = tx.expect
      /\ tx'.before = tx.before /\ tx'.done = tx.done /\ tx'.candidate = candidate
      /\ Targets' = Targets
  BY <1>1, <1>3 DEF TxFields, Targets
<1>5. /\ made \in Seq(Inode) /\ Len(made) = Len(targets)
      /\ \A k \in 1 .. Len(targets) : made[k].bytes = tx.batch.result[targets[k]]
  <2>1. ASSUME NEW k \in 1 .. Len(targets)
        PROVE  made[k] \in Inode /\ made[k].bytes = tx.batch.result[targets[k]]
    <3>1. k \in DOMAIN targets
      BY <1>3
    <3>2. tx.batch.result[targets[k]] \in Bytes
      BY <1>3, <3>1
    <3>3. made[k] = [bytes |-> tx.batch.result[targets[k]], stamp |-> 0]
      BY <3>1
    <3> QED  BY <3>2, <3>3 DEF Inode
  <2>2. Len(targets) \in Nat /\ DOMAIN targets = 1 .. Len(targets)
    BY <1>3
  <2>3. made \in [1 .. Len(targets) -> Inode]
    BY <2>1, <2>2
  <2> HIDE DEF made
  <2> QED  BY <2>1, <2>2, <2>3, FunctionIsSequence
<1>6. /\ \A p \in Targets : at(p) \in DOMAIN targets /\ targets[at(p)] = p
      /\ \A p \in Targets : candidate[p] = n + at(p)
  <2>1. ASSUME NEW p \in Targets
        PROVE  at(p) \in DOMAIN targets /\ targets[at(p)] = p
    <3>1. PICK k \in DOMAIN targets : targets[k] = p
      BY <1>3 DEF ToSet
    <3> QED  BY <3>1
  <2> HIDE DEF at
  <2>2. \A p \in Targets : candidate[p] = n + at(p)
    BY <1>3
  <2> QED  BY <2>1, <2>2
<1> HIDE DEF made, at, candidate
<1>7. /\ inodes' \in Seq(Inode) /\ Len(inodes') = n + Len(targets)
      /\ \A i \in 1 .. n : inodes'[i] = inodes[i]
      /\ \A k \in 1 .. Len(targets) : inodes'[n + k] = made[k]
  <2>1. inodes \in Seq(Inode) /\ made \in Seq(Inode) /\ inodes' = inodes \o made
    BY <1>1, <1>2, <1>5
  <2>2. /\ inodes' \in Seq(Inode) /\ Len(inodes') = n + Len(made)
        /\ \A i \in 1 .. n : inodes'[i] = inodes[i]
        /\ \A k \in 1 .. Len(made) : inodes'[n + k] = made[k]
    BY ONLY <2>1, Concatenation
  <2> QED  BY <1>5, <2>2
<1>8. \A k \in 1 .. Len(targets) : inodes'[n + k].bytes = tx.batch.result[targets[k]]
  BY <1>5, <1>7
<1>9. Grows
  <2>1. \A i \in 1 .. n : inodes[i] \in Inode
    BY <1>2
  <2>2. \A i \in 1 .. n : inodes[i].stamp \in Nat
    BY <2>1 DEF Inode
  <2> QED  BY <1>2, <1>3, <1>7, <2>2 DEF Grows
<1>10. FileInv'
  <2>1. entry \in [PathSet -> Entries(n)]
    BY <1>2 DEF FileInv
  <2>2. Entries(n) \subseteq Entries(Len(inodes'))
    BY <1>2, <1>3, <1>7 DEF Entries
  <2>3. entry' \in [PathSet -> Entries(Len(inodes'))]
    BY <1>1, <2>1, <2>2
  <2>4. Len(Contents) <= Len(inodes')
    BY <1>2, <1>3, <1>7, WorkspaceAssumption
  <2> QED  BY <1>1, <1>2, <1>7, <2>3, <2>4 DEF FileInv
<1>11. TxInv'
  <2>1. /\ \A p \in PathSet : tx'.inputs[p][1] \in 0 .. Len(inodes')
    BY <1>2, <1>3, <1>4, <1>7
  <2>2. /\ tx.id \in 1 .. created /\ tx.done \in [PathSet -> {"none", "backed_up", "installed"}]
        /\ tx.expect # {} => tx.inputs \in tx.expect
    BY <1>2 DEF TxInv, NoTx
  <2> QED  BY <1>1, <1>3, <1>4, <2>1, <2>2 DEF TxInv, TxPhases
<1>12. WriterInv'
  <2>1. Unfinished /\ Unfinished'
    BY <1>2, <1>4 DEF Unfinished, Completed
  <2>2. \A p : RecordedWriter(p)' = RecordedWriter(p)
    BY <1>4 DEF RecordedWriter
  <2> QED  BY <1>1, <1>2, <1>4, <2>1, <2>2 DEF WriterInv
<1>13. CandidateInv'
  <2>1. \A p \in Targets : candidate[p] = n + at(p) /\ at(p) \in 1 .. Len(targets)
                             /\ targets[at(p)] = p
    BY <1>3, <1>6
  <2>2. \A p \in Targets : candidate[p] \in Len(Contents) + 1 .. Len(inodes')
    BY <1>2, <1>3, <1>7, <2>1, WorkspaceAssumption
  <2>3. \A p, q \in Targets : p # q => candidate[p] # candidate[q]
    BY <1>2, <2>1
  <2>4. \A p \in Targets : inodes'[candidate[p]].bytes = tx.batch.result[p]
    BY <1>8, <2>1
  <2>5. ASSUME NEW p \in Targets, NEW q \in PathSet, entry[q] = File(candidate[p])
        PROVE  FALSE
    <3>1. candidate[p] \in 1 .. n
      BY <1>2, <2>5, FileNamed
    <3> QED  BY <1>2, <1>3, <2>1, <3>1
  <2> QED  BY <1>1, <1>4, <2>2, <2>3, <2>4, <2>5 DEF CandidateInv
<1>14. RecordInv'
  BY <1>4 DEF RecordInv
<1>15. process[self].result = "none" /\ self \in holders.exclusive
  BY <1>1, <1>2, CommandFacts
<1>16. /\ Moves(self) /\ ProcessInv(self)' /\ process'[self].use = "revalidate"
       /\ process'[self].pc \in {"acquired", "validate"}
  BY <1>1, <1>4, <1>15, CommandFacts, Looks
<1>17. Locks(self) /\ Locked(self)'
  BY <1>1, <1>15, <1>16 DEF Locks, Locked, Sharing
<1> QED  BY <1>2, <1>9, <1>10, <1>11, <1>12, <1>13, <1>14, <1>16, <1>17, OwnerStep

\* What TxInv says of a transaction there is.
LEMMA TxFacts ==
  ASSUME TxInv, tx.phase # "none"
  PROVE  /\ DOMAIN tx = TxFields /\ tx.phase \in TxPhases /\ tx.id \in 1 .. created
         /\ tx.batch.targets \in Seq(PathSet) /\ Targets = ToSet(tx.batch.targets)
         /\ \A p \in Targets : p \in PathSet /\ tx.batch.result[p] \in Bytes
         /\ tx.done \in [PathSet -> {"none", "backed_up", "installed"}]
         /\ \A p \in PathSet : p \notin Targets => tx.done[p] = "none"
         /\ tx.phase \in {"preparing", "prepared", "rolled_back"} =>
              \A p \in PathSet : tx.done[p] = "none"
         /\ tx.phase = "committed" => \A p \in Targets : tx.done[p] = "installed"
         /\ \A p \in PathSet : tx.inputs[p][1] \in 0 .. Len(inodes)
         /\ tx.expect # {} => tx.inputs \in tx.expect
         /\ \A k \in DOMAIN tx.batch.targets : tx.batch.targets[k] \in Targets
<1>1. tx # NoTx
  BY DEF NoTx
<1>2. tx.batch.targets \in Seq(PathSet) /\ Targets = ToSet(tx.batch.targets)
  BY <1>1 DEF TxInv, Targets
<1>3. /\ \A p \in Targets : p \in PathSet
      /\ \A k \in DOMAIN tx.batch.targets : tx.batch.targets[k] \in Targets
  BY <1>2 DEF ToSet
<1> QED  BY <1>1, <1>2, <1>3 DEF TxInv

\* A step of the journal: the transaction enters another phase.
LEMMA PhaseChange ==
  ASSUME FileInv, TxInv, tx.phase # "none", NEW phase \in TxPhases,
         tx' = [tx EXCEPT !.phase = phase], UNCHANGED <<entry, inodes, writer, created>>,
         phase \in {"preparing", "prepared", "rolled_back"} =>
           \A p \in PathSet : tx.done[p] = "none",
         phase = "committed" => \A p \in Targets : tx.done[p] = "installed"
  PROVE  /\ FileInv' /\ TxInv' /\ Grows /\ tx'.phase = phase /\ DOMAIN tx' = TxFields
         /\ tx'.id = tx.id /\ tx'.batch = tx.batch /\ tx'.inputs = tx.inputs
         /\ tx'.before = tx.before /\ tx'.done = tx.done /\ tx'.candidate = tx.candidate
         /\ Targets' = Targets /\ \A p : RecordedWriter(p)' = RecordedWriter(p)
<1>1. /\ DOMAIN tx = TxFields /\ tx.id \in 1 .. created
      /\ tx.batch.targets \in Seq(PathSet)
      /\ \A p \in Targets : tx.batch.result[p] \in Bytes
      /\ tx.done \in [PathSet -> {"none", "backed_up", "installed"}]
      /\ \A p \in PathSet : p \notin Targets => tx.done[p] = "none"
      /\ \A p \in PathSet : tx.inputs[p][1] \in 0 .. Len(inodes)
      /\ tx.expect # {} => tx.inputs \in tx.expect
  BY TxFacts
<1>2. /\ tx'.phase = phase /\ DOMAIN tx' = TxFields /\ tx'.id = tx.id
      /\ tx'.batch = tx.batch /\ tx'.inputs = tx.inputs /\ tx'.expect = tx.expect
      /\ tx'.before = tx.before /\ tx'.done = tx.done /\ tx'.candidate = tx.candidate
  BY <1>1 DEF TxFields
<1>3. Targets' = Targets
  BY <1>2 DEF Targets
<1>4. \A p : RecordedWriter(p)' = RecordedWriter(p)
  BY <1>2, <1>3 DEF RecordedWriter
<1>5. FileInv' /\ Grows
  BY Unchanged DEF FileInv
<1>6. TxInv'
  BY <1>1, <1>2, <1>3 DEF TxInv
<1> QED  BY <1>2, <1>3, <1>4, <1>5, <1>6

LEMMA StartCommitting ==
  ASSUME WInv, NEW self \in Procs, start_committing(self)
  PROVE  WInv'
<1> DEFINE seen == process[self].snapshot
           state == [process[self] EXCEPT !.pc = "install", !.use = "none", !.snapshot = << >>]
<1>1. /\ process[self].pc = "acquired" /\ process[self].use \in {"revalidate", "complete"}
      /\ UNCHANGED Files /\ UNCHANGED created /\ process[self].pc \in Acquiring
  BY DEF start_committing, At, Budgets, Acquiring
<1>2. CASE SnapshotError(self, "FileChanged") /\ UNCHANGED tx
  BY <1>1, <1>2, SnapshotErrorStep DEF Quiet, Files
<1>3. CASE /\ revalidate_manifest_inputs(seen) /\ tx' = [tx EXCEPT !.phase = "committing"]
           /\ Set(self, state) /\ UNCHANGED holders
  <2>1. Exclusive(self) /\ Rechecking(self) /\ UNCHANGED <<entry, inodes, writer, touched, created>>
    BY <1>1 DEF Exclusive, Rechecking, Files
  <2>2. /\ tx.phase = "prepared" /\ FileInv /\ TxInv /\ WriterInv /\ CandidateInv
        /\ \A p \in DOMAIN seen : p \notin touched => IsCurrent(p, seen[p])
    BY <2>1 DEF WInv, ProcessInv, PointInv, RecheckInv
  <2>3. /\ FileInv' /\ TxInv' /\ Grows /\ tx'.phase = "committing"
        /\ tx'.id = tx.id /\ tx'.batch = tx.batch /\ tx'.inputs = tx.inputs
        /\ tx'.before = tx.before /\ tx'.done = tx.done /\ tx'.candidate = tx.candidate
        /\ Targets' = Targets /\ \A p : RecordedWriter(p)' = RecordedWriter(p)
    BY <1>3, <2>1, <2>2, PhaseChange DEF TxPhases
  <2>4. \A p \in PathSet : tx.done[p] = "none"
    BY <2>2, TxFacts
  <2>5. WriterInv'
    <3>1. Unfinished /\ Unfinished'
      BY <2>2, <2>3 DEF Unfinished, Completed
    <3> QED  BY <2>1, <2>2, <2>3, <3>1 DEF WriterInv
  <2>6. CandidateInv'
    BY <2>1, <2>2, <2>3 DEF CandidateInv
  <2>7. RecordInv'
    <3>1. ASSUME NEW p \in PathSet, p \notin touched
          PROVE  AsRecorded(p)'
      <4>1. DOMAIN seen = PathSet /\ PlanDigest(seen)[p] = <<seen[p].inode, seen[p].bytes>>
        BY <1>1, AllSeen
      <4>2. IsCurrent(p, seen[p])
        BY <2>2, <3>1, <4>1
      <4>3. tx.inputs[p][1] = seen[p].inode /\ tx.inputs[p][2] = seen[p].bytes
        BY <1>3, <4>1 DEF revalidate_manifest_inputs
      <4>4. Original(p)
        BY <4>2, <4>3 DEF Original, IsCurrent
      <4>5. Original(p)'
        BY <2>1, <2>3, <4>4 DEF Original
      <4> QED  BY <2>3, <2>4, <4>5 DEF AsRecorded
    <3> QED  BY <2>1, <3>1 DEF RecordInv
  <2>8. Moves(self) /\ process'[self] = state
    BY <1>3, CommandFacts, SetMoves
  <2>9. /\ DOMAIN state = StateFields /\ state.pc = "install" /\ state.snapshot = << >>
        /\ state.cmd = process[self].cmd /\ state.result = process[self].result
    BY CommandFacts DEF StateFields
  <2> HIDE DEF state
  <2>10. PointInv(self)'
    BY <2>3, <2>8, <2>9 DEF PointInv, Rechecking, Acquiring
  <2>11. ProcessInv(self)'
    BY <1>1, <2>8, <2>9, <2>10, CommandFacts, Elsewhere DEF Acquiring
  <2>12. self \in holders.exclusive
    BY <2>1, CommandFacts
  <2>13. Locks(self) /\ Locked(self)'
    BY <1>3, <2>8, <2>9, <2>12 DEF Locks, Locked, Sharing, Acquiring
  <2> QED  BY <2>1, <2>3, <2>5, <2>6, <2>7, <2>8, <2>11, <2>13, OwnerStep
<1> QED  BY <1>2, <1>3 DEF start_committing

\* The first and the last of some positions of a sequence.
LEMMA FirstPosition ==
  ASSUME NEW n \in Nat, NEW I, I \subseteq 1 .. n, I # {}
  PROVE  Min(I) \in I
<1>1. PICK x \in I : \A y \in I : x <= y
  <2>1. I \subseteq Nat
    OBVIOUS
  <2> QED  BY <2>1, LeastMember
<1> QED  BY <1>1 DEF Min

LEMMA LastPosition ==
  ASSUME NEW n \in Nat, NEW I, I \subseteq 1 .. n, I # {}
  PROVE  Max(I) \in I
<1> DEFINE J == {k \in 0 .. n : n - k \in I}
<1>1. ASSUME NEW x \in I
      PROVE  n - x \in J
  <2>1. x \in 1 .. n
    OBVIOUS
  <2>2. n - x \in 0 .. n /\ n - (n - x) = x
    BY <2>1
  <2> QED  BY <2>2
<1>2. J \subseteq Nat /\ J # {}
  <2>1. \E x : x \in I
    OBVIOUS
  <2>2. J # {}
    BY <1>1, <2>1
  <2> QED  BY <2>2
<1>3. PICK k \in J : \A m \in J : k <= m
  BY <1>2, LeastMember
<1>4. n - k \in I
  BY <1>3
<1>5. ASSUME NEW y \in I
      PROVE  n - k >= y
  <2>1. k <= n - y /\ y \in 1 .. n /\ k \in 0 .. n
    BY <1>1, <1>3
  <2> QED  BY <2>1
<1> QED  BY <1>4, <1>5 DEF Max

\* A rename: what it changes, and that it records it.
LEMMA RenameEffect ==
  ASSUME FileInv, TxInv, WriterInv, tx.phase \in {"committing", "rolling_back"},
         NEW p \in Targets, NEW to \in Entries(Len(inodes)),
         NEW step \in {"none", "backed_up", "installed"}, NEW hole, hole = (step = "backed_up"),
         Rename(p, to, hole, step), UNCHANGED created
  PROVE  /\ FileInv' /\ TxInv' /\ WriterInv' /\ Grows
         /\ entry'[p] = to /\ \A q \in PathSet : q # p => entry'[q] = entry[q]
         /\ Len(inodes') = Len(inodes)
         /\ \A i \in 1 .. Len(inodes) : inodes'[i].bytes = inodes[i].bytes
         /\ tx'.done[p] = step /\ \A q \in PathSet : q # p => tx'.done[q] = tx.done[q]
         /\ tx'.phase = tx.phase /\ tx'.batch = tx.batch /\ tx'.inputs = tx.inputs
         /\ tx'.candidate = tx.candidate /\ tx'.expect = tx.expect /\ Targets' = Targets
<1>1. /\ DOMAIN tx = TxFields /\ tx.phase \in TxPhases /\ tx.id \in 1 .. created
      /\ tx.batch.targets \in Seq(PathSet) /\ p \in PathSet
      /\ \A q \in Targets : tx.batch.result[q] \in Bytes
      /\ tx.done \in [PathSet -> {"none", "backed_up", "installed"}]
      /\ \A q \in PathSet : q \notin Targets => tx.done[q] = "none"
      /\ \A q \in PathSet : tx.inputs[q][1] \in 0 .. Len(inodes)
      /\ tx.expect # {} => tx.inputs \in tx.expect
  BY TxFacts
<1>2. /\ inodes \in Seq(Inode) /\ Len(Contents) <= Len(inodes) /\ created \in Nat
      /\ entry \in [PathSet -> Entries(Len(inodes))] /\ writer \in [PathSet -> WriterRecord]
      /\ \A q \in PathSet : writer[q].tx <= created
  BY DEF FileInv
<1>3. /\ entry' = [entry EXCEPT ![p] = to]
      /\ inodes' = [i \in DOMAIN inodes |->
                      IF i \in {entry[p].inode, to.inode} THEN Stamped(i, inodes[i].bytes)
                      ELSE inodes[i]]
      /\ tx' = [tx EXCEPT !.done[p] = step]
      /\ writer' = [writer EXCEPT ![p] = IF step = "none" THEN tx.before[p]
                                         ELSE Writer(tx.id, Targets, hole)]
  BY DEF Rename
<1>4. /\ tx'.phase = tx.phase /\ DOMAIN tx' = TxFields /\ tx'.id = tx.id
      /\ tx'.batch = tx.batch /\ tx'.inputs = tx.inputs /\ tx'.expect = tx.expect
      /\ tx'.before = tx.before /\ tx'.candidate = tx.candidate
      /\ tx'.done = [tx.done EXCEPT ![p] = step]
  BY <1>1, <1>3 DEF TxFields
<1>5. Targets' = Targets
  BY <1>4 DEF Targets
<1>6. /\ tx'.done \in [PathSet -> {"none", "backed_up", "installed"}] /\ tx'.done[p] = step
      /\ \A q \in PathSet : q # p => tx'.done[q] = tx.done[q]
  BY <1>1, <1>4
<1>7. /\ entry' \in [PathSet -> Entries(Len(inodes))] /\ entry'[p] = to
      /\ \A q \in PathSet : q # p => entry'[q] = entry[q]
  BY <1>1, <1>2, <1>3
<1>8. ASSUME NEW i \in 1 .. Len(inodes)
      PROVE  /\ inodes'[i] \in Inode /\ inodes'[i].bytes = inodes[i].bytes
             /\ inodes[i].stamp <= inodes'[i].stamp
  <2>1. inodes[i] \in Inode /\ i \in DOMAIN inodes
    BY <1>2
  <2>2. inodes[i].bytes \in Bytes /\ inodes[i].stamp \in Nat
    BY <2>1 DEF Inode
  <2>3. inodes'[i] = inodes[i] \/ inodes'[i] = [bytes |-> inodes[i].bytes, stamp |-> inodes[i].stamp + 1]
    BY <1>3, <2>1 DEF Stamped
  <2> QED  BY <2>1, <2>2, <2>3 DEF Inode
<1>9. inodes' \in Seq(Inode) /\ Len(inodes') = Len(inodes)
  <2>1. Len(inodes) \in Nat /\ DOMAIN inodes = 1 .. Len(inodes)
    BY <1>2
  <2>2. inodes' \in [1 .. Len(inodes) -> Inode]
    BY <1>3, <1>8, <2>1
  <2> QED  BY <2>1, <2>2, FunctionIsSequence
<1>10. Grows
  BY <1>2, <1>8, <1>9 DEF Grows
<1>11. Unfinished /\ Unfinished'
  BY <1>4 DEF Unfinished, Completed
<1>12. /\ tx.before \in [PathSet -> WriterRecord]
       /\ \A q \in PathSet : ~tx.before[q].hole /\ tx.before[q].tx < tx.id
       /\ \A q, r \in PathSet : Agree(tx.before[q], tx.before[r], r)
       /\ \A q \in PathSet : writer[q] \in {User, RecordedWriter(q)}
  BY <1>11 DEF WriterInv
<1>13. writer'[p] = RecordedWriter(p)' /\ \A q \in PathSet : q # p => writer'[q] = writer[q]
  BY <1>1, <1>2, <1>3, <1>4, <1>5, <1>6 DEF RecordedWriter
<1>14. \A q \in PathSet : q # p => RecordedWriter(q)' = RecordedWriter(q)
  BY <1>4, <1>5, <1>6 DEF RecordedWriter
<1>15. WriterInv'
  <2>1. \A q \in PathSet : writer'[q] \in {User, RecordedWriter(q)'}
    BY <1>12, <1>13, <1>14
  <2> QED  BY <1>4, <1>11, <1>12, <2>1 DEF WriterInv
<1>16. FileInv'
  <2>1. writer'[p] \in WriterRecord /\ writer'[p].tx <= created
    <3>1. CASE step = "none"
      <4>1. writer'[p] = tx.before[p] /\ tx.before[p] \in WriterRecord /\ tx.before[p].tx < tx.id
        BY <1>1, <1>2, <1>3, <1>12, <3>1
      <4>2. tx.before[p].tx \in Nat
        BY <4>1 DEF WriterRecord
      <4> QED  BY <1>1, <1>2, <4>1, <4>2
    <3>2. CASE step # "none"
      <4>1. writer'[p] = Writer(tx.id, Targets, hole)
        BY <1>1, <1>2, <1>3, <3>2
      <4>2. Targets \subseteq PathSet /\ hole \in BOOLEAN /\ tx.id \in Nat /\ tx.id <= created
        BY <1>1, <1>2, TxFacts
      <4> QED  BY <4>1, <4>2 DEF Writer, WriterRecord
    <3> QED  BY <3>1, <3>2
  <2>2. writer' \in [PathSet -> WriterRecord] /\ \A q \in PathSet : writer'[q].tx <= created
    BY <1>1, <1>2, <1>3, <1>13, <2>1
  <2> QED  BY <1>2, <1>7, <1>9, <2>2 DEF FileInv
<1>17. TxInv'
  BY <1>1, <1>4, <1>5, <1>6, <1>9 DEF TxInv
<1> QED  BY <1>4, <1>5, <1>6, <1>7, <1>8, <1>9, <1>10, <1>15, <1>16, <1>17

\* Once nothing is half done, the files agree.
LEMMA WritersSettled ==
  ASSUME WriterInv, TxInv, Unfinished,
         \/ \A p \in PathSet : tx.done[p] = "none"
         \/ \A p \in Targets : tx.done[p] = "installed"
  PROVE  Settled
<1>1. tx.phase # "none"
  BY DEF Unfinished
<1>2. /\ tx.before \in [PathSet -> WriterRecord] /\ tx.id \in Nat
      /\ \A p \in PathSet : ~tx.before[p].hole /\ tx.before[p].tx < tx.id
      /\ \A p, q \in PathSet : Agree(tx.before[p], tx.before[q], q)
      /\ \A p \in PathSet : writer[p] \in {User, RecordedWriter(p)}
      /\ \A p \in PathSet : p \notin Targets => tx.done[p] = "none"
  BY <1>1, TxFacts DEF WriterInv
<1>3. \A p \in PathSet : tx.before[p].tx \in Nat
  BY <1>2 DEF WriterRecord
<1>4. ASSUME NEW p \in PathSet
      PROVE  \/ tx.done[p] = "none" /\ RecordedWriter(p) = tx.before[p]
             \/ /\ p \in Targets /\ \A q \in Targets : tx.done[q] = "installed"
                /\ RecordedWriter(p) = Writer(tx.id, Targets, FALSE)
  BY <1>2 DEF RecordedWriter
<1>5. \A p \in PathSet : ~RecordedWriter(p).hole
  BY <1>2, <1>4 DEF Writer
<1>6. ASSUME NEW p \in PathSet, NEW q \in PathSet
      PROVE  Agree(RecordedWriter(p), RecordedWriter(q), q)
  <2>1. CASE RecordedWriter(p) = tx.before[p] /\ RecordedWriter(q) = tx.before[q]
    BY <1>2, <2>1
  <2>2. CASE RecordedWriter(p) = tx.before[p] /\ RecordedWriter(q) = Writer(tx.id, Targets, FALSE)
    BY <1>2, <1>3, <2>2 DEF Agree, Writer
  <2>3. CASE /\ \A r \in Targets : tx.done[r] = "installed"
             /\ RecordedWriter(p) = Writer(tx.id, Targets, FALSE)
    <3>1. q \in Targets => RecordedWriter(q) = Writer(tx.id, Targets, FALSE)
      BY <2>3 DEF RecordedWriter
    <3> QED  BY <1>2, <2>3, <3>1 DEF Agree, Writer
  <2> QED  BY <1>4, <2>1, <2>2, <2>3
<1>7. User.user = TRUE /\ User.hole = FALSE
  BY DEF User
<1>8. \A p \in PathSet : ~writer[p].hole
  BY <1>2, <1>5, <1>7
<1>9. ASSUME NEW p \in PathSet, NEW q \in PathSet
      PROVE  Agree(writer[p], writer[q], q)
  <2>1. CASE writer[p] = User \/ writer[q] = User
    BY <1>7, <2>1 DEF Agree
  <2>2. CASE writer[p] = RecordedWriter(p) /\ writer[q] = RecordedWriter(q)
    BY <1>6, <2>2
  <2> QED  BY <1>2, <2>1, <2>2
<1> QED  BY <1>8, <1>9 DEF Settled

\* The owner of the transaction goes on to another of its places, or stays.
LEMMA OwnerMoves ==
  ASSUME WInv, NEW self \in Procs, process[self].pc \in Owning, UNCHANGED holders, Grows,
         NEW pc \in Owning \ {"gate"}, GoTo(self, pc),
         pc = "prepare" => tx'.phase = "preparing",
         pc = "install" => tx'.phase = "committing",
         pc = "rollback" => tx'.phase \in {"prepared", "committing", "rolling_back"},
         pc = "restore" => tx'.phase = "rolling_back",
         pc = "cleanup" => tx'.phase \in Completed
  PROVE  Exclusive(self) /\ Moves(self) /\ Locks(self) /\ Locked(self)' /\ ProcessInv(self)'
<1>1. Exclusive(self) /\ self \in holders.exclusive /\ process[self].pc # "done" /\ pc \notin Acquiring
  BY CommandFacts DEF Exclusive, Owning, Acquiring
<1>2. process'[self].pc = pc
  BY CommandFacts, GoToMoves
<1>3. PointInv(self)'
  BY <1>1, <1>2 DEF PointInv, Rechecking
<1>4. ProcessInv(self)' /\ Moves(self)
  BY <1>1, <1>3, GoToState
<1>5. Locks(self) /\ Locked(self)'
  BY <1>1, <1>2 DEF Locks, Locked, Sharing, Acquiring, Owning
<1> QED  BY <1>1, <1>4, <1>5

LEMMA OwnerStays ==
  ASSUME WInv, NEW self \in Procs, process[self].pc \in {"install", "restore"},
         UNCHANGED <<process, holders>>, Grows, tx'.phase = tx.phase
  PROVE  Exclusive(self) /\ Moves(self) /\ Locks(self) /\ Locked(self)' /\ ProcessInv(self)'
<1>1. Exclusive(self) /\ self \in holders.exclusive
  BY CommandFacts DEF Exclusive, Owning
<1>2. Moves(self)
  BY CommandFacts DEF Moves
<1>3. OwnInv(self)'
  BY Bystander DEF WInv, ProcessInv, OwnInv
<1>4. PointInv(self)'
  BY CommandFacts DEF PointInv, Rechecking, Acquiring
<1>5. ViewInv(self)' /\ RecheckInv(self)'
  BY DEF ViewInv, Viewing, RecheckInv, Rechecking, Acquiring
<1>6. Locks(self) /\ Locked(self)'
  BY <1>1 DEF Locks, Locked, Sharing, Acquiring
<1> QED  BY <1>1, <1>2, <1>3, <1>4, <1>5, <1>6 DEF ProcessInv, OwnInv

\* The terminal record of a transaction that nothing is half done of.
LEMMA TerminalStep ==
  ASSUME WInv, NEW self \in Procs, process[self].pc \in {"install", "restore"},
         NEW phase \in Completed, tx' = [tx EXCEPT !.phase = phase], Unfinished,
         phase = "rolled_back" => \A p \in PathSet : tx.done[p] = "none",
         phase = "committed" => \A p \in Targets : tx.done[p] = "installed",
         GoTo(self, "cleanup"), UNCHANGED <<entry, inodes, writer, holders, touched, created>>
  PROVE  WInv'
<1>1. FileInv /\ TxInv /\ WriterInv /\ tx.phase # "none"
  BY DEF WInv, Unfinished
<1>2. FileInv' /\ TxInv' /\ Grows /\ tx'.phase = phase
  BY <1>1, PhaseChange DEF Completed, TxPhases
<1>3. Settled
  BY <1>1, WritersSettled DEF Completed
<1>4. WriterInv'
  BY <1>2, <1>3 DEF WriterInv, Settled, Unfinished, Completed
<1>5. CandidateInv' /\ RecordInv'
  BY <1>2 DEF CandidateInv, RecordInv, Completed
<1>6. Exclusive(self) /\ Moves(self) /\ Locks(self) /\ Locked(self)' /\ ProcessInv(self)'
  BY <1>2, OwnerMoves DEF Owning
<1> QED  BY <1>2, <1>4, <1>5, <1>6, OwnerStep

\* A rename disturbs no other path.
LEMMA RecordedElsewhere ==
  ASSUME FileInv, NEW q \in PathSet, AsRecorded(q), entry'[q] = entry[q],
         tx'.done[q] = tx.done[q], tx'.batch = tx.batch, tx'.inputs = tx.inputs,
         tx'.candidate = tx.candidate,
         tx.done[q] \in {"none", "backed_up", "installed"},
         \A i \in 1 .. Len(inodes) : inodes'[i].bytes = inodes[i].bytes
  PROVE  AsRecorded(q)'
<1>1. \A i : entry[q] = File(i) => inodes'[i].bytes = inodes[i].bytes
  BY FileNamed
<1>2. CASE tx.done[q] = "none"
  <2>1. Original(q)
    BY <1>2 DEF AsRecorded
  <2>2. Original(q)'
    BY <1>1, <2>1 DEF Original
  <2> QED  BY <1>2, <2>2 DEF AsRecorded
<1>3. CASE tx.done[q] = "backed_up"
  BY <1>3 DEF AsRecorded
<1>4. CASE tx.done[q] = "installed"
  <2>1. Candidate(q)
    BY <1>4 DEF AsRecorded
  <2>2. Candidate(q)'
    BY <1>1, <2>1 DEF Candidate
  <2> QED  BY <1>4, <2>2 DEF AsRecorded
<1> QED  BY <1>2, <1>3, <1>4

\* One rename of a commit.
LEMMA CommitRename ==
  ASSUME WInv, NEW self \in Procs, process[self].pc = "install",
         NEW p \in Targets, tx.done[p] # "installed", AsRecorded(p),
         IF entry[p] = Absent THEN Rename(p, File(tx.candidate[p]), FALSE, "installed")
         ELSE Rename(p, Absent, TRUE, "backed_up"),
         UNCHANGED <<process, holders, touched, created>>
  PROVE  WInv'
<1>1. /\ FileInv /\ TxInv /\ WriterInv /\ CandidateInv /\ RecordInv /\ PointInv(self)
      /\ inodes \in Seq(Inode) /\ Len(Contents) <= Len(inodes)
  BY DEF WInv, ProcessInv, FileInv
<1>2. tx.phase = "committing"
  BY <1>1 DEF PointInv
<1>3. /\ p \in PathSet /\ \A q \in Targets : q \in PathSet
      /\ \A q \in PathSet : tx.done[q] \in {"none", "backed_up", "installed"}
  BY <1>1, <1>2, TxFacts
<1>4. /\ \A q \in Targets : tx.candidate[q] \in Len(Contents) + 1 .. Len(inodes)
      /\ \A q, r \in Targets : q # r => tx.candidate[q] # tx.candidate[r]
      /\ \A q \in Targets : tx.done[q] # "installed" =>
           inodes[tx.candidate[q]].bytes = tx.batch.result[q]
      /\ \A q \in Targets, r \in PathSet : entry[r] = File(tx.candidate[q]) =>
           r = q /\ tx.done[q] = "installed"
  BY <1>1, <1>2 DEF CandidateInv
<1>5. tx.candidate[p] \in 1 .. Len(inodes)
  BY <1>1, <1>4, WorkspaceAssumption
<1>6. PICK to \in {File(tx.candidate[p]), Absent}, step \in {"backed_up", "installed"} :
        /\ Rename(p, to, step = "backed_up", step)
        /\ step = "installed" => to = File(tx.candidate[p])
        /\ step = "backed_up" => to = Absent
  <2>1. CASE entry[p] = Absent
    <3>1. Rename(p, File(tx.candidate[p]), "installed" = "backed_up", "installed")
      <4>1. ("installed" = "backed_up") = FALSE
        OBVIOUS
      <4> QED  BY <2>1, <4>1 DEF Rename, Writer
    <3> QED  BY <3>1
  <2>2. CASE entry[p] # Absent
    <3>1. Rename(p, Absent, "backed_up" = "backed_up", "backed_up")
      <4>1. ("backed_up" = "backed_up") = TRUE
        OBVIOUS
      <4> QED  BY <2>2, <4>1 DEF Rename, Writer
    <3> QED  BY <3>1
  <2> QED  BY <2>1, <2>2
<1>7. to \in Entries(Len(inodes))
  BY <1>5, <1>6 DEF Entries
<1>8. /\ FileInv' /\ TxInv' /\ WriterInv' /\ Grows
      /\ entry'[p] = to /\ \A q \in PathSet : q # p => entry'[q] = entry[q]
      /\ Len(inodes') = Len(inodes)
      /\ \A i \in 1 .. Len(inodes) : inodes'[i].bytes = inodes[i].bytes
      /\ tx'.done[p] = step /\ \A q \in PathSet : q # p => tx'.done[q] = tx.done[q]
      /\ tx'.phase = tx.phase /\ tx'.batch = tx.batch /\ tx'.inputs = tx.inputs
      /\ tx'.candidate = tx.candidate /\ tx'.expect = tx.expect /\ Targets' = Targets
  BY <1>1, <1>2, <1>6, <1>7, RenameEffect
<1>9. \A i, j : File(i) = File(j) => i = j
  BY DEF File
<1>10. \A i : File(i) # Absent
  BY DEF File, Absent
<1>11. CandidateInv'
  <2>1. \A q \in Targets : tx'.candidate[q] \in Len(Contents) + 1 .. Len(inodes')
    BY <1>4, <1>8
  <2>2. \A q, r \in Targets : q # r => tx'.candidate[q] # tx'.candidate[r]
    BY <1>4, <1>8
  <2>3. ASSUME NEW q \in Targets, tx'.done[q] # "installed"
        PROVE  inodes'[tx'.candidate[q]].bytes = tx'.batch.result[q]
    <3>1. tx.done[q] # "installed"
      BY <1>3, <1>8, <2>3
    <3>2. tx.candidate[q] \in 1 .. Len(inodes)
      BY <1>1, <1>4, WorkspaceAssumption
    <3> QED  BY <1>4, <1>8, <3>1, <3>2
  <2>4. ASSUME NEW q \in Targets, NEW r \in PathSet, entry'[r] = File(tx'.candidate[q])
        PROVE  r = q /\ tx'.done[q] = "installed"
    <3>1. CASE r = p
      <4>1. step = "installed" /\ to = File(tx.candidate[p])
        BY <1>6, <1>8, <1>10, <2>4, <3>1
      <4>2. tx.candidate[p] = tx.candidate[q]
        BY <1>8, <1>9, <2>4, <3>1, <4>1
      <4> QED  BY <1>4, <1>8, <3>1, <4>1, <4>2
    <3>2. CASE r # p
      <4>1. r = q /\ tx.done[q] = "installed"
        BY <1>4, <1>8, <2>4, <3>2
      <4> QED  BY <1>8, <3>2, <4>1
    <3> QED  BY <3>1, <3>2
  <2> QED  BY <1>8, <2>1, <2>2, <2>3, <2>4 DEF CandidateInv
<1>12. RecordInv'
  <2>1. ASSUME NEW q \in PathSet, q \notin touched
        PROVE  AsRecorded(q)'
    <3>1. CASE q = p
      <4>1. CASE step = "installed"
        <5>1. entry'[p] = File(tx'.candidate[p])
          BY <1>6, <1>8, <4>1
        <5>2. inodes'[tx'.candidate[p]].bytes = tx'.batch.result[p]
          BY <1>4, <1>5, <1>8
        <5>3. Candidate(p)'
          BY <5>1, <5>2 DEF Candidate
        <5> QED  BY <1>8, <3>1, <4>1, <5>3 DEF AsRecorded
      <4>2. CASE step = "backed_up"
        BY <1>6, <1>8, <3>1, <4>2 DEF AsRecorded
      <4> QED  BY <4>1, <4>2
    <3>2. CASE q # p
      <4>1. AsRecorded(q)
        BY <1>1, <1>2, <2>1 DEF RecordInv
      <4> QED  BY <1>1, <1>3, <1>8, <3>2, <4>1, RecordedElsewhere
    <3> QED  BY <3>1, <3>2
  <2> QED  BY <2>1 DEF RecordInv
<1>13. Exclusive(self) /\ Moves(self) /\ Locks(self) /\ Locked(self)' /\ ProcessInv(self)'
  BY <1>8, OwnerStays
<1> QED  BY <1>8, <1>11, <1>12, <1>13, OwnerStep

LEMMA InstallErrorStep ==
  ASSUME WInv, NEW self \in Procs, process[self].pc = "install", NEW error, Quiet,
         InstallError(self, error)
  PROVE  WInv'
<1>1. CASE Kind(self) = "commit"
  <2> DEFINE state == [process[self] EXCEPT !.pc = "rollback", !.error = error]
  <2>1. Moves(self) /\ process'[self] = state /\ UNCHANGED holders
    BY <1>1, CommandFacts, SetMoves DEF InstallError
  <2>2. /\ DOMAIN state = StateFields /\ state.pc = "rollback"
        /\ state.snapshot = process[self].snapshot
        /\ state.cmd = process[self].cmd /\ state.result = process[self].result
    BY CommandFacts DEF StateFields
  <2> HIDE DEF state
  <2>3. tx'.phase = "committing" /\ Grows
    BY CommandFacts, Unchanged DEF PointInv, Quiet, WInv
  <2>4. PointInv(self)'
    BY <2>1, <2>2, <2>3 DEF PointInv, Rechecking, Acquiring
  <2>5. ProcessInv(self)'
    BY <2>1, <2>2, <2>3, <2>4, CommandFacts, Elsewhere DEF Acquiring
  <2>6. self \in holders.exclusive
    BY CommandFacts DEF Exclusive, Owning
  <2>7. Locks(self) /\ Locked(self)'
    BY <2>1, <2>2, <2>6 DEF Locks, Locked, Sharing, Acquiring
  <2> QED  BY <2>1, <2>5, <2>7, QuietStep DEF Quiet
<1>2. CASE Kind(self) # "commit"
  BY <1>2, RefuseStep DEF InstallError
<1> QED  BY <1>1, <1>2

LEMMA CompleteCommitSteps ==
  ASSUME WInv, NEW self \in Procs, complete_commit_steps(self)
  PROVE  WInv'
<1> DEFINE targets == tx.batch.targets
           left == {k \in DOMAIN targets : tx.done[targets[k]] # "installed"}
           p == targets[Min(left)]
<1>1. process[self].pc = "install" /\ UNCHANGED <<touched, created>>
  BY DEF complete_commit_steps, At, Budgets
<1>2. TxInv /\ tx.phase = "committing" /\ Unfinished
  BY <1>1 DEF WInv, ProcessInv, PointInv, Unfinished, Completed
<1>3. /\ targets \in Seq(PathSet) /\ Targets = ToSet(targets)
      /\ \A k \in DOMAIN targets : targets[k] \in Targets
  BY <1>2, TxFacts
<1>4. CASE /\ left = {} /\ tx' = [tx EXCEPT !.phase = "committed"]
           /\ GoTo(self, "cleanup") /\ UNCHANGED <<entry, inodes, writer, holders>>
  <2>1. \A q \in Targets : tx.done[q] = "installed"
    BY <1>3, <1>4 DEF ToSet
  <2> QED  BY <1>1, <1>2, <1>4, <2>1, TerminalStep DEF Completed
<1>5. CASE InstallError(self, "RecoveryConflict") /\ UNCHANGED <<entry, inodes, writer, tx>>
  BY <1>1, <1>5, InstallErrorStep DEF Quiet
<1>6. CASE /\ left # {} /\ AsRecorded(p) /\ UNCHANGED <<process, holders>>
           /\ IF entry[p] = Absent
              THEN Rename(p, File(tx.candidate[p]), FALSE, "installed")
              ELSE Rename(p, Absent, TRUE, "backed_up")
  <2>1. left \subseteq 1 .. Len(targets) /\ Len(targets) \in Nat
    BY <1>3
  <2>2. Min(left) \in left
    BY <1>6, <2>1, FirstPosition
  <2>3. p \in Targets /\ tx.done[p] # "installed"
    BY <1>3, <2>2
  <2> HIDE DEF p
  <2> QED  BY <1>1, <1>6, <2>3, CommitRename
<1> QED  BY <1>4, <1>5, <1>6 DEF complete_commit_steps

LEMMA RollbackActive ==
  ASSUME WInv, NEW self \in Procs, recover_rollback_active(self)
  PROVE  WInv'
<1>1. process[self].pc = "rollback" /\ UNCHANGED Files /\ UNCHANGED created
  BY DEF recover_rollback_active, At, Budgets
<1>2. CASE RollbackConflict(self) /\ UNCHANGED tx
  BY <1>1, <1>2, RefuseStep DEF RollbackConflict, Quiet, Files
<1>3. CASE tx' = [tx EXCEPT !.phase = "rolling_back"] /\ GoTo(self, "restore") /\ UNCHANGED holders
  <2>1. /\ FileInv /\ TxInv /\ WriterInv /\ UNCHANGED <<entry, inodes, writer, touched>>
        /\ tx.phase \in {"prepared", "committing", "rolling_back"}
    BY <1>1 DEF WInv, ProcessInv, PointInv, Files
  <2>2. /\ FileInv' /\ TxInv' /\ Grows /\ tx'.phase = "rolling_back"
        /\ tx'.id = tx.id /\ tx'.before = tx.before
        /\ \A p : RecordedWriter(p)' = RecordedWriter(p)
    BY <1>1, <1>3, <2>1, PhaseChange DEF TxPhases
  <2>3. WriterInv'
    <3>1. Unfinished /\ Unfinished'
      BY <2>1, <2>2 DEF Unfinished, Completed
    <3> QED  BY <2>1, <2>2, <3>1 DEF WriterInv
  <2>4. CandidateInv' /\ RecordInv'
    BY <2>2 DEF CandidateInv, RecordInv
  <2>5. Exclusive(self) /\ Moves(self) /\ Locks(self) /\ Locked(self)' /\ ProcessInv(self)'
    BY <1>1, <1>3, <2>2, OwnerMoves DEF Owning
  <2> QED  BY <2>2, <2>3, <2>4, <2>5, OwnerStep
<1> QED  BY <1>2, <1>3 DEF recover_rollback_active

LEMMA RollbackAllTargets ==
  ASSUME WInv, NEW self \in Procs, rollback_all_targets(self)
  PROVE  WInv'
<1> DEFINE targets == tx.batch.targets
           left == {k \in DOMAIN targets : tx.done[targets[k]] # "none"}
           p == targets[Max(left)]
           original == IF tx.inputs[p][1] = 0 THEN Absent ELSE File(tx.inputs[p][1])
<1>1. process[self].pc = "restore" /\ UNCHANGED <<touched, created>>
  BY DEF rollback_all_targets, At, Budgets
<1>2. FileInv /\ TxInv /\ WriterInv /\ tx.phase = "rolling_back" /\ Unfinished
  BY <1>1 DEF WInv, ProcessInv, PointInv, Unfinished, Completed
<1>3. /\ targets \in Seq(PathSet) /\ Targets = ToSet(targets)
      /\ \A k \in DOMAIN targets : targets[k] \in Targets
      /\ \A q \in Targets : q \in PathSet
      /\ \A q \in PathSet : q \notin Targets => tx.done[q] = "none"
      /\ \A q \in PathSet : tx.inputs[q][1] \in 0 .. Len(inodes)
  BY <1>2, TxFacts
<1>4. CASE /\ left = {} /\ tx' = [tx EXCEPT !.phase = "rolled_back"]
           /\ GoTo(self, "cleanup") /\ UNCHANGED <<entry, inodes, writer, holders>>
  <2>1. \A q \in PathSet : tx.done[q] = "none"
    BY <1>3, <1>4 DEF ToSet
  <2> QED  BY <1>1, <1>2, <1>4, <2>1, TerminalStep DEF Completed
<1>5. CASE /\ Refuse(self, "TransactionRecoveryRequired")
           /\ UNCHANGED <<entry, inodes, writer, tx>>
  BY <1>1, <1>5, RefuseStep DEF Quiet
<1>6. CASE /\ left # {} /\ UNCHANGED <<process, holders>>
           /\ IF tx.done[p] = "installed" /\ tx.inputs[p][1] # 0
              THEN Rename(p, Absent, TRUE, "backed_up")
              ELSE Rename(p, original, FALSE, "none")
  <2>1. left \subseteq 1 .. Len(targets) /\ Len(targets) \in Nat
    BY <1>3
  <2>2. Max(left) \in left
    BY <1>6, <2>1, LastPosition
  <2>3. p \in Targets /\ p \in PathSet
    BY <1>3, <2>2
  <2> HIDE DEF p
  <2>4. original \in Entries(Len(inodes))
    <3>1. tx.inputs[p][1] \in 0 .. Len(inodes) /\ Len(inodes) \in Nat
      BY <1>2, <1>3, <2>3 DEF FileInv
    <3> QED  BY <3>1 DEF Entries
  <2>5. Absent \in Entries(Len(inodes))
    BY DEF Entries
  <2> HIDE DEF original
  <2>6. PICK to \in Entries(Len(inodes)), step \in {"none", "backed_up"} :
          Rename(p, to, step = "backed_up", step)
    <3>1. CASE Rename(p, Absent, TRUE, "backed_up")
      <4>1. ("backed_up" = "backed_up") = TRUE
        OBVIOUS
      <4>2. Rename(p, Absent, "backed_up" = "backed_up", "backed_up")
        BY <3>1, <4>1 DEF Rename, Writer
      <4> QED  BY <2>5, <4>2
    <3>2. CASE Rename(p, original, FALSE, "none")
      <4>1. ("none" = "backed_up") = FALSE
        OBVIOUS
      <4>2. Rename(p, original, "none" = "backed_up", "none")
        BY <3>2, <4>1 DEF Rename, Writer
      <4> QED  BY <2>4, <4>2
    <3> QED  BY <1>6, <3>1, <3>2
  <2>7. FileInv' /\ TxInv' /\ WriterInv' /\ Grows /\ tx'.phase = tx.phase
    BY <1>1, <1>2, <2>3, <2>6, RenameEffect
  <2>8. CandidateInv' /\ RecordInv'
    BY <1>2, <2>7 DEF CandidateInv, RecordInv
  <2>9. Exclusive(self) /\ Moves(self) /\ Locks(self) /\ Locked(self)' /\ ProcessInv(self)'
    BY <1>1, <1>6, <2>7, OwnerStays
  <2> QED  BY <2>7, <2>8, <2>9, OwnerStep
<1> QED  BY <1>4, <1>5, <1>6 DEF rollback_all_targets

\* The transaction directory goes, and the command ends.
LEMMA DropStep ==
  ASSUME WInv, NEW self \in Procs, process[self].pc \in {"cleanup", "recover"}, Settled,
         tx' = NoTx, UNCHANGED Files, UNCHANGED created,
         NEW result, NEW warned, End(self, result, << >>, warned)
  PROVE  WInv'
<1>1. FileInv' /\ TxInv' /\ WriterInv' /\ CandidateInv' /\ RecordInv' /\ Grows
  BY NoTransaction DEF WInv
<1>2. Moves(self) /\ Locks(self) /\ Locked(self)' /\ ProcessInv(self)'
  BY CommandFacts, Ends
<1>3. Exclusive(self)
  BY DEF Exclusive, Owning
<1> QED  BY <1>1, <1>2, <1>3, OwnerStep

LEMMA CleanupCompleted ==
  ASSUME WInv, NEW self \in Procs, cleanup_completed(self)
  PROVE  WInv'
<1>1. process[self].pc = "cleanup" /\ UNCHANGED Files /\ UNCHANGED created /\ tx' = NoTx
  BY DEF cleanup_completed, At, Budgets
<1>2. Settled
  <2>1. tx.phase \in Completed
    BY <1>1 DEF WInv, ProcessInv, PointInv
  <2> QED  BY <2>1 DEF WInv, WriterInv, Unfinished, Settled
<1>3. \E result, warned : End(self, result, << >>, warned)
  BY DEF cleanup_completed, RolledBack, Refuse
<1> QED  BY <1>1, <1>2, <1>3, DropStep

LEMMA RecoverLocked ==
  ASSUME WInv, NEW self \in Procs, recover_locked(self)
  PROVE  WInv'
<1>1. /\ process[self].pc = "recover" /\ UNCHANGED Files /\ UNCHANGED created
      /\ UNCHANGED <<entry, inodes, writer, touched>>
  BY DEF recover_locked, At, Budgets, Files
<1>2. /\ FileInv /\ TxInv /\ WriterInv /\ Grows /\ process[self].pc \in Owning
  BY <1>1, Unchanged DEF WInv, Owning
<1>3. CASE \E error : Refuse(self, error) /\ UNCHANGED tx
  BY <1>1, <1>3, RefuseStep DEF Quiet
<1>4. CASE tx.phase = "preparing" /\ tx' = NoTx /\ End(self, "rolled_back", << >>, FALSE)
  <2>1. Unfinished /\ \A p \in PathSet : tx.done[p] = "none"
    BY <1>2, <1>4, TxFacts DEF Unfinished, Completed
  <2>2. Settled
    BY <1>2, <2>1, WritersSettled
  <2> QED  BY <1>1, <1>4, <2>2, DropStep
<1>5. ASSUME NEW pc \in {"cleanup", "install", "rollback"}, GoTo(self, pc), UNCHANGED <<tx, holders>>,
             pc = "cleanup" => tx.phase \in Completed,
             pc = "install" => tx.phase = "committing",
             pc = "rollback" => tx.phase \in {"prepared", "committing", "rolling_back"}
      PROVE  WInv'
  <2>1. Moves(self) /\ Locks(self) /\ Locked(self)' /\ ProcessInv(self)'
    BY <1>2, <1>5, OwnerMoves DEF Owning
  <2> QED  BY <1>1, <1>5, <2>1, QuietStep
<1>6. CASE /\ tx.phase = "prepared" /\ UNCHANGED <<tx, holders>>
           /\ Set(self, AcquireSnapshot(process[self], "complete"))
  <2>1. process[self].result = "none" /\ self \in holders.exclusive
    BY <1>1, <1>2, CommandFacts DEF Exclusive
  <2>2. /\ Moves(self) /\ ProcessInv(self)' /\ process'[self].use = "complete"
        /\ process'[self].pc \in {"acquired", "validate"}
    BY <1>6, <2>1, CommandFacts, Looks
  <2>3. Locks(self) /\ Locked(self)'
    BY <1>6, <2>1, <2>2 DEF Locks, Locked, Sharing
  <2> QED  BY <1>1, <1>6, <2>2, <2>3, QuietStep
<1> QED  BY <1>3, <1>4, <1>5, <1>6 DEF recover_locked

-----------------------------------------------------------------------------
(***************************************************************************)
(* Users.                                                                  *)
(***************************************************************************)
LEMMA StartCommand ==
  ASSUME WInv, NEW self \in Procs, Start(self)
  PROVE  WInv'
<1>1. PICK cmd \in Commands \cup Recoveries :
        Set(self, IF cmd.kind = "commit"
                  THEN AcquireSnapshot([Idle EXCEPT !.pc = "diagnose", !.cmd = cmd], "prelock")
                  ELSE [Idle EXCEPT !.pc = "diagnose", !.cmd = cmd])
  BY DEF Start
<1> DEFINE state == [Idle EXCEPT !.pc = "diagnose", !.cmd = cmd]
<1>2. /\ DOMAIN state = StateFields /\ state.pc = "diagnose" /\ state.cmd = cmd
      /\ state.result = "none" /\ state.snapshot = << >>
  BY DEF Idle, StateFields
<1>3. Quiet /\ UNCHANGED holders
  BY DEF Start, Quiet, Files
<1>4. cmd \in Commands \/ cmd.kind \in {"none", "complete", "rollback"}
  BY DEF Recoveries
<1>5. /\ cmd.kind = "commit" => Set(self, AcquireSnapshot(state, "prelock"))
      /\ cmd.kind # "commit" => Set(self, state)
  BY <1>1
<1> HIDE DEF state
<1>6. CASE cmd.kind = "commit"
  <2>1. /\ Moves(self) /\ ProcessInv(self)' /\ process'[self].use = "prelock"
        /\ process'[self].pc \in {"acquired", "validate"}
    BY <1>2, <1>4, <1>5, <1>6, CommandFacts, Looks
  <2>2. Locks(self) /\ Locked(self)'
    BY <1>3, <2>1 DEF Locks, Locked, Exclusive, Sharing, Owning, Acquiring
  <2> QED  BY <1>3, <2>1, <2>2, QuietStep DEF Quiet
<1>7. CASE cmd.kind # "commit"
  <2>1. Moves(self) /\ process'[self] = state
    BY <1>5, <1>7, CommandFacts, SetMoves
  <2>2. PointInv(self)'
    BY <1>2, <2>1 DEF PointInv, Rechecking, Acquiring
  <2>3. ProcessInv(self)'
    BY <1>2, <1>4, <2>1, <2>2, Elsewhere DEF Acquiring
  <2>4. Locks(self) /\ Locked(self)'
    BY <1>2, <1>3, <2>1 DEF Locks, Locked, Exclusive, Sharing, Owning, Acquiring
  <2> QED  BY <1>3, <2>1, <2>3, <2>4, QuietStep DEF Quiet
<1> QED  BY <1>6, <1>7

LEMMA CrashOf ==
  ASSUME WInv, NEW self \in Procs, Crash(self)
  PROVE  WInv'
<1>1. Set(self, Idle) /\ holders' = Released(self) /\ Quiet
  BY DEF Crash, Quiet, Files
<1>2. /\ DOMAIN Idle = StateFields /\ Idle.pc = "idle" /\ Idle.cmd.kind = "none"
      /\ Idle.result = "none" /\ Idle.snapshot = << >>
  BY DEF Idle, StateFields
<1>3. Moves(self) /\ process'[self] = Idle
  BY <1>1, CommandFacts, SetMoves
<1>4. PointInv(self)'
  BY <1>2, <1>3 DEF PointInv, Rechecking, Acquiring
<1>5. ProcessInv(self)'
  BY <1>2, <1>3, <1>4, Elsewhere DEF Acquiring
<1>6. Locks(self) /\ Locked(self)'
  BY <1>1, <1>2, <1>3 DEF Locks, Locked, Exclusive, Sharing, Owning, Acquiring
<1> QED  BY <1>1, <1>3, <1>5, <1>6, QuietStep DEF Quiet

\* An edit shows in its writers, in what is touched, and nowhere else.
LEMMA EditStep ==
  ASSUME WInv, NEW edited \in SUBSET PathSet, Edited(edited), Grows,
         entry' \in [PathSet -> Entries(Len(inodes'))],
         \A q \in PathSet : q \notin edited =>
           /\ entry'[q] = entry[q]
           /\ \A i : entry[q] = File(i) => inodes'[i].bytes = inodes[i].bytes,
         \A i \in Len(Contents) + 1 .. Len(inodes) :
           /\ (\A q \in PathSet : entry[q] # File(i)) => inodes'[i].bytes = inodes[i].bytes
           /\ \A q \in PathSet : entry'[q] = File(i) => entry[q] = File(i)
  PROVE  WInv'
<1>1. /\ FileInv /\ LockInv /\ TxInv /\ WriterInv /\ CandidateInv /\ RecordInv
      /\ DOMAIN process = Procs /\ \A t \in Procs : ProcessInv(t)
      /\ writer \in [PathSet -> WriterRecord] /\ created \in Nat
      /\ inodes \in Seq(Inode) /\ Len(Contents) <= Len(inodes)
  BY DEF WInv, FileInv
<1>2. /\ touched' = touched \cup edited
      /\ writer' = [p \in PathSet |-> IF p \in edited THEN User ELSE writer[p]]
      /\ UNCHANGED <<holders, tx, process, created>>
  BY DEF Edited
<1>3. /\ User \in WriterRecord /\ User.tx = 0 /\ User.user = TRUE /\ User.hole = FALSE
  BY DEF User, WriterRecord
<1>4. \A p \in PathSet : writer'[p] = User \/ writer'[p] = writer[p]
  BY <1>2
<1>5. FileInv'
  <2>1. writer' \in [PathSet -> WriterRecord]
    BY <1>1, <1>2, <1>3
  <2>2. \A p \in PathSet : writer'[p].tx <= created'
    BY <1>1, <1>2, <1>3, <1>4 DEF FileInv
  <2>3. Len(Contents) <= Len(inodes') /\ inodes' \in Seq(Inode)
    BY <1>1, WorkspaceAssumption DEF Grows
  <2> QED  BY <1>1, <1>2, <2>1, <2>2, <2>3 DEF FileInv
<1>6. LockInv'
  BY <1>1, <1>2 DEF LockInv, Exclusive, Sharing
<1>7. TxInv'
  <2>1. \A i : i \in 0 .. Len(inodes) => i \in 0 .. Len(inodes')
    BY <1>1 DEF Grows
  <2> QED  BY <1>1, <1>2, <2>1 DEF TxInv, Targets
<1>8. \A first, second, q : first.user \/ second.user => Agree(first, second, q)
  BY DEF Agree
<1>9. WriterInv'
  <2>1. CASE Unfinished
    <3>1. /\ tx.before \in [PathSet -> WriterRecord]
          /\ \A p \in PathSet : ~tx.before[p].hole /\ tx.before[p].tx < tx.id
          /\ \A p, q \in PathSet : Agree(tx.before[p], tx.before[q], q)
          /\ \A p \in PathSet : writer[p] \in {User, RecordedWriter(p)}
      BY <1>1, <2>1 DEF WriterInv
    <3>2. Unfinished' /\ \A p : RecordedWriter(p)' = RecordedWriter(p)
      BY <1>2, <2>1 DEF Unfinished, RecordedWriter, Targets
    <3>3. \A p \in PathSet : writer'[p] \in {User, RecordedWriter(p)'}
      BY <1>4, <3>1, <3>2
    <3> QED  BY <1>2, <3>1, <3>2, <3>3 DEF WriterInv
  <2>2. CASE ~Unfinished
    <3>1. /\ \A p \in PathSet : ~writer[p].hole
          /\ \A p, q \in PathSet : Agree(writer[p], writer[q], q)
      BY <1>1, <2>2 DEF WriterInv
    <3>2. \A p \in PathSet : ~writer'[p].hole
      BY <1>3, <1>4, <3>1
    <3>3. \A p, q \in PathSet : Agree(writer'[p], writer'[q], q)
      BY <1>3, <1>4, <1>8, <3>1
    <3>4. ~Unfinished'
      BY <1>2, <2>2 DEF Unfinished
    <3> QED  BY <3>2, <3>3, <3>4 DEF WriterInv
  <2> QED  BY <2>1, <2>2
<1>10. CandidateInv'
  <2>1. CASE tx.phase \in {"prepared", "committing"}
    <3>1. /\ \A p \in Targets : tx.candidate[p] \in Len(Contents) + 1 .. Len(inodes)
          /\ \A p, q \in Targets : p # q => tx.candidate[p] # tx.candidate[q]
          /\ \A p \in Targets : tx.done[p] # "installed" =>
               inodes[tx.candidate[p]].bytes = tx.batch.result[p]
          /\ \A p \in Targets, q \in PathSet : entry[q] = File(tx.candidate[p]) =>
               q = p /\ tx.done[p] = "installed"
      BY <1>1, <2>1 DEF CandidateInv
    <3>2. Targets' = Targets
      BY <1>2 DEF Targets
    <3>3. \A p \in Targets : tx.candidate[p] \in Len(Contents) + 1 .. Len(inodes')
      BY <1>1, <3>1, WorkspaceAssumption DEF Grows
    <3>4. ASSUME NEW p \in Targets, tx.done[p] # "installed"
          PROVE  inodes'[tx.candidate[p]].bytes = tx.batch.result[p]
      <4>1. \A q \in PathSet : entry[q] # File(tx.candidate[p])
        BY <3>1, <3>4
      <4>2. tx.candidate[p] \in Len(Contents) + 1 .. Len(inodes)
        BY <3>1
      <4>3. inodes'[tx.candidate[p]].bytes = inodes[tx.candidate[p]].bytes
        BY <4>1, <4>2
      <4> QED  BY <3>1, <3>4, <4>3
    <3>5. ASSUME NEW p \in Targets, NEW q \in PathSet, entry'[q] = File(tx.candidate[p])
          PROVE  q = p /\ tx.done[p] = "installed"
      <4>1. tx.candidate[p] \in Len(Contents) + 1 .. Len(inodes)
        BY <3>1
      <4>2. entry[q] = File(tx.candidate[p])
        BY <3>5, <4>1
      <4> QED  BY <3>1, <4>2
    <3> QED  BY <1>2, <3>1, <3>2, <3>3, <3>4, <3>5 DEF CandidateInv
  <2>2. CASE tx.phase \notin {"prepared", "committing"}
    BY <1>2, <2>2 DEF CandidateInv
  <2> QED  BY <2>1, <2>2
<1>11. ASSUME NEW q \in PathSet, q \notin touched'
       PROVE  /\ q \notin touched /\ entry'[q] = entry[q]
              /\ \A i : entry[q] = File(i) => inodes'[i].bytes = inodes[i].bytes
  BY <1>2, <1>11
<1>12. RecordInv'
  <2>1. ASSUME tx.phase = "committing", NEW q \in PathSet, q \notin touched'
        PROVE  AsRecorded(q)'
    <3>1. /\ AsRecorded(q) /\ tx.done[q] \in {"none", "backed_up", "installed"}
      BY <1>1, <1>11, <2>1, TxFacts DEF RecordInv
    <3>2. /\ entry'[q] = entry[q] /\ UNCHANGED tx
          /\ \A i : entry[q] = File(i) => inodes'[i].bytes = inodes[i].bytes
      BY <1>2, <1>11, <2>1
    <3>3. CASE tx.done[q] = "none"
      <4>1. Original(q)
        BY <3>1, <3>3 DEF AsRecorded
      <4>2. Original(q)'
        BY <3>2, <4>1 DEF Original
      <4> QED  BY <3>2, <3>3, <4>2 DEF AsRecorded
    <3>4. CASE tx.done[q] = "backed_up"
      BY <3>1, <3>2, <3>4 DEF AsRecorded
    <3>5. CASE tx.done[q] = "installed"
      <4>1. Candidate(q)
        BY <3>1, <3>5 DEF AsRecorded
      <4>2. Candidate(q)'
        BY <3>2, <4>1 DEF Candidate
      <4> QED  BY <3>2, <3>5, <4>2 DEF AsRecorded
    <3> QED  BY <3>1, <3>3, <3>4, <3>5
  <2> QED  BY <1>2, <2>1 DEF RecordInv
<1>13. ASSUME NEW t \in Procs
       PROVE  ProcessInv(t)'
  <2>1. OwnInv(t) /\ PointInv(t) /\ ViewInv(t) /\ RecheckInv(t) /\ SeenInv(t)
    BY <1>1 DEF ProcessInv, OwnInv
  <2>2. OwnInv(t)'
    BY <1>1, <1>2, <2>1, Bystander
  <2>3. PointInv(t)'
    BY <1>2, <2>1 DEF PointInv, Rechecking
  <2>4. ViewInv(t)'
    <3> DEFINE seen == process[t].snapshot
    <3>1. CASE Viewing(t)
      <4>1. /\ ~Unfinished
            /\ \A p \in DOMAIN seen : /\ ~seen[p].writer.hole
                                      /\ writer[p] \in {User, seen[p].writer}
                                      /\ seen[p].writer.tx <= created
            /\ \A p, q \in DOMAIN seen : Agree(seen[p].writer, seen[q].writer, q)
            /\ \A p \in PathSet, q \in DOMAIN seen :
                 Agree(writer[p], seen[q].writer, q) /\ Agree(seen[q].writer, writer[p], p)
        BY <2>1, <3>1 DEF ViewInv
      <4>2. ~Unfinished' /\ \A p \in DOMAIN seen : p \in PathSet
        BY <1>2, <2>1, <4>1 DEF Unfinished, SeenInv
      <4>3. \A p \in DOMAIN seen : writer'[p] \in {User, seen[p].writer}
        BY <1>4, <4>1, <4>2
      <4>4. \A p \in PathSet, q \in DOMAIN seen :
              Agree(writer'[p], seen[q].writer, q) /\ Agree(seen[q].writer, writer'[p], p)
        BY <1>3, <1>4, <1>8, <4>1
      <4> QED  BY <1>2, <4>1, <4>2, <4>3, <4>4 DEF ViewInv
    <3>2. CASE ~Viewing(t)
      BY <1>2, <3>2 DEF ViewInv, Viewing
    <3> QED  BY <3>1, <3>2
  <2>5. RecheckInv(t)'
    <3>1. CASE Rechecking(t)
      <4>1. ASSUME NEW p \in DOMAIN process[t].snapshot, p \notin touched'
            PROVE  IsCurrent(p, process[t].snapshot[p])'
        <5>1. p \in PathSet
          BY <2>1 DEF SeenInv
        <5>2. /\ p \notin touched /\ entry'[p] = entry[p]
              /\ \A i : entry[p] = File(i) => inodes'[i].bytes = inodes[i].bytes
          BY <1>11, <4>1, <5>1
        <5>3. IsCurrent(p, process[t].snapshot[p])
          BY <2>1, <3>1, <5>2 DEF RecheckInv
        <5> QED  BY <1>2, <5>2, <5>3 DEF IsCurrent
      <4> QED  BY <1>2, <4>1 DEF RecheckInv
    <3>2. CASE ~Rechecking(t)
      BY <1>2, <3>2 DEF RecheckInv, Rechecking
    <3> QED  BY <3>1, <3>2
  <2> QED  BY <2>2, <2>3, <2>4, <2>5 DEF ProcessInv, OwnInv
<1> QED  BY <1>1, <1>2, <1>5, <1>6, <1>7, <1>9, <1>10, <1>12, <1>13 DEF WInv

LEMMA WriteInPlace ==
  ASSUME WInv, NEW p \in PathSet, write_in_place(p)
  PROVE  WInv'
<1> DEFINE i == entry[p].inode
           edited == {q \in PathSet : entry[q] = entry[p]}
<1>1. PICK value \in EditedTo : inodes' = [inodes EXCEPT ![i] = Stamped(i, Whole(value))]
  BY DEF write_in_place
<1>2. entry[p].kind = "file" /\ UNCHANGED entry /\ Edited(edited) /\ edited \in SUBSET PathSet
  BY DEF write_in_place
<1>3. /\ FileInv /\ inodes \in Seq(Inode) /\ entry \in [PathSet -> Entries(Len(inodes))]
  BY DEF WInv, FileInv
<1>4. entry[p] = File(i) /\ i \in 1 .. Len(inodes)
  BY <1>2, <1>3, EntryKinds
<1> HIDE DEF i, edited
<1>5. \A j \in 1 .. Len(inodes) : inodes[j] \in Inode
  BY <1>3
<1>6. \A j \in 1 .. Len(inodes) : inodes[j].stamp \in Nat
  BY <1>5 DEF Inode
<1>7. Stamped(i, Whole(value)) \in Inode /\ Stamped(i, Whole(value)).stamp = inodes[i].stamp + 1
  <2>1. Whole(value) \in Bytes
    BY DEF Bytes
  <2> QED  BY <1>4, <1>6, <2>1 DEF Stamped, Inode
<1>8. /\ inodes' \in Seq(Inode) /\ Len(inodes') = Len(inodes)
      /\ inodes'[i] = Stamped(i, Whole(value))
      /\ \A j \in 1 .. Len(inodes) : j # i => inodes'[j] = inodes[j]
  <2>1. i \in DOMAIN inodes
    BY <1>3, <1>4
  <2> QED  BY <1>1, <1>3, <1>4, <1>7, <2>1
<1>9. Grows
  BY <1>3, <1>4, <1>6, <1>7, <1>8 DEF Grows
<1>10. ASSUME NEW q \in PathSet, NEW j, entry[q] = File(j), q \notin edited
       PROVE  inodes'[j].bytes = inodes[j].bytes
  <2>1. j \in 1 .. Len(inodes) /\ j # i
    BY <1>3, <1>4, <1>10, FileNamed DEF edited
  <2> QED  BY <1>8, <2>1
<1>11. ASSUME NEW j \in Len(Contents) + 1 .. Len(inodes), \A q \in PathSet : entry[q] # File(j)
       PROVE  inodes'[j].bytes = inodes[j].bytes
  <2>1. j # i /\ j \in 1 .. Len(inodes)
    BY <1>3, <1>4, <1>11, WorkspaceAssumption
  <2> QED  BY <1>8, <2>1
<1> QED  BY <1>2, <1>3, <1>8, <1>9, <1>10, <1>11, EditStep

LEMMA ReplaceFile ==
  ASSUME WInv, NEW p \in PathSet, replace_file(p)
  PROVE  WInv'
<1> DEFINE n == Len(inodes)
           edited == {p}
<1>1. PICK value \in EditedTo : inodes' = Append(inodes, [bytes |-> Whole(value), stamp |-> 0])
  BY DEF replace_file
<1>2. /\ entry' = [entry EXCEPT ![p] = File(n + 1)] /\ Edited(edited) /\ edited \in SUBSET PathSet
  BY DEF replace_file
<1>3. /\ FileInv /\ inodes \in Seq(Inode) /\ entry \in [PathSet -> Entries(n)] /\ n \in Nat
  BY DEF WInv, FileInv
<1>4. [bytes |-> Whole(value), stamp |-> 0] \in Inode
  <2>1. Whole(value) \in Bytes
    BY DEF Bytes
  <2> QED  BY <2>1 DEF Inode
<1>5. /\ inodes' \in Seq(Inode) /\ Len(inodes') = n + 1
      /\ \A j \in 1 .. n : inodes'[j] = inodes[j]
  BY <1>1, <1>3, <1>4
<1>6. \A j \in 1 .. n : inodes[j] \in Inode
  BY <1>3
<1>7. \A j \in 1 .. n : inodes[j].stamp \in Nat
  BY <1>6 DEF Inode
<1>8. Grows
  BY <1>3, <1>5, <1>7 DEF Grows
<1>9. entry' \in [PathSet -> Entries(Len(inodes'))]
  <2>1. Entries(n) \subseteq Entries(n + 1) /\ File(n + 1) \in Entries(n + 1)
    BY <1>3 DEF Entries
  <2> QED  BY <1>2, <1>3, <1>5, <2>1
<1>10. \A q \in PathSet : q \notin edited => entry'[q] = entry[q]
  BY <1>2, <1>3
<1>11. ASSUME NEW q \in PathSet, NEW j, entry[q] = File(j)
       PROVE  inodes'[j].bytes = inodes[j].bytes
  BY <1>3, <1>5, <1>11, FileNamed
<1>12. ASSUME NEW j \in Len(Contents) + 1 .. n
       PROVE  /\ inodes'[j].bytes = inodes[j].bytes
              /\ \A q \in PathSet : entry'[q] = File(j) => entry[q] = File(j)
  <2>1. j \in 1 .. n /\ j # n + 1
    BY <1>3, WorkspaceAssumption
  <2>2. File(j) # File(n + 1)
    BY <2>1 DEF File
  <2>3. inodes'[j].bytes = inodes[j].bytes
    BY <1>5, <2>1
  <2>4. ASSUME NEW q \in PathSet, entry'[q] = File(j)
        PROVE  entry[q] = File(j)
    <3>1. entry'[p] = File(n + 1)
      BY <1>2, <1>3
    <3>2. q # p
      BY <2>2, <2>4, <3>1
    <3> QED  BY <1>2, <1>3, <2>4, <3>2
  <2> QED  BY <2>3, <2>4
<1> HIDE DEF edited
<1> QED  BY <1>2, <1>8, <1>9, <1>10, <1>11, <1>12, EditStep

LEMMA ReplaceEntry ==
  ASSUME WInv, NEW p \in PathSet, replace_entry(p)
  PROVE  WInv'
<1> DEFINE edited == {p}
<1>1. PICK other \in Replacements : entry' = [entry EXCEPT ![p] = other]
  BY DEF replace_entry
<1>2. /\ UNCHANGED inodes /\ Edited(edited) /\ edited \in SUBSET PathSet
  BY DEF replace_entry
<1>3. /\ FileInv /\ entry \in [PathSet -> Entries(Len(inodes))] /\ Len(inodes) \in Nat
      /\ Len(Contents) \in Nat /\ Len(Contents) <= Len(inodes)
  BY WorkspaceAssumption DEF WInv, FileInv
<1>4. Grows
  BY <1>2, <1>3, Unchanged
<1>5. other \in Entries(Len(Contents))
  BY WorkspaceAssumption
<1>6. other \in Entries(Len(inodes))
  BY <1>3, <1>5 DEF Entries
<1>7. entry' \in [PathSet -> Entries(Len(inodes'))]
  BY <1>1, <1>2, <1>3, <1>6
<1>8. \A q \in PathSet : q \notin edited => entry'[q] = entry[q]
  BY <1>1, <1>3
<1>9. ASSUME NEW j \in Len(Contents) + 1 .. Len(inodes), NEW q \in PathSet, entry'[q] = File(j)
      PROVE  entry[q] = File(j)
  <2>1. other # File(j)
    BY <1>3, <1>5 DEF Entries, File, Absent, Symlink, Special
  <2> QED  BY <1>1, <1>3, <1>9, <2>1
<1> HIDE DEF edited
<1> QED  BY <1>2, <1>4, <1>7, <1>8, <1>9, EditStep

-----------------------------------------------------------------------------
(***************************************************************************)
(* The invariant, and what follows from it.                                *)
(***************************************************************************)
LEMMA InitHolds == Init => WInv
<1> SUFFICES ASSUME Init
             PROVE  WInv
  OBVIOUS
<1>1. /\ entry \in Layouts /\ holders = NoLocks /\ tx = NoTx /\ created = 0
      /\ inodes = [i \in DOMAIN Contents |-> [bytes |-> Whole(Contents[i]), stamp |-> 0]]
      /\ process = [self \in Procs |-> Idle]
      /\ writer = [p \in PathSet |-> Writer(0, {}, FALSE)]
  BY DEF Init
<1>2. Contents \in Seq(ToSet(Contents)) /\ Len(Contents) \in Nat /\ DOMAIN Contents = 1 .. Len(Contents)
  BY WorkspaceAssumption
<1>3. inodes \in Seq(Inode) /\ Len(inodes) = Len(Contents)
  <2>1. ASSUME NEW i \in DOMAIN Contents
        PROVE  inodes[i] \in Inode
    <3>1. Contents[i] \in ToSet(Contents)
      BY DEF ToSet
    <3>2. Whole(Contents[i]) \in Bytes
      BY <3>1 DEF Bytes
    <3>3. inodes[i] = [bytes |-> Whole(Contents[i]), stamp |-> 0]
      BY <1>1
    <3> QED  BY <3>2, <3>3 DEF Inode
  <2>2. inodes \in [1 .. Len(Contents) -> Inode]
    BY <1>1, <1>2, <2>1
  <2> QED  BY <1>2, <2>2, FunctionIsSequence
<1>4. FileInv
  <2>1. entry \in [PathSet -> Entries(Len(inodes))]
    BY <1>1, <1>3, WorkspaceAssumption
  <2>2. Writer(0, {}, FALSE) \in WriterRecord /\ Writer(0, {}, FALSE).tx = 0
    BY DEF Writer, WriterRecord
  <2> DEFINE first == Writer(0, {}, FALSE)
  <2>3. writer = [p \in PathSet |-> first] /\ first \in WriterRecord /\ first.tx = 0
    BY <1>1, <2>2
  <2> HIDE DEF first
  <2>4. writer \in [PathSet -> WriterRecord] /\ \A p \in PathSet : writer[p].tx <= 0
    BY <2>3
  <2>5. Len(Contents) <= Len(inodes)
    BY <1>2, <1>3
  <2> QED  BY <1>1, <1>3, <2>1, <2>4, <2>5 DEF FileInv
<1>5. /\ DOMAIN Idle = StateFields /\ Idle.pc = "idle" /\ Idle.cmd.kind = "none"
      /\ Idle.result = "none" /\ Idle.snapshot = << >>
  BY DEF Idle, StateFields
<1>6. DOMAIN process = Procs /\ \A t \in Procs : process[t] = Idle
  BY <1>1
<1>7. LockInv
  BY <1>1, <1>5, <1>6 DEF LockInv, NoLocks, Exclusive, Sharing, Owning, Acquiring
<1>8. tx.phase = "none"
  BY <1>1 DEF NoTx
<1>9. TxInv /\ CandidateInv /\ RecordInv
  BY <1>1, <1>8 DEF TxInv, CandidateInv, RecordInv
<1>10. WriterInv
  BY <1>1, <1>8 DEF WriterInv, Unfinished, Writer, Agree
<1>11. ASSUME NEW t \in Procs
       PROVE  ProcessInv(t)
  <2>1. process[t] = Idle
    BY <1>6
  <2>2. CommandInv(t) /\ PointInv(t) /\ HandleInv(t)
    BY <1>5, <2>1 DEF CommandInv, PointInv, HandleInv, Kind, Rechecking, Acquiring
  <2>3. SeenInv(t) /\ ViewInv(t) /\ RecheckInv(t) /\ ReportInv(t)
    BY <1>5, <2>1 DEF SeenInv, ViewInv, Viewing, RecheckInv, Rechecking, ReportInv, Acquiring
  <2> QED  BY <2>2, <2>3 DEF ProcessInv
<1> QED  BY <1>4, <1>6, <1>7, <1>9, <1>10, <1>11 DEF WInv

LEMMA StutterHolds ==
  ASSUME WInv, UNCHANGED vars
  PROVE  WInv'
<1>1. /\ UNCHANGED <<entry, inodes, holders, tx, process, created, writer, touched>>
  BY DEF vars
<1>2. Grows
  BY <1>1, Unchanged DEF WInv
<1>3. FileInv' /\ LockInv' /\ TxInv'
  BY <1>1 DEF WInv, FileInv, LockInv, Exclusive, Sharing, TxInv, Targets
<1>4. WriterInv'
  BY <1>1 DEF WInv, WriterInv, Unfinished, RecordedWriter, Targets
<1>5. CandidateInv' /\ RecordInv'
  BY <1>1 DEF WInv, CandidateInv, RecordInv, Targets, AsRecorded, Original, Candidate
<1>6. ASSUME NEW t \in Procs
      PROVE  ProcessInv(t)'
  <2>1. OwnInv(t) /\ PointInv(t) /\ ViewInv(t) /\ RecheckInv(t)
    BY ProcessParts DEF WInv
  <2>2. OwnInv(t)'
    BY <1>1, <1>2, <2>1, Bystander DEF WInv
  <2>3. PointInv(t)' /\ ViewInv(t)'
    BY <1>1, <2>1 DEF PointInv, ViewInv, Viewing, Unfinished, Rechecking
  <2>4. RecheckInv(t)'
    BY <1>1, <2>1 DEF RecheckInv, Rechecking, IsCurrent
  <2> QED  BY <2>2, <2>3, <2>4 DEF ProcessInv, OwnInv
<1> QED  BY <1>1, <1>3, <1>4, <1>5, <1>6 DEF WInv

LEMMA NextHolds ==
  ASSUME WInv, [Next]_vars
  PROVE  WInv'
<1>1. ASSUME NEW self \in Procs, Step(self)
      PROVE  WInv'
  BY <1>1, ValidatePath, OpenSnapshotFile, AcquireExisting, DiagnosticLock, Share,
     DiagnosticContext, CreateControlTree, MutationLock, GateNewTransaction, Report,
     PrelockPlan, LockedPlan, Prepare, StartCommitting, CompleteCommitSteps, RollbackActive,
     RollbackAllTargets, CleanupCompleted, RecoverLocked DEF Step
<1>2. ASSUME NEW self \in Procs, Start(self) \/ Crash(self)
      PROVE  WInv'
  BY <1>2, StartCommand, CrashOf
<1>3. ASSUME NEW p \in PathSet, write_in_place(p) \/ replace_file(p) \/ replace_entry(p)
      PROVE  WInv'
  BY <1>3, WriteInPlace, ReplaceFile, ReplaceEntry
<1>4. CASE UNCHANGED vars
  BY <1>4, StutterHolds
<1> QED  BY <1>1, <1>2, <1>3, <1>4 DEF Next

\* Every step of the commands that share a workspace, of users and of crashes
\* (apply, inspect, recover and the flock of the control tree) preserves the
\* invariant.
THEOREM InvariantHolds == Spec => []WInv
<1>1. Init => WInv
  BY InitHolds
<1>2. WInv /\ [Next]_vars => WInv'
  BY NextHolds
<1> QED  BY <1>1, <1>2, PTL DEF Spec

\* A report of inspect or apply --preview shows contents that each file had at
\* one moment and, unless it warns that no lock coordinated it, no transaction
\* of another process half done (diagnostic_context, acquire_existing_attempt
\* and the flock of the control tree), however many processes, paths, edits
\* and crashes there are.
THEOREM ReportsShowOneState == Spec => []ReportsOneState
<1>1. WInv => ReportsOneState
  <2> SUFFICES ASSUME WInv, NEW self \in Procs, process[self].result = "reported"
               PROVE  /\ \A p \in DOMAIN process[self].snapshot :
                           \/ process[self].snapshot[p].bytes = << >>
                           \/ process[self].snapshot[p].bytes[1] = process[self].snapshot[p].bytes[2]
                      /\ ~process[self].warned => ~HalfInstalled(process[self].snapshot)
    BY DEF ReportsOneState
  <2>1. SeenInv(self) /\ ReportInv(self)
    BY DEF WInv, ProcessInv
  <2> QED  BY <2>1, WholeBytes DEF SeenInv, ReportInv
<1> QED  BY <1>1, InvariantHolds, PTL

\* While a transaction replaces files, by its commit or by a later recovery,
\* every input of its plan that nobody edited since the last look at it is as
\* the manifest records it, and the plan is one the user accepted
\* (execute_commit, gate_new_transaction and revalidate_manifest_inputs).
THEOREM PlanHolds == Spec => []PlanHoldsWhileCommitting
<1>1. WInv => PlanHoldsWhileCommitting
  <2> SUFFICES ASSUME WInv, tx.phase = "committing"
               PROVE  /\ \A p \in PathSet \ touched : AsRecorded(p)
                      /\ tx.expect # {} => tx.inputs \in tx.expect
    BY DEF PlanHoldsWhileCommitting
  <2>1. RecordInv /\ TxInv
    BY DEF WInv
  <2> QED  BY <2>1, TxFacts DEF RecordInv
<1> QED  BY <1>1, InvariantHolds, PTL
=============================================================================
