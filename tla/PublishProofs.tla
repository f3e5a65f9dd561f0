---------------------------- MODULE PublishProofs ----------------------------
(***************************************************************************)
(* Theorems about HistoryPublish, for every number of archives, files,     *)
(* checkpoints, faults and restarts.                                       *)
(*                                                                         *)
(* The properties are not inductive by themselves.  IInv adds what order   *)
(* the queue is in (QueueInv), which state a file is in while a subprocess *)
(* works on it (TaskInv), and what the files a publisher has sent mean for *)
(* the archive (HeldInv).                                                  *)
(***************************************************************************)
EXTENDS HistoryPublish, TLAPS

Publisher == [state: PublishStates, retry: Nat, err: BOOLEAN,
              files: SUBSET Files, put: {"snap", "wellKnown"}]

InfoOfTask(t) == InfoOf(t.arch, t.file)

\* The state of a file while a subprocess works on it.
Busy(op) == CASE op = "compress" -> "COMPRESSING"
              [] op = "mkdir"    -> "MAKING_DIR"
              [] op = "put"      -> "UPLOADING"

Ready == {"NEEDED", "COMPRESSED", "MADE_DIR"}
InWork == {"COMPRESSING", "MAKING_DIR", "UPLOADING"}

\* A subprocess of the publication in progress.
Live(t) == stage = "publishing" /\ t.snap = front

\* Checkpoints are queued in their order, and none is older than what an
\* archive announces.
QueueInv ==
    /\ stage = "idle" <=> pending = <<>>
    /\ \A i \in DOMAIN pending : pending[i] <= taken
    /\ \A i, j \in DOMAIN pending : i < j => pending[i] < pending[j]
    /\ \A a \in Archives :
          /\ wellKnown[a] <= taken
          /\ \A i \in DOMAIN pending : wellKnown[a] <= pending[i]
          /\ pub[a].state # "NONE" => stage = "publishing"

\* The subprocesses of the current publication are those its files say, one
\* per file; older ones are left over from publishers that gave up.
TaskInv ==
    /\ \A t \in tasks :
          /\ t.snap <= taken
          /\ pending # <<>> => t.snap <= front
          /\ pending # <<>> /\ stage # "publishing" => t.snap < front
          /\ Live(t) => fileState[InfoOfTask(t)] = Busy(t.op)
          /\ Live(t) /\ pub[t.arch].state # "NONE" => t.file \in pub[t.arch].files
    /\ \A t, u \in tasks :
          t.snap = u.snap /\ InfoOfTask(t) = InfoOfTask(u) => t = u

\* What a publisher needs of checkpoint s in an archive that announces w.
Complete(s, w, files) ==
    /\ BlocksOf(s) \subseteq files
    /\ DifferingBuckets(s, w) \subseteq files

\* An uploaded bucket is in the publisher's archive, an uploaded ledger file
\* in some archive; a publisher commits when all it needs is uploaded.
HeldInv ==
    /\ \A a \in Archives : \A f \in pub[a].files \cap Buckets :
          fileState[InfoOf(a, f)] = "UPLOADED" => f \in remote[a]
    /\ \A f \in Blocks \X Snaps :
          fileState[<<"snap", f>>] = "UPLOADED" => \E b \in Archives : f \in remote[b]
    /\ \A a \in Archives : pub[a].state \in {"SENDING", "COMMITTING"} =>
          Complete(front, wellKnown[a], pub[a].files)
    /\ \A a \in Archives : pub[a].state = "COMMITTING" =>
          \A f \in pub[a].files : fileState[InfoOf(a, f)] = "UPLOADED"

\* Every ledger file of a checkpoint an archive describes is in an archive.
BlocksSomewhere ==
    \A a \in Archives : \A s \in snapStates[a] : \A f \in BlocksOf(s) :
        \E b \in Archives : f \in remote[b]

\* The inductive invariant.
IInv == TypeOK /\ QueueInv /\ TaskInv /\ HeldInv /\ CommittedBuckets /\ BlocksSomewhere


-----------------------------------------------------------------------------
(***************************************************************************)
(* The objects that hold the files' states.                                *)
(***************************************************************************)

\* Every file of a publisher has an info.
LEMMA InfoType ==
    ASSUME NEW a \in Archives, NEW f \in Files
    PROVE  InfoOf(a, f) \in Infos
BY DEF InfoOf, Infos, Files

\* An info is that of one file, and of one publisher if the file is a bucket.
LEMMA InfoUnique ==
    ASSUME NEW a \in Archives, NEW b \in Archives, NEW f \in Files, NEW g \in Files,
           InfoOf(a, f) = InfoOf(b, g)
    PROVE  f = g /\ (f \in Buckets => a = b)
BY PublishAssumption DEF InfoOf, Files

\* A ledger file has the snapshot's info.
LEMMA BlockInfo ==
    ASSUME NEW a \in Archives, NEW f \in Blocks \X Snaps
    PROVE  f \in Files /\ f \notin Buckets /\ InfoOf(a, f) = <<"snap", f>>
BY PublishAssumption DEF InfoOf, Files

\* A file that is not a bucket is a ledger file.
LEMMA FileKinds ==
    ASSUME NEW f \in Files, f \notin Buckets
    PROVE  f \in Blocks \X Snaps
BY DEF Files

\* A bucket has an info of its own in every publisher.
LEMMA BucketInfo ==
    ASSUME NEW a \in Archives, NEW f \in Buckets
    PROVE  f \in Files /\ InfoOf(a, f) = <<a, f>>
BY DEF InfoOf, Files

-----------------------------------------------------------------------------
(***************************************************************************)
(* enterSendingState.                                                      *)
(***************************************************************************)

\* A subprocess that publisher a has just started on one of its files.
Begun(a, files, fs, t) ==
    /\ t \in Tasks
    /\ t.arch = a
    /\ t.snap = front
    /\ t.file \in files
    /\ fs[InfoOf(a, t.file)] \in Ready
    /\ fileState'[InfoOf(a, t.file)] = Busy(t.op)

\* What publisher a with fields p does to the files, starting from file
\* states fs and subprocesses ts: those that wait are advanced, each by one
\* new subprocess.
SendStep(a, p, fs, ts) ==
    /\ fileState' \in [Infos -> FileStates]
    /\ pub' \in [Archives -> Publisher]
    /\ pub'[a].files = p.files
    /\ pub'[a].state \in {"RETRYING", "SENDING", "COMMITTING"}
    /\ pub'[a].state = "COMMITTING" =>
          \A f \in p.files : fileState'[InfoOf(a, f)] = "UPLOADED"
    /\ \A b \in Archives : b # a => pub'[b] = pub[b]
    /\ \A i \in Infos :
          \/ fileState'[i] = fs[i]
          \/ /\ fs[i] \in Ready
             /\ fileState'[i] \in InWork
             /\ \E f \in p.files : i = InfoOf(a, f)
    /\ \A t \in tasks' : t \in ts \/ Begun(a, p.files, fs, t)
    /\ \A t, u \in tasks' \ ts : t.file = u.file => t = u

\* What enterSendingState does to one state.
LEMMA AdvanceFacts ==
    ASSUME NEW a \in Archives, NEW st \in FileStates
    PROVE  /\ Advance(a, st) \in FileStates
           /\ Advance(a, st) # st => st \in Ready /\ Advance(a, st) \in InWork
BY DEF Advance, FileStates, Ready, InWork

\* A subprocess is what its fields say.
LEMMA TaskFacts ==
    ASSUME NEW a \in Archives, NEW s \in Snaps, NEW f \in Files,
           NEW op \in {"compress", "mkdir", "put"}, NEW h \in BOOLEAN,
           NEW t, t = [arch |-> a, snap |-> s, file |-> f, op |-> op, have |-> h]
    PROVE  t \in Tasks /\ t.arch = a /\ t.snap = s /\ t.file = f /\ t.op = op
BY DEF Tasks

\* The subprocess started for a file fits the state the file is put in.
LEMMA StartedFacts ==
    ASSUME NEW a \in Archives, NEW f \in Files, NEW st \in InWork, NEW g,
           front \in Snaps
    PROVE  /\ Started(a, f, st, g) \in Tasks
           /\ Started(a, f, st, g).arch = a
           /\ Started(a, f, st, g).snap = front
           /\ Started(a, f, st, g).file = f
           /\ Busy(Started(a, f, st, g).op) = st
<1>1. CASE st = "COMPRESSING"
  <2> DEFINE h == f \in raw
  <2>1. Started(a, f, st, g) = [arch |-> a, snap |-> front, file |-> f, op |-> "compress", have |-> h]
    BY <1>1 DEF Started
  <2>2. h \in BOOLEAN /\ "compress" \in {"compress", "mkdir", "put"}
    OBVIOUS
  <2> HIDE DEF h
  <2>3. /\ Started(a, f, st, g) \in Tasks
        /\ Started(a, f, st, g).arch = a
        /\ Started(a, f, st, g).snap = front
        /\ Started(a, f, st, g).file = f
        /\ Started(a, f, st, g).op = "compress"
    BY <2>1, <2>2, TaskFacts
  <2> QED
    BY <1>1, <2>3 DEF Busy
<1>2. CASE st = "MAKING_DIR"
  <2> DEFINE h == TRUE
  <2>1. Started(a, f, st, g) = [arch |-> a, snap |-> front, file |-> f, op |-> "mkdir", have |-> h]
    BY <1>2 DEF Started
  <2>2. h \in BOOLEAN /\ "mkdir" \in {"compress", "mkdir", "put"}
    OBVIOUS
  <2> HIDE DEF h
  <2>3. /\ Started(a, f, st, g) \in Tasks
        /\ Started(a, f, st, g).arch = a
        /\ Started(a, f, st, g).snap = front
        /\ Started(a, f, st, g).file = f
        /\ Started(a, f, st, g).op = "mkdir"
    BY <2>1, <2>2, TaskFacts
  <2> QED
    BY <1>2, <2>3 DEF Busy
<1>3. CASE st = "UPLOADING"
  <2> DEFINE h == f \in g
  <2>1. Started(a, f, st, g) = [arch |-> a, snap |-> front, file |-> f, op |-> "put", have |-> h]
    BY <1>3 DEF Started
  <2>2. h \in BOOLEAN /\ "put" \in {"compress", "mkdir", "put"}
    OBVIOUS
  <2> HIDE DEF h
  <2>3. /\ Started(a, f, st, g) \in Tasks
        /\ Started(a, f, st, g).arch = a
        /\ Started(a, f, st, g).snap = front
        /\ Started(a, f, st, g).file = f
        /\ Started(a, f, st, g).op = "put"
    BY <2>1, <2>2, TaskFacts
  <2> QED
    BY <1>3, <2>3 DEF Busy
<1> QED
  BY <1>1, <1>2, <1>3 DEF InWork

\* enterSendingState takes a SendStep.
LEMMA Sending ==
    ASSUME NEW a \in Archives, NEW p \in Publisher, NEW fs \in [Infos -> FileStates],
           NEW ts, NEW g \in SUBSET Files, front \in Snaps,
           pub \in [Archives -> Publisher], crashed = "no", ts \subseteq Tasks,
           EnterSendingState(a, p, fs, ts, g)
    PROVE  /\ SendStep(a, p, fs, ts)
           /\ gz' \subseteq Files
           /\ tasks' \subseteq Tasks
           /\ crashed' \in {"no", "assert"}
<1> DEFINE before(f) == fs[InfoOf(a, f)]
           after(f)  == Advance(a, before(f))
           failed    == \E f \in p.files : after(f) = "FAILED"
           done      == \A f \in p.files : after(f) = "UPLOADED"
           new       == IF failed THEN "RETRYING" ELSE IF done THEN "COMMITTING"
                                  ELSE "SENDING"
<1>1. /\ fileState' = [i \in Infos |-> IF \E f \in p.files : i = InfoOf(a, f)
                                       THEN Advance(a, fs[i]) ELSE fs[i]]
      /\ tasks' = ts \cup {Started(a, f, after(f), g) :
                            f \in {h \in p.files : before(h) # after(h)}}
      /\ pub' = [pub EXCEPT ![a] = [p EXCEPT !.state = new, !.put = "snap"]]
  BY DEF EnterSendingState
<1>2. gz' \subseteq Files /\ crashed' \in {"no", "assert"}
  BY DEF EnterSendingState
<1>3. p.files \subseteq Files /\ new \in {"RETRYING", "SENDING", "COMMITTING"}
  BY DEF Publisher
<1>4. \A f \in p.files : InfoOf(a, f) \in Infos /\ fileState'[InfoOf(a, f)] = after(f)
  BY <1>1, <1>3, InfoType
<1>5. fileState' \in [Infos -> FileStates]
  BY <1>1, AdvanceFacts
<1>6. \A i \in Infos :
          \/ fileState'[i] = fs[i]
          \/ /\ fs[i] \in Ready
             /\ fileState'[i] \in InWork
             /\ \E f \in p.files : i = InfoOf(a, f)
  BY <1>1, AdvanceFacts
<1>7. [p EXCEPT !.state = new, !.put = "snap"] \in Publisher
  BY <1>3 DEF Publisher, PublishStates
<1>8. /\ pub' \in [Archives -> Publisher]
      /\ pub'[a] = [p EXCEPT !.state = new, !.put = "snap"]
      /\ \A b \in Archives : b # a => pub'[b] = pub[b]
  BY <1>1, <1>7
<1>9. pub'[a].files = p.files /\ pub'[a].state = new
  BY <1>8 DEF Publisher
<1>10. new = "COMMITTING" => \A f \in p.files : fileState'[InfoOf(a, f)] = "UPLOADED"
  <2>1. new = "COMMITTING" => done
    OBVIOUS
  <2> QED
    BY <2>1, <1>4
<1>11. ASSUME NEW f \in p.files, before(f) # after(f)
       PROVE  /\ Started(a, f, after(f), g).file = f
              /\ Begun(a, p.files, fs, Started(a, f, after(f), g))
  <2>1. before(f) \in FileStates
    BY <1>4
  <2>2. before(f) \in Ready /\ after(f) \in InWork
    BY <2>1, <1>11, AdvanceFacts
  <2>3. f \in Files
    BY <1>3
  <2> QED
    BY <2>2, <2>3, <1>4, StartedFacts DEF Begun
<1>12. \A t \in tasks' : t \in ts \/ Begun(a, p.files, fs, t)
  BY <1>1, <1>11
<1>13. \A t, u \in tasks' \ ts : t.file = u.file => t = u
  BY <1>1, <1>11
<1>14. tasks' \subseteq Tasks
  BY <1>12 DEF Begun
<1> HIDE DEF new, failed, done, before, after
<1> QED
  BY <1>2, <1>3, <1>5, <1>6, <1>8, <1>9, <1>10, <1>12, <1>13, <1>14 DEF SendStep


\* A SendStep from file states and subprocesses that fit each other keeps
\* TaskInv.
LEMMA SendKeepsTasks ==
    ASSUME IInv, NEW a \in Archives, NEW p \in Publisher,
           NEW fs \in [Infos -> FileStates], NEW ts, ts \subseteq tasks,
           SendStep(a, p, fs, ts), UNCHANGED <<pending, taken, stage>>,
           stage = "publishing", pub[a].files \subseteq p.files,
           \A t \in ts : Live(t) => fs[InfoOfTask(t)] = Busy(t.op),
           \A t \in ts : Live(t) /\ t.arch = a => t.file \in p.files
    PROVE  TaskInv'
<1>0. /\ \A t \in Tasks : t.arch \in Archives /\ t.file \in Files /\ t.snap \in Snaps
                          /\ t.op \in {"compress", "mkdir", "put"}
      /\ tasks \subseteq Tasks
      /\ \A t \in Tasks : InfoOfTask(t) \in Infos
  BY InfoType DEF IInv, TypeOK, Tasks, InfoOfTask
<1>1. pending # <<>> /\ front' = front /\ pending' = pending /\ taken' = taken
      /\ stage' = "publishing" /\ front <= taken /\ p.files \subseteq Files
  BY DEF IInv, TypeOK, QueueInv, front, Publisher
<1>2. \A t \in tasks' : t \in ts \/ Begun(a, p.files, fs, t)
  BY DEF SendStep
<1>3. \A op \in {"compress", "mkdir", "put"} : Busy(op) \in InWork /\ Busy(op) \notin Ready
  BY DEF Busy, InWork, Ready
<1>4. ASSUME NEW t \in ts, Live(t)
      PROVE  fileState'[InfoOfTask(t)] = Busy(t.op)
  <2>1. fs[InfoOfTask(t)] = Busy(t.op) /\ t \in Tasks
    BY <1>0, <1>4
  <2>2. fs[InfoOfTask(t)] \notin Ready /\ InfoOfTask(t) \in Infos
    BY <2>1, <1>0, <1>3
  <2> QED
    BY <2>1, <2>2 DEF SendStep
<1>5. ASSUME NEW t \in tasks'
      PROVE  /\ t \in Tasks
             /\ t.snap <= taken' /\ t.snap <= front'
             /\ Live(t)' => fileState'[InfoOfTask(t)] = Busy(t.op)
             /\ Live(t)' => (pub'[t.arch].state # "NONE" => t.file \in pub'[t.arch].files)
  <2>0. Live(t)' = Live(t)
    BY <1>1 DEF Live
  <2>1. CASE t \in ts
    <3>1. t \in Tasks /\ t.snap <= taken' /\ t.snap <= front'
      BY <2>1, <1>0, <1>1 DEF IInv, TaskInv
    <3>2. Live(t)' => fileState'[InfoOfTask(t)] = Busy(t.op)
      BY <2>1, <2>0, <1>4
    <3>3. CASE t.arch = a
      BY <2>0, <2>1, <3>1, <3>2, <3>3 DEF SendStep
    <3>4. CASE t.arch # a
      <4>1. pub'[t.arch] = pub[t.arch]
        BY <3>1, <3>4, <1>0 DEF SendStep
      <4> QED
        BY <4>1, <2>0, <2>1, <3>1, <3>2 DEF IInv, TaskInv
    <3> QED
      BY <3>3, <3>4
  <2>2. CASE Begun(a, p.files, fs, t)
    <3>1. t \in Tasks /\ t.arch = a /\ t.snap = front /\ t.file \in p.files
          /\ fileState'[InfoOf(a, t.file)] = Busy(t.op)
      BY <2>2 DEF Begun
    <3> QED
      BY <3>1, <1>0, <1>1 DEF InfoOfTask, SendStep, Snaps
  <2> QED
    BY <2>1, <2>2, <1>2
<1>6. ASSUME NEW t \in tasks', NEW u \in tasks',
             t.snap = u.snap, InfoOfTask(t) = InfoOfTask(u)
      PROVE  t = u
  <2>0. t \in Tasks /\ u \in Tasks
    BY <1>5
  <2>1. ASSUME NEW v \in ts, NEW w \in tasks', w \notin ts, v.snap = w.snap,
               InfoOfTask(v) = InfoOfTask(w)
        PROVE  FALSE
    <3>1. Begun(a, p.files, fs, w)
      BY <1>2, <2>1
    <3>2. w.snap = front /\ fs[InfoOfTask(w)] \in Ready
      BY <3>1 DEF Begun, InfoOfTask
    <3>3. Live(v)
      BY <3>2, <2>1 DEF Live
    <3>4. fs[InfoOfTask(v)] = Busy(v.op) /\ v.op \in {"compress", "mkdir", "put"}
      BY <3>3, <1>0
    <3> QED
      BY <3>2, <3>4, <2>1, <1>3
  <2>2. CASE t \in ts /\ u \in ts
    BY <2>2, <1>6 DEF IInv, TaskInv
  <2>3. CASE t \notin ts /\ u \notin ts
    <3>1. t.file = u.file
      BY <1>0, <1>6, <2>0, InfoUnique DEF InfoOfTask
    <3> QED
      BY <3>1, <2>3 DEF SendStep
  <2> QED
    BY <2>1, <2>2, <2>3, <1>6
<1> QED
  BY <1>1, <1>5, <1>6 DEF TaskInv, InfoOfTask, InfoOf

\* A SendStep keeps HeldInv if what fs says is uploaded is.
LEMMA SendKeepsHeld ==
    ASSUME IInv, NEW a \in Archives, NEW p \in Publisher,
           NEW fs \in [Infos -> FileStates], NEW ts,
           SendStep(a, p, fs, ts), UNCHANGED <<pending, wellKnown>>,
           \A b \in Archives : remote[b] \subseteq remote'[b],
           \A f \in p.files \cap Buckets :
              fs[InfoOf(a, f)] = "UPLOADED" => f \in remote'[a],
           \A f \in Blocks \X Snaps :
              fs[<<"snap", f>>] = "UPLOADED" => \E b \in Archives : f \in remote'[b],
           \A b \in Archives : \A f \in Buckets : b # a =>
              fs[InfoOf(b, f)] = fileState[InfoOf(b, f)],
           \A f \in Blocks \X Snaps :
              fileState[<<"snap", f>>] = "UPLOADED" => fs[<<"snap", f>>] = "UPLOADED",
           pub'[a].state \in {"SENDING", "COMMITTING"} =>
              Complete(front, wellKnown[a], p.files)
    PROVE  HeldInv'
<1>0. /\ pub \in [Archives -> Publisher] /\ pub' \in [Archives -> Publisher]
      /\ front' = front /\ wellKnown' = wellKnown
      /\ \A b \in Archives : pub[b].files \subseteq Files
  BY DEF IInv, TypeOK, Publisher, SendStep, front
<1>1. \A i \in Infos : (fileState'[i] = "UPLOADED") <=> (fs[i] = "UPLOADED")
  <2>1. "UPLOADED" \notin Ready /\ "UPLOADED" \notin InWork
    BY DEF Ready, InWork
  <2> QED
    BY <2>1 DEF SendStep
<1>2. ASSUME NEW b \in Archives, NEW f \in pub'[b].files \cap Buckets,
             fileState'[InfoOf(b, f)] = "UPLOADED"
      PROVE  f \in remote'[b]
  <2>1. InfoOf(b, f) \in Infos
    BY InfoType, BucketInfo
  <2>2. CASE b = a
    BY <1>1, <1>2, <2>1, <2>2 DEF SendStep
  <2>3. CASE b # a
    <3>1. pub'[b] = pub[b] /\ fileState[InfoOf(b, f)] = "UPLOADED"
      BY <1>1, <1>2, <2>1, <2>3 DEF SendStep
    <3> QED
      BY <3>1 DEF IInv, HeldInv
  <2> QED
    BY <2>2, <2>3
<1>3. ASSUME NEW f \in Blocks \X Snaps, fileState'[<<"snap", f>>] = "UPLOADED"
      PROVE  \E b \in Archives : f \in remote'[b]
  <2>1. <<"snap", f>> \in Infos
    BY DEF Infos
  <2> QED
    BY <1>1, <1>3, <2>1
<1>4. ASSUME NEW b \in Archives, pub'[b].state \in {"SENDING", "COMMITTING"}
      PROVE  Complete(front, wellKnown[b], pub'[b].files)
  BY <1>4 DEF SendStep, IInv, HeldInv
<1>5. ASSUME NEW b \in Archives, pub'[b].state = "COMMITTING",
             NEW f \in pub'[b].files
      PROVE  fileState'[InfoOf(b, f)] = "UPLOADED"
  <2>1. CASE b = a
    BY <2>1, <1>5 DEF SendStep
  <2>2. CASE b # a
    <3>1. pub'[b] = pub[b]
      BY <2>2 DEF SendStep
    <3>2. fileState[InfoOf(b, f)] = "UPLOADED" /\ f \in Files
      BY <3>1, <1>0, <1>5 DEF IInv, HeldInv
    <3>3. fs[InfoOf(b, f)] = "UPLOADED"
      BY <2>2, <3>2, FileKinds, BlockInfo
    <3> QED
      BY <1>1, <3>2, <3>3, InfoType
  <2> QED
    BY <2>1, <2>2
<1>6. \A b \in Archives : \A f : InfoOf(b, f)' = InfoOf(b, f)
  BY DEF InfoOf
<1> QED
  BY <1>0, <1>2, <1>3, <1>4, <1>5, <1>6 DEF HeldInv, Complete, DifferingBuckets, BlocksOf


-----------------------------------------------------------------------------
(***************************************************************************)
(* The queue.                                                              *)
(***************************************************************************)

\* The front of a queue that is worked on is its oldest checkpoint.
LEMMA FrontFacts ==
    ASSUME TypeOK, QueueInv, pending # <<>>
    PROVE  /\ front \in Snaps /\ front = pending[1] /\ front <= taken
           /\ 1 \in DOMAIN pending
           /\ \A a \in Archives : wellKnown[a] <= front
<1>1. pending \in Seq(Snaps)
  BY DEF TypeOK
<1>2. Len(pending) >= 1 /\ 1 \in DOMAIN pending /\ front = pending[1]
  BY <1>1 DEF front
<1> QED
  BY <1>1, <1>2 DEF QueueInv

\* An ordered queue without its front is ordered, and younger.
LEMMA TailFacts ==
    ASSUME NEW q \in Seq(Snaps), q # <<>>,
           \A i, j \in DOMAIN q : i < j => q[i] < q[j]
    PROVE  /\ Tail(q) \in Seq(Snaps)
           /\ \A i \in DOMAIN Tail(q) : i + 1 \in DOMAIN q /\ Tail(q)[i] = q[i + 1]
           /\ \A i \in DOMAIN Tail(q) : Head(q) < Tail(q)[i]
           /\ \A i, j \in DOMAIN Tail(q) : i < j => Tail(q)[i] < Tail(q)[j]
<1>1. /\ Tail(q) \in Seq(Snaps)
      /\ \A i \in DOMAIN Tail(q) : i \in Nat \ {0} /\ i + 1 \in DOMAIN q /\ Tail(q)[i] = q[i + 1]
  OBVIOUS
<1>2. 1 \in DOMAIN q /\ Head(q) = q[1]
  OBVIOUS
<1>3. \A i \in DOMAIN Tail(q) : Head(q) < Tail(q)[i]
  BY <1>1, <1>2
<1>4. \A i, j \in DOMAIN Tail(q) : i < j => Tail(q)[i] < Tail(q)[j]
  BY <1>1
<1> QED
  BY <1>1, <1>3, <1>4

\* What is at a place of a queue.
LEMMA QueueElement ==
    ASSUME NEW q \in Seq(Snaps), NEW i \in DOMAIN q
    PROVE  q[i] \in Nat /\ i \in Nat /\ i <= Len(q) /\ Len(q) \in Nat
<1>1. q[i] \in Snaps /\ i \in 1..Len(q) /\ Len(q) \in Nat
  OBVIOUS
<1> QED
  BY <1>1 DEF Snaps

\* A queue with one more checkpoint.
LEMMA AppendFacts ==
    ASSUME NEW q \in Seq(Snaps), NEW e \in Snaps
    PROVE  /\ Append(q, e) \in Seq(Snaps) /\ Append(q, e) # <<>>
           /\ \A i \in DOMAIN Append(q, e) :
                 (i \in DOMAIN q /\ Append(q, e)[i] = q[i])
                 \/ (i = Len(q) + 1 /\ Append(q, e)[i] = e)
           /\ q # <<>> => Head(Append(q, e)) = Head(q)
           /\ q = <<>> => Head(Append(q, e)) = e
<1>1. Append(q, e) \in Seq(Snaps) /\ Len(Append(q, e)) = Len(q) + 1
  OBVIOUS
<1>2. Append(q, e) # <<>>
  <2>1. Len(Append(q, e)) # 0 /\ Len(<<>>) = 0
    BY <1>1
  <2> QED
    BY <2>1, Zenon
<1>3. \A i \in DOMAIN Append(q, e) :
         (i \in DOMAIN q /\ Append(q, e)[i] = q[i])
         \/ (i = Len(q) + 1 /\ Append(q, e)[i] = e)
  OBVIOUS
<1>4. q # <<>> => Head(Append(q, e)) = Head(q)
  OBVIOUS
<1>5. q = <<>> => Head(Append(q, e)) = e
  OBVIOUS
<1> QED
  BY <1>1, <1>2, <1>3, <1>4, <1>5

\* The type invariant, with the publishers by their name.
LEMMA PublisherTypes ==
    ASSUME TypeOK
    PROVE  pub \in [Archives -> Publisher]
BY DEF TypeOK, Publisher

\* takeSnapshot appends the newest checkpoint.
LEMMA TakeSnapshotKeeps ==
    ASSUME IInv, TakeSnapshot
    PROVE  IInv'
<1> DEFINE q == Append(pending, taken + 1)
<1>0. pending \in Seq(Snaps) /\ taken + 1 \in Snaps /\ taken \in Nat
  BY PublishAssumption DEF IInv, TypeOK, TakeSnapshot, Snaps
<1>1. /\ q \in Seq(Snaps) /\ q # <<>>
      /\ \A i \in DOMAIN q : (i \in DOMAIN pending /\ q[i] = pending[i])
                             \/ (i = Len(pending) + 1 /\ q[i] = taken + 1)
      /\ pending # <<>> => Head(q) = Head(pending)
      /\ pending = <<>> => Head(q) = taken + 1
  BY <1>0, AppendFacts
<1>2. /\ pending' = q /\ taken' = taken + 1
      /\ pending = <<>> => stage' \in {"merging", "writing"}
      /\ pending # <<>> => stage' = stage
  BY <1>1 DEF TakeSnapshot, WriteNextSnapshot
<1>3. UNCHANGED <<fileState, pub, tasks, raw, gz, remote, snapStates, wellKnown,
                  outcome, crashed, faults, restarts>>
  BY DEF TakeSnapshot, world
<1> HIDE DEF q
<1>4. TypeOK'
  BY <1>0, <1>1, <1>2, <1>3, PublishAssumption DEF IInv, TypeOK, Snaps
<1>5. QueueInv'
  <2>1. stage' = "idle" <=> pending' = <<>>
    BY <1>1, <1>2 DEF IInv, QueueInv
  <2>2. ASSUME NEW i \in DOMAIN pending'
        PROVE  pending'[i] <= taken'
    <3>1. CASE i \in DOMAIN pending /\ pending'[i] = pending[i]
      <4>1. pending[i] \in Nat /\ pending[i] <= taken
        BY <3>1, <1>0, QueueElement DEF IInv, QueueInv
      <4> QED
        BY <3>1, <4>1, <1>0, <1>2
    <3> QED
      BY <3>1, <1>0, <1>1, <1>2, <2>2
  <2>3. ASSUME NEW i \in DOMAIN pending', NEW j \in DOMAIN pending', i < j
        PROVE  pending'[i] < pending'[j]
    <3>0. /\ j <= Len(pending) + 1
          /\ \A k \in DOMAIN pending : k \in Nat /\ pending[k] \in Nat
      BY <1>0, <1>1, <1>2, <2>3, QueueElement
    <3>1. i \in DOMAIN pending /\ pending'[i] = pending[i] /\ pending[i] \in Nat
      BY <3>0, <1>0, <1>1, <1>2, <2>3
    <3> QED
      BY <3>1, <1>0, <1>1, <1>2, <2>3 DEF IInv, QueueInv
  <2>4. \A a \in Archives : wellKnown'[a] <= taken' /\
           \A i \in DOMAIN pending' : wellKnown'[a] <= pending'[i]
    BY <1>0, <1>1, <1>2, <1>3 DEF IInv, QueueInv, TypeOK
  <2>5. \A a \in Archives : pub'[a].state # "NONE" => stage' = "publishing"
    BY <1>2, <1>3 DEF IInv, QueueInv
  <2> QED
    BY <2>1, <2>2, <2>3, <2>4, <2>5 DEF QueueInv
<1>6. pending # <<>> => front' = front /\ \A t : Live(t)' = Live(t)
  BY <1>1, <1>2 DEF front, Live
<1>7. pending = <<>> => front' = taken + 1 /\ \A t : ~Live(t)'
  BY <1>1, <1>2 DEF front, Live
<1>8. \A t \in tasks : t.snap \in Nat /\ t.snap <= taken
  BY DEF IInv, TaskInv, TypeOK, Tasks, Snaps
<1>9. TaskInv'
  <2>1. CASE pending = <<>>
    BY <2>1, <1>0, <1>1, <1>2, <1>3, <1>7, <1>8 DEF IInv, TaskInv, InfoOfTask, InfoOf
  <2>2. CASE pending # <<>>
    BY <2>2, <1>0, <1>1, <1>2, <1>3, <1>6, <1>8 DEF IInv, TaskInv, InfoOfTask, InfoOf
  <2> QED
    BY <2>1, <2>2
<1>10. HeldInv'
  <2>1. \A a \in Archives : pub[a].state # "NONE" => front' = front
    BY <1>6 DEF IInv, QueueInv
  <2> QED
    BY <2>1, <1>3 DEF IInv, HeldInv, Complete, InfoOf, DifferingBuckets, BlocksOf
<1>11. CommittedBuckets' /\ BlocksSomewhere'
  BY <1>3 DEF IInv, CommittedBuckets, BlocksSomewhere, BlocksOf
<1> QED
  BY <1>4, <1>5, <1>9, <1>10, <1>11 DEF IInv

\* The merges that the front waited for have ended.
LEMMA MergesReadyKeeps ==
    ASSUME IInv, MergesReady
    PROVE  IInv'
<1>1. stage = "merging" /\ stage' = "writing"
      /\ UNCHANGED <<pending, taken, fileState, pub, tasks, raw, gz, remote, snapStates,
                     wellKnown, outcome, crashed, faults, restarts>>
  BY DEF MergesReady, world
<1>2. front' = front /\ (\A t : ~Live(t)') /\ pending # <<>>
  BY <1>1 DEF front, Live, IInv, QueueInv
<1>3. TypeOK'
  BY <1>1 DEF IInv, TypeOK
<1>4. QueueInv'
  BY <1>1 DEF IInv, QueueInv
<1>5. TaskInv'
  BY <1>1, <1>2 DEF IInv, TaskInv, InfoOfTask, InfoOf
<1>6. HeldInv'
  BY <1>1, <1>2 DEF IInv, HeldInv, Complete, InfoOf, DifferingBuckets, BlocksOf
<1>7. CommittedBuckets' /\ BlocksSomewhere'
  BY <1>1 DEF IInv, CommittedBuckets, BlocksSomewhere, BlocksOf
<1> QED
  BY <1>3, <1>4, <1>5, <1>6, <1>7 DEF IInv

\* New publishers have no files and no subprocesses.
LEMMA SnapshotWrittenKeeps ==
    ASSUME IInv, SnapshotWritten
    PROVE  IInv'
<1>1. stage = "writing" /\ stage' = "publishing"
      /\ pub' = [a \in Archives |-> NewPublisher] /\ raw' = raw \cup BlocksOf(front)
      /\ UNCHANGED <<pending, taken, fileState, tasks, gz, remote, snapStates,
                     wellKnown, outcome, crashed, faults, restarts>>
  BY DEF SnapshotWritten, world
<1>2. front' = front /\ pending # <<>> /\ front \in Snaps
  BY <1>1, FrontFacts DEF front, IInv, QueueInv
<1>3. /\ NewPublisher \in Publisher
      /\ NewPublisher.files = {} /\ NewPublisher.state = "BEGIN"
  BY DEF NewPublisher, NoPublisher, Publisher, PublishStates
<1>4. \A t \in tasks : ~Live(t)' /\ t.snap < front
  <2>1. \A t \in tasks : t.snap < front /\ t.snap \in Nat
    BY <1>1, <1>2 DEF IInv, TaskInv, TypeOK, Tasks, Snaps
  <2> QED
    BY <2>1, <1>2 DEF Live, Snaps
<1>5. TypeOK'
  <2>1. raw' \subseteq Files
    BY <1>1, <1>2 DEF IInv, TypeOK, BlocksOf, Files
  <2>2. pub' \in [Archives -> Publisher]
    BY <1>1, <1>3
  <2> QED
    BY <1>1, <2>1, <2>2 DEF IInv, TypeOK, Publisher
<1>6. QueueInv'
  BY <1>1, <1>2 DEF IInv, QueueInv
<1>7. TaskInv'
  <2>1. \A t \in tasks : t.snap <= front
    BY <1>2 DEF IInv, TaskInv
  <2> QED
    BY <2>1, <1>1, <1>2, <1>4 DEF IInv, TaskInv, InfoOfTask, InfoOf
<1>8. HeldInv'
  <2>1. \A a \in Archives : pub'[a].files = {} /\ pub'[a].state = "BEGIN"
    BY <1>1, <1>3
  <2> QED
    BY <1>1, <2>1 DEF IInv, HeldInv
<1>9. CommittedBuckets' /\ BlocksSomewhere'
  BY <1>1 DEF IInv, CommittedBuckets, BlocksSomewhere, BlocksOf
<1> QED
  BY <1>5, <1>6, <1>7, <1>8, <1>9 DEF IInv


-----------------------------------------------------------------------------
(***************************************************************************)
(* The end of a publisher.                                                 *)
(***************************************************************************)

\* An ended publisher leaves the others and their files alone; the last one
\* leaves the next checkpoint at the front.
LEMMA EndKeeps ==
    ASSUME IInv, NEW a \in Archives, pub[a].state # "NONE",
           SnapshotPublished(a, pub[a].err),
           \/ wellKnown' = wellKnown
           \/ wellKnown' = [wellKnown EXCEPT ![a] = front],
           CommittedBuckets',
           UNCHANGED <<taken, fileState, tasks, raw, gz, remote, snapStates,
                       crashed, faults, restarts>>
    PROVE  IInv'
<1> DEFINE last == \A b \in Archives : pub'[b].state = "NONE"
<1>0. /\ stage = "publishing" /\ pending # <<>> /\ pub \in [Archives -> Publisher]
      /\ front \in Snaps /\ front <= taken /\ pending \in Seq(Snaps) /\ Snaps \subseteq Nat
      /\ taken \in Nat
  BY FrontFacts, PublisherTypes DEF IInv, QueueInv, TypeOK, Snaps
<1>1. /\ NoPublisher \in Publisher
      /\ NoPublisher.files = {} /\ NoPublisher.state = "NONE"
  BY DEF NoPublisher, Publisher, PublishStates
<1>2. /\ pub' = [pub EXCEPT ![a] = NoPublisher]
      /\ last => /\ pending' = Tail(pending)
                 /\ outcome' = [outcome EXCEPT ![front] = IF pub[a].err THEN "failure" ELSE "success"]
                 /\ stage' = "idle" <=> pending' = <<>>
                 /\ stage' \in {"idle", "merging", "writing"}
      /\ ~last => UNCHANGED <<outcome, pending, stage>>
  BY DEF SnapshotPublished, WriteNextSnapshot
<1>3. /\ pub' \in [Archives -> Publisher]
      /\ pub'[a] = NoPublisher /\ \A b \in Archives : b # a => pub'[b] = pub[b]
  BY <1>0, <1>1, <1>2
<1> DEFINE ordered == \A i, j \in DOMAIN pending : i < j => pending[i] < pending[j]
<1>4. ordered
  BY DEF IInv, QueueInv
<1>5. /\ Tail(pending) \in Seq(Snaps)
      /\ \A i \in DOMAIN Tail(pending) :
            i + 1 \in DOMAIN pending /\ Tail(pending)[i] = pending[i + 1]
            /\ front < Tail(pending)[i]
      /\ \A i, j \in DOMAIN Tail(pending) : i < j => Tail(pending)[i] < Tail(pending)[j]
  BY <1>0, <1>4, TailFacts DEF front
<1>6. wellKnown' \in [Archives -> 0..MaxSnaps] /\
      \A b \in Archives : /\ wellKnown'[b] = wellKnown[b] \/ wellKnown'[b] = front
                          /\ b # a => wellKnown'[b] = wellKnown[b]
                          /\ wellKnown[b] <= front
  BY <1>0, FrontFacts DEF IInv, TypeOK, Snaps
<1> HIDE DEF last, ordered
<1>7. TypeOK'
  <2>1. outcome' \in [Snaps -> {"none", "success", "failure"}]
    BY <1>0, <1>2 DEF IInv, TypeOK
  <2>2. pending' \in Seq(Snaps)
    BY <1>2, <1>5, <1>0
  <2>3. stage' \in {"idle", "merging", "writing", "publishing"}
    BY <1>0, <1>2
  <2> QED
    BY <1>3, <1>6, <2>1, <2>2, <2>3 DEF IInv, TypeOK, Publisher
<1>8. QueueInv'
  <2>1. CASE last
    <3>1. stage' = "idle" <=> pending' = <<>>
      BY <2>1, <1>2
    <3>2. \A i \in DOMAIN pending' : pending'[i] <= taken'
      BY <2>1, <1>2, <1>5 DEF IInv, QueueInv
    <3>3. \A i, j \in DOMAIN pending' : i < j => pending'[i] < pending'[j]
      BY <2>1, <1>2, <1>5
    <3>4. ASSUME NEW b \in Archives
          PROVE  /\ wellKnown'[b] <= taken'
                 /\ \A i \in DOMAIN pending' : wellKnown'[b] <= pending'[i]
                 /\ pub'[b].state # "NONE" => stage' = "publishing"
      <4>1. pub'[b].state = "NONE"
        BY <2>1 DEF last
      <4>2. wellKnown'[b] <= front /\ wellKnown'[b] \in Nat
        BY <1>0, <1>6
      <4>3. \A i \in DOMAIN pending' : pending'[i] \in Nat /\ front < pending'[i]
        BY <1>2, <1>5, <2>1, QueueElement
      <4> QED
        BY <4>1, <4>2, <4>3, <1>0
    <3> QED
      BY <3>1, <3>2, <3>3, <3>4 DEF QueueInv
  <2>2. CASE ~last
    <3>1. \A i \in DOMAIN pending : front <= pending[i]
      <4>1. ASSUME NEW i \in DOMAIN pending
            PROVE  front <= pending[i]
        <5>1. i = 1 \/ 1 < i
          BY <1>0, QueueElement
        <5>2. front = pending[1] /\ 1 \in DOMAIN pending /\ pending[i] \in Nat
          BY <1>0, FrontFacts, QueueElement DEF IInv
        <5> QED
          BY <5>1, <5>2, <1>0, <1>4 DEF ordered
      <4> QED
        BY <4>1
    <3>2. \A b \in Archives : wellKnown'[b] <= taken' /\ \A i \in DOMAIN pending' : wellKnown'[b] <= pending'[i]
      BY <1>0, <1>2, <1>6, <2>2, <3>1 DEF IInv, QueueInv
    <3> QED
      BY <1>0, <1>2, <2>2, <3>2 DEF IInv, QueueInv
  <2> QED
    BY <2>1, <2>2
<1>9. TaskInv'
  <2>0. \A t \in tasks : t.snap <= front /\ t.snap \in Nat /\ t.arch \in Archives
    BY <1>0 DEF IInv, TaskInv, TypeOK, Tasks
  <2>1. CASE last
    <3>1. \A t : ~Live(t)'
      BY <2>1, <1>2 DEF Live
    <3>2. pending' # <<>> => front' \in Nat /\ front < front'
      <4>1. pending' # <<>> => 1 \in DOMAIN pending' /\ front' = pending'[1]
        BY <1>2, <1>5, <2>1 DEF front
      <4> QED
        BY <4>1, <1>2, <1>5, <2>1, QueueElement
    <3>3. \A t \in tasks : pending' # <<>> => t.snap <= front' /\ t.snap < front'
      BY <2>0, <3>2, <1>0
    <3> QED
      BY <3>1, <3>3 DEF IInv, TaskInv, InfoOfTask, InfoOf
  <2>2. CASE ~last
    <3>1. front' = front /\ \A t : Live(t)' = Live(t)
      BY <2>2, <1>2 DEF front, Live
    <3>2. \A t \in tasks : pub'[t.arch].state # "NONE" => pub'[t.arch] = pub[t.arch]
      BY <2>0, <1>1, <1>3
    <3> QED
      BY <2>0, <2>2, <3>1, <3>2, <1>0, <1>2 DEF IInv, TaskInv, InfoOfTask, InfoOf
  <2> QED
    BY <2>1, <2>2
<1>10. HeldInv'
  <2>1. \A b \in Archives : pub'[b].state # "NONE" =>
           pub'[b] = pub[b] /\ front' = front /\ wellKnown'[b] = wellKnown[b]
    BY <1>1, <1>2, <1>3, <1>6 DEF last, front
  <2>2. \A b \in Archives : pub'[b].files = {} \/ pub'[b] = pub[b]
    BY <1>1, <1>3
  <2>3. \A b, f : InfoOf(b, f)' = InfoOf(b, f)
    BY DEF InfoOf
  <2>4. \A b \in Archives : \A f \in pub'[b].files \cap Buckets :
           fileState'[InfoOf(b, f)] = "UPLOADED" => f \in remote'[b]
    BY <2>2 DEF IInv, HeldInv
  <2>5. \A b \in Archives : pub'[b].state \in {"SENDING", "COMMITTING"} =>
           Complete(front, wellKnown[b], pub'[b].files)
    BY <2>1 DEF IInv, HeldInv
  <2>6. \A b \in Archives : pub'[b].state \in {"SENDING", "COMMITTING"} =>
           Complete(front', wellKnown'[b], pub'[b].files)
    BY <2>1, <2>5
  <2>7. \A b \in Archives : pub'[b].state = "COMMITTING" =>
           \A f \in pub'[b].files : fileState'[InfoOf(b, f)] = "UPLOADED"
    BY <2>1 DEF IInv, HeldInv
  <2> QED
    BY <2>3, <2>4, <2>6, <2>7 DEF IInv, HeldInv, Complete, DifferingBuckets, BlocksOf
<1>11. BlocksSomewhere'
  BY DEF IInv, BlocksSomewhere, BlocksOf
<1> QED
  BY <1>7, <1>8, <1>9, <1>10, <1>11 DEF IInv


-----------------------------------------------------------------------------
(***************************************************************************)
(* Steps of one publisher.                                                 *)
(***************************************************************************)

\* A publisher that keeps its files, and does not begin to send or commit,
\* keeps the invariants.
LEMMA PublisherKeeps ==
    ASSUME IInv, NEW a \in Archives, NEW p \in Publisher,
           pub' = [pub EXCEPT ![a] = p], pub[a].state # "NONE", p.state # "NONE",
           p.files = pub[a].files,
           p.state \in {"SENDING", "COMMITTING"} => p.state = pub[a].state,
           UNCHANGED <<pending, taken, stage, fileState, tasks, remote, wellKnown>>
    PROVE  QueueInv' /\ TaskInv' /\ HeldInv' /\ CommittedBuckets'
<1>0. /\ pub' \in [Archives -> Publisher] /\ pub'[a] = p
      /\ \A b \in Archives : b # a => pub'[b] = pub[b]
      /\ front' = front /\ stage = "publishing" /\ \A t : Live(t)' = Live(t)
  BY PublisherTypes DEF IInv, QueueInv, front, Live
<1>1. /\ \A b \in Archives : pub'[b].files = pub[b].files
      /\ \A b \in Archives : pub'[b].state # "NONE" => pub[b].state # "NONE"
      /\ \A b \in Archives : pub'[b].state \in {"SENDING", "COMMITTING"} =>
            pub'[b].state = pub[b].state
  BY <1>0
<1>2. \A b, f : InfoOf(b, f)' = InfoOf(b, f)
  BY DEF InfoOf
<1>3. QueueInv'
  BY <1>0, <1>1 DEF IInv, QueueInv
<1>4. TaskInv'
  <2>1. \A t \in tasks : t.arch \in Archives
    BY DEF IInv, TypeOK, Tasks
  <2> QED
    BY <2>1, <1>0, <1>1, <1>2 DEF IInv, TaskInv, InfoOfTask
<1>5. HeldInv'
  <2>1. \A b \in Archives : pub'[b].state \in {"SENDING", "COMMITTING"} =>
           Complete(front, wellKnown[b], pub'[b].files)
    BY <1>1 DEF IInv, HeldInv
  <2> QED
    BY <2>1, <1>0, <1>1, <1>2 DEF IInv, HeldInv, Complete, DifferingBuckets, BlocksOf
<1>6. CommittedBuckets'
  BY DEF IInv, CommittedBuckets
<1> QED
  BY <1>3, <1>4, <1>5, <1>6

\* The retry timer begins again or gives up.
LEMMA RetryTimerKeeps ==
    ASSUME IInv, NEW a \in Archives, RetryTimer(a)
    PROVE  IInv'
<1>0. /\ pub[a].state = "RETRYING" /\ pub \in [Archives -> Publisher]
      /\ UNCHANGED <<taken, fileState, tasks, raw, gz, remote, snapStates, wellKnown,
                     crashed, faults, restarts>>
  BY PublisherTypes DEF RetryTimer, world, IInv
<1>1. CASE pub[a].retry > RetryLimit
  <2>1. SnapshotPublished(a, pub[a].err)
    BY <1>1 DEF RetryTimer
  <2>2. CommittedBuckets'
    BY <1>0 DEF IInv, CommittedBuckets
  <2> QED
    BY <1>0, <2>1, <2>2, EndKeeps
<1>2. CASE ~(pub[a].retry > RetryLimit)
  <2> DEFINE p == [pub[a] EXCEPT !.state = "BEGIN", !.retry = @ + 1]
  <2>1. /\ pub' = [pub EXCEPT ![a] = p]
        /\ UNCHANGED <<outcome, pending, stage>>
    BY <1>0, <1>2 DEF RetryTimer, Publisher
  <2>2. p \in Publisher /\ p.state = "BEGIN" /\ p.files = pub[a].files
    <3> DEFINE r == pub[a].retry + 1
    <3>1. r \in Nat
      BY <1>0 DEF Publisher
    <3>2. p = [pub[a] EXCEPT !.state = "BEGIN", !.retry = r]
      BY <1>0 DEF Publisher
    <3> HIDE DEF p, r
    <3> QED
      BY <1>0, <3>1, <3>2 DEF Publisher, PublishStates
  <2> HIDE DEF p
  <2>3. QueueInv' /\ TaskInv' /\ HeldInv' /\ CommittedBuckets'
    BY <1>0, <2>1, <2>2, PublisherKeeps
  <2>4. TypeOK'
    <3>1. pub' \in [Archives -> Publisher]
      BY <1>0, <2>1, <2>2
    <3> QED
      BY <1>0, <2>1, <3>1 DEF IInv, TypeOK, Publisher
  <2>5. BlocksSomewhere'
    BY <1>0 DEF IInv, BlocksSomewhere, BlocksOf
  <2> QED
    BY <2>3, <2>4, <2>5 DEF IInv
<1> QED
  BY <1>1, <1>2

\* A failed put of a state file.
LEMMA PutStateFailsKeeps ==
    ASSUME IInv, NEW a \in Archives, PutStateFails(a)
    PROVE  IInv'
<1> DEFINE p == [pub[a] EXCEPT !.state = "RETRYING"]
<1>0. /\ pub[a].state = "COMMITTING" /\ pub \in [Archives -> Publisher]
      /\ pub' = [pub EXCEPT ![a] = p] /\ faults' \in 0..MaxFaults
      /\ UNCHANGED <<pending, taken, stage, fileState, tasks, raw, gz, remote, snapStates,
                     wellKnown, outcome, crashed, restarts>>
  BY PublisherTypes, PublishAssumption DEF PutStateFails, world, IInv, Fails, Publisher, TypeOK
<1>1. p \in Publisher /\ p.state = "RETRYING" /\ p.files = pub[a].files
  BY <1>0 DEF Publisher, PublishStates
<1> HIDE DEF p
<1>2. QueueInv' /\ TaskInv' /\ HeldInv' /\ CommittedBuckets'
  BY <1>0, <1>1, PublisherKeeps
<1>3. TypeOK'
  <2>1. pub' \in [Archives -> Publisher]
    BY <1>0, <1>1
  <2> QED
    BY <1>0, <2>1 DEF IInv, TypeOK, Publisher
<1>4. BlocksSomewhere'
  BY <1>0 DEF IInv, BlocksSomewhere, BlocksOf
<1> QED
  BY <1>2, <1>3, <1>4 DEF IInv

\* The checkpoint's own state file is put when all its files are uploaded.
LEMMA PutSnapStateKeeps ==
    ASSUME IInv, NEW a \in Archives, PutSnapState(a)
    PROVE  IInv'
<1> DEFINE p == [pub[a] EXCEPT !.put = "wellKnown"]
<1>0. /\ pub[a].state = "COMMITTING" /\ pub \in [Archives -> Publisher]
      /\ pub' = [pub EXCEPT ![a] = p]
      /\ snapStates' = [snapStates EXCEPT ![a] = @ \cup {front}]
      /\ UNCHANGED <<pending, taken, stage, fileState, tasks, raw, gz, remote,
                     wellKnown, outcome, crashed, faults, restarts>>
  BY PublisherTypes DEF PutSnapState, world, IInv, Publisher
<1>1. p \in Publisher /\ p.state = "COMMITTING" /\ p.files = pub[a].files
  BY <1>0 DEF Publisher, PublishStates
<1> HIDE DEF p
<1>2. QueueInv' /\ TaskInv' /\ HeldInv' /\ CommittedBuckets'
  BY <1>0, <1>1, PublisherKeeps
<1>3. front \in Snaps
  BY <1>0, FrontFacts DEF IInv, QueueInv
<1>4. TypeOK'
  <2>1. pub' \in [Archives -> Publisher]
    BY <1>0, <1>1
  <2>2. snapStates' \in [Archives -> SUBSET Snaps]
    BY <1>0, <1>3 DEF IInv, TypeOK
  <2> QED
    BY <1>0, <2>1, <2>2 DEF IInv, TypeOK, Publisher
<1>5. ASSUME NEW f \in BlocksOf(front)
      PROVE  \E b \in Archives : f \in remote[b]
  <2>1. f \in Blocks \X Snaps
    BY <1>3 DEF BlocksOf
  <2>2. f \in pub[a].files
    BY <1>0 DEF IInv, HeldInv, Complete
  <2>3. fileState[<<"snap", f>>] = "UPLOADED"
    BY <1>0, <2>1, <2>2, BlockInfo DEF IInv, HeldInv
  <2> QED
    BY <2>1, <2>3 DEF IInv, HeldInv
<1>6. BlocksSomewhere'
  <2>1. ASSUME NEW b \in Archives, NEW s \in snapStates'[b], NEW f \in BlocksOf(s)
        PROVE  \E c \in Archives : f \in remote[c]
    <3>1. s \in snapStates[b] \/ s = front
      BY <1>0 DEF IInv, TypeOK
    <3> QED
      BY <3>1, <1>5 DEF IInv, BlocksSomewhere
  <2> QED
    BY <2>1, <1>0 DEF BlocksSomewhere, BlocksOf
<1> QED
  BY <1>2, <1>4, <1>6 DEF IInv

\* The well-known state file names a checkpoint whose buckets are there:
\* those sent now, and those the archive's former state named.
LEMMA PutWellKnownKeeps ==
    ASSUME IInv, NEW a \in Archives, PutWellKnown(a)
    PROVE  IInv'
<1>0. /\ pub[a].state = "COMMITTING" /\ SnapshotPublished(a, pub[a].err)
      /\ wellKnown' = [wellKnown EXCEPT ![a] = front]
      /\ UNCHANGED <<taken, fileState, tasks, raw, gz, remote, snapStates, crashed,
                     faults, restarts>>
  BY DEF PutWellKnown, world
<1>1. front \in Snaps
  BY <1>0, FrontFacts DEF IInv, QueueInv
<1>2. ASSUME NEW f \in BucketsOf[front]
      PROVE  f \in remote[a]
  <2>1. f \in Buckets
    BY <1>1, PublishAssumption
  <2>2. CASE f \in DifferingBuckets(front, wellKnown[a])
    <3>1. f \in pub[a].files
      BY <1>0, <2>2 DEF IInv, HeldInv, Complete
    <3> QED
      BY <1>0, <2>1, <3>1 DEF IInv, HeldInv
  <2>3. CASE f \notin DifferingBuckets(front, wellKnown[a])
    <3>1. wellKnown[a] # 0 /\ f \in BucketsOf[wellKnown[a]]
      BY <2>3 DEF DifferingBuckets
    <3> QED
      BY <3>1 DEF IInv, CommittedBuckets
  <2> QED
    BY <2>2, <2>3
<1>3. CommittedBuckets'
  <2>1. ASSUME NEW b \in Archives, wellKnown'[b] # 0
        PROVE  BucketsOf[wellKnown'[b]] \subseteq remote[b]
    <3>1. CASE b = a
      BY <3>1, <1>0, <1>2 DEF IInv, TypeOK
    <3>2. CASE b # a
      BY <2>1, <3>2, <1>0 DEF IInv, TypeOK, CommittedBuckets
    <3> QED
      BY <3>1, <3>2
  <2> QED
    BY <2>1, <1>0 DEF CommittedBuckets
<1> QED
  BY <1>0, <1>3, EndKeeps


\* What the publisher wants of the front is made of files of the front.
LEMMA WantedFacts ==
    ASSUME NEW s \in Snaps, NEW w \in 0..MaxSnaps
    PROVE  BlocksOf(s) \cup DifferingBuckets(s, w) \subseteq Files
BY PublishAssumption DEF BlocksOf, DifferingBuckets, Files, Snaps

\* The archive's state arrived: the files it lacks are queued, those queued
\* before keep their state unless they failed.
LEMMA GotStateKeeps ==
    ASSUME IInv, NEW a \in Archives, GotState(a)
    PROVE  IInv'
<1>0. /\ pub[a].state = "BEGIN" /\ pub \in [Archives -> Publisher] /\ crashed = "no"
      /\ stage = "publishing" /\ front \in Snaps
      /\ UNCHANGED <<pending, taken, stage, raw, remote, snapStates, wellKnown, outcome,
                     restarts>>
      /\ wellKnown[a] \in 0..MaxSnaps
      /\ gz \in SUBSET Files /\ tasks \subseteq Tasks
  BY PublisherTypes, FrontFacts DEF GotState, world, IInv, QueueInv, TypeOK
<1>1. BlocksSomewhere' /\ CommittedBuckets'
  BY <1>0 DEF IInv, BlocksSomewhere, BlocksOf, CommittedBuckets
<1>2. CASE /\ Fails
           /\ pub' = [pub EXCEPT ![a].state = "RETRYING"]
           /\ UNCHANGED <<fileState, tasks, gz, crashed>>
  <2> DEFINE p == [pub[a] EXCEPT !.state = "RETRYING"]
  <2>1. pub' = [pub EXCEPT ![a] = p] /\ faults' \in 0..MaxFaults
    BY <1>0, <1>2, PublishAssumption DEF Fails, IInv, TypeOK, Publisher
  <2>2. p \in Publisher /\ p.state = "RETRYING" /\ p.files = pub[a].files
    BY <1>0 DEF Publisher, PublishStates
  <2> HIDE DEF p
  <2>3. QueueInv' /\ TaskInv' /\ HeldInv' /\ CommittedBuckets'
    BY <1>0, <1>2, <2>1, <2>2, PublisherKeeps
  <2>4. TypeOK'
    <3>1. pub' \in [Archives -> Publisher]
      BY <1>0, <2>1, <2>2
    <3> QED
      BY <1>0, <1>2, <2>1, <3>1 DEF IInv, TypeOK, Publisher
  <2> QED
    BY <1>1, <2>3, <2>4 DEF IInv
<1> DEFINE wanted == BlocksOf(front) \cup DifferingBuckets(front, wellKnown[a])
           fs == [i \in Infos |->
                    IF \E f \in FreshInfos(a, wanted) : i = InfoOf(a, f)
                    THEN "NEEDED" ELSE fileState[i]]
           p == [pub[a] EXCEPT !.files = @ \cup wanted]
<1>3. CASE EnterSendingState(a, p, fs, tasks, gz) /\ UNCHANGED faults
  <2>0. wanted \subseteq Files
    BY <1>0, WantedFacts
  <2>1. p \in Publisher /\ p.files = pub[a].files \cup wanted
    <3>1. pub[a] \in Publisher /\ pub[a].files \cup wanted \subseteq Files
      BY <1>0, <2>0 DEF Publisher
    <3> HIDE DEF wanted
    <3> QED
      BY <3>1 DEF Publisher
  <2>2. fs \in [Infos -> FileStates]
    BY DEF IInv, TypeOK, FileStates
  <2>3. \A f \in FreshInfos(a, wanted) : f \in Buckets
    BY DEF FreshInfos
  <2>4. ASSUME NEW i \in Infos, fs[i] # fileState[i]
        PROVE  \E f \in FreshInfos(a, wanted) : i = InfoOf(a, f)
    BY <2>4
  <2>5. \A f \in FreshInfos(a, wanted) : fs[InfoOf(a, f)] = "NEEDED"
    BY <2>3, InfoType, BucketInfo
  <2>6. \A f \in FreshInfos(a, wanted) :
           f \notin pub[a].files \/ fileState[InfoOf(a, f)] = "FAILED"
    BY DEF FreshInfos
  <2>7. \A f \in wanted \cap Buckets : f \notin pub[a].files => f \in FreshInfos(a, wanted)
    BY DEF FreshInfos
  <2>8. Complete(front, wellKnown[a], p.files)
    BY <2>1 DEF Complete
  <2> DEFINE F == FreshInfos(a, wanted)
  <2> HIDE DEF F, wanted, fs, p
  <2>9. /\ SendStep(a, p, fs, tasks) /\ gz' \subseteq Files /\ tasks' \subseteq Tasks
        /\ crashed' \in {"no", "assert"}
    BY <1>0, <1>3, <2>1, <2>2, Sending
  <2>10. \A b \in Archives : \A f \in Buckets : b # a =>
            fs[InfoOf(b, f)] = fileState[InfoOf(b, f)]
    BY <2>3, <2>4, InfoType, BucketInfo, InfoUnique DEF F
  <2>11. \A f \in Blocks \X Snaps : fs[<<"snap", f>>] = fileState[<<"snap", f>>]
    <3>1. ASSUME NEW f \in Blocks \X Snaps, fs[<<"snap", f>>] # fileState[<<"snap", f>>]
          PROVE  FALSE
      <4>1. f \in Files /\ f \notin Buckets /\ InfoOf(a, f) = <<"snap", f>>
        BY BlockInfo
      <4>2. PICK g \in F : InfoOf(a, f) = InfoOf(a, g)
        BY <2>4, <3>1, <4>1, InfoType DEF F
      <4>3. g \in Buckets /\ g \in Files
        BY <2>3, BucketInfo DEF F
      <4> QED
        BY <4>1, <4>2, <4>3, InfoUnique
    <3> QED
      BY <3>1
  <2>12. ASSUME NEW t \in tasks, Live(t)
         PROVE  fs[InfoOfTask(t)] = Busy(t.op)
    <3>0. /\ t.arch \in Archives /\ t.file \in Files /\ InfoOfTask(t) \in Infos
          /\ t.op \in {"compress", "mkdir", "put"}
      BY <1>0, InfoType DEF Tasks, InfoOfTask
    <3>1. /\ fileState[InfoOfTask(t)] = Busy(t.op)
          /\ pub[t.arch].state # "NONE" => t.file \in pub[t.arch].files
      BY <2>12 DEF IInv, TaskInv
    <3>2. Busy(t.op) # "FAILED"
      BY <3>0 DEF Busy
    <3>3. CASE fs[InfoOfTask(t)] # fileState[InfoOfTask(t)]
      <4>1. PICK f \in F : InfoOfTask(t) = InfoOf(a, f)
        BY <2>4, <3>0, <3>3 DEF F
      <4>2. f \in Buckets /\ f \in Files
        BY <2>3, BucketInfo DEF F
      <4>3. t.file = f /\ t.arch = a
        BY <3>0, <4>1, <4>2, InfoUnique DEF InfoOfTask
      <4> QED
        BY <4>1, <4>3, <3>1, <3>2, <2>6, <1>0 DEF F
    <3> QED
      BY <3>1, <3>3
  <2>13. \A t \in tasks : Live(t) /\ t.arch = a => t.file \in p.files
    BY <1>0, <2>1 DEF IInv, TaskInv
  <2>14. TaskInv'
    BY <1>0, <2>1, <2>2, <2>9, <2>12, <2>13, SendKeepsTasks
  <2>15. \A f \in p.files \cap Buckets :
            fs[InfoOf(a, f)] = "UPLOADED" => f \in remote'[a]
    <3>1. ASSUME NEW f \in p.files, f \in Buckets, fs[InfoOf(a, f)] = "UPLOADED"
          PROVE  f \in remote[a]
      <4>1. f \notin F
        BY <3>1, <2>5 DEF F
      <4>2. f \in pub[a].files
        BY <4>1, <2>1, <2>7, <3>1 DEF F
      <4>3. InfoOf(a, f) \in Infos /\ f \in Files
        BY <3>1, InfoType, BucketInfo
      <4>4. fileState[InfoOf(a, f)] = "UPLOADED"
        <5>1. CASE fs[InfoOf(a, f)] # fileState[InfoOf(a, f)]
          <6>1. PICK g \in F : InfoOf(a, f) = InfoOf(a, g)
            BY <2>4, <4>3, <5>1 DEF F
          <6>2. g = f
            BY <6>1, <4>3, <2>3, BucketInfo, InfoUnique DEF F
          <6> QED
            BY <6>2, <4>1
        <5> QED
          BY <5>1, <3>1
      <4> QED
        BY <4>2, <4>4, <3>1 DEF IInv, HeldInv
    <3> QED
      BY <3>1, <1>0
  <2>16. \A f \in Blocks \X Snaps :
            fs[<<"snap", f>>] = "UPLOADED" => \E b \in Archives : f \in remote'[b]
    BY <2>11, <1>0 DEF IInv, HeldInv
  <2>17. HeldInv'
    BY <1>0, <2>1, <2>2, <2>8, <2>9, <2>10, <2>11, <2>15, <2>16, SendKeepsHeld
  <2>18. TypeOK'
    BY <1>0, <1>3, <2>9 DEF SendStep, IInv, TypeOK, Publisher
  <2>19. QueueInv'
    BY <1>0, <2>9 DEF SendStep, IInv, QueueInv
  <2> QED
    BY <1>1, <2>14, <2>17, <2>18, <2>19 DEF IInv
<1>4. \/ /\ Fails
         /\ pub' = [pub EXCEPT ![a].state = "RETRYING"]
         /\ UNCHANGED <<fileState, tasks, gz, crashed>>
      \/ EnterSendingState(a, p, fs, tasks, gz) /\ UNCHANGED faults
  BY DEF GotState
<1> QED
  BY <1>2, <1>3, <1>4


-----------------------------------------------------------------------------
(***************************************************************************)
(* The end of a subprocess.                                                *)
(***************************************************************************)

\* More files in the archives disturb nothing.
LEMMA FrozenKeeps ==
    ASSUME IInv, UNCHANGED <<pending, taken, stage, fileState, pub, tasks, wellKnown>>,
           \A b \in Archives : remote[b] \subseteq remote'[b]
    PROVE  QueueInv' /\ TaskInv' /\ HeldInv'
<1>1. front' = front /\ (\A t : Live(t)' = Live(t)) /\ \A b, f : InfoOf(b, f)' = InfoOf(b, f)
  BY DEF front, Live, InfoOf
<1>2. QueueInv'
  BY DEF IInv, QueueInv
<1>3. TaskInv'
  BY <1>1 DEF IInv, TaskInv, InfoOfTask
<1>4. HeldInv'
  <2>1. \A b \in Archives : pub'[b].state \in {"SENDING", "COMMITTING"} =>
           Complete(front, wellKnown[b], pub'[b].files)
    BY DEF IInv, HeldInv
  <2> QED
    BY <1>1, <2>1 DEF IInv, HeldInv, Complete, DifferingBuckets, BlocksOf
<1> QED
  BY <1>2, <1>3, <1>4

\* fileStateChange of a file that its subprocess has dealt with.
LEMMA FileStateChangeKeeps ==
    ASSUME IInv, NEW t \in tasks, NEW ok \in BOOLEAN, NEW g \in SUBSET Files,
           ~Dangling(t), crashed = "no", FileStateChange(t, ok, g),
           UNCHANGED <<pending, taken, stage, wellKnown>>,
           \A b \in Archives : remote[b] \subseteq remote'[b],
           ok /\ t.op = "put" => t.file \in remote'[t.arch]
    PROVE  /\ fileState' \in [Infos -> FileStates] /\ pub' \in [Archives -> Publisher]
           /\ tasks' \subseteq Tasks /\ gz' \subseteq Files
           /\ crashed' \in {"no", "assert"}
           /\ QueueInv' /\ TaskInv' /\ HeldInv'
<1> DEFINE a  == t.arch
           p  == [pub[a] EXCEPT !.err = @ \/ ~ok]
           fs == [fileState EXCEPT ![InfoOf(a, t.file)] = NewState(t.op, ok)]
           i0 == InfoOf(a, t.file)
<1>0. /\ t.arch \in Archives /\ t.file \in Files /\ t.op \in {"compress", "mkdir", "put"}
      /\ tasks \subseteq Tasks /\ gz \subseteq Files
      /\ fileState \in [Infos -> FileStates] /\ pub \in [Archives -> Publisher]
      /\ i0 \in Infos /\ InfoOfTask(t) = i0
  BY InfoType, PublisherTypes DEF IInv, TypeOK, Tasks, InfoOfTask
<1>1. stage = "publishing" /\ t.snap = front /\ pub[a].state # "NONE" /\ Live(t)
  BY DEF Dangling, Live
<1>2. front \in Snaps
  BY <1>1, FrontFacts DEF IInv, QueueInv
<1>3. NewState(t.op, ok) \in FileStates
  BY <1>0 DEF NewState, GoodState, FileStates
<1>4. NewState(t.op, ok) = "UPLOADED" => ok /\ t.op = "put"
  BY <1>0 DEF NewState, GoodState
<1>5. /\ fs \in [Infos -> FileStates] /\ fs[i0] = NewState(t.op, ok)
      /\ \A i \in Infos : i # i0 => fs[i] = fileState[i]
  BY <1>0, <1>3
<1>6. p \in Publisher /\ p.files = pub[a].files /\ p.state = pub[a].state
  <2> DEFINE e == pub[a].err \/ ~ok
  <2>1. p = [pub[a] EXCEPT !.err = e] /\ e \in BOOLEAN
    BY <1>0, Zenon DEF Publisher
  <2> HIDE DEF p, e
  <2> QED
    BY <1>0, <2>1 DEF Publisher
<1>7. fileState[i0] = Busy(t.op) /\ t.file \in pub[a].files
  BY <1>0, <1>1 DEF IInv, TaskInv
<1>8. fileState[i0] # "UPLOADED"
  BY <1>0, <1>7 DEF Busy
<1>9. CASE UNCHANGED <<pub, fileState, tasks, gz>> /\ crashed' = "assert"
  BY <1>0, <1>9, FrozenKeeps
<1>10. CASE /\ SendStep(a, p, fs, tasks \ {t})
            /\ pub[a].state = "SENDING" \/ pub'[a].state = "RETRYING"
            /\ gz' \subseteq Files /\ tasks' \subseteq Tasks /\ crashed' \in {"no", "assert"}
  <2> HIDE DEF p, fs
  <2>1. ASSUME NEW u \in tasks \ {t}, Live(u)
        PROVE  fs[InfoOfTask(u)] = Busy(u.op)
    <3>1. InfoOfTask(u) # i0
      BY <1>0, <1>1, <2>1 DEF IInv, TaskInv, Live
    <3>2. InfoOfTask(u) \in Infos
      BY <1>0, InfoType DEF Tasks, InfoOfTask
    <3> QED
      BY <3>1, <3>2, <1>5, <2>1 DEF IInv, TaskInv
  <2>2. \A u \in tasks \ {t} : Live(u) /\ u.arch = a => u.file \in p.files
    BY <1>1, <1>6 DEF IInv, TaskInv
  <2>3. TaskInv'
    BY <1>0, <1>1, <1>5, <1>6, <1>10, <2>1, <2>2, SendKeepsTasks
  <2>4. \A f \in p.files \cap Buckets : fs[InfoOf(a, f)] = "UPLOADED" => f \in remote'[a]
    <3>1. ASSUME NEW f \in p.files \cap Buckets, fs[InfoOf(a, f)] = "UPLOADED"
          PROVE  f \in remote'[a]
      <4>1. f \in Files /\ InfoOf(a, f) \in Infos
        BY <1>0, InfoType, BucketInfo
      <4>2. CASE InfoOf(a, f) = i0
        <5>1. f = t.file
          BY <4>1, <4>2, <1>0, InfoUnique
        <5> QED
          BY <5>1, <4>2, <3>1, <1>4, <1>5
      <4>3. CASE InfoOf(a, f) # i0
        BY <4>1, <4>3, <3>1, <1>0, <1>5, <1>6 DEF IInv, HeldInv
      <4> QED
        BY <4>2, <4>3
    <3> QED
      BY <3>1
  <2>5. \A f \in Blocks \X Snaps :
           fs[<<"snap", f>>] = "UPLOADED" => \E b \in Archives : f \in remote'[b]
    <3>1. ASSUME NEW f \in Blocks \X Snaps, fs[<<"snap", f>>] = "UPLOADED"
          PROVE  \E b \in Archives : f \in remote'[b]
      <4>1. f \in Files /\ InfoOf(a, f) = <<"snap", f>> /\ InfoOf(a, f) \in Infos
        BY <1>0, InfoType, BlockInfo
      <4>2. CASE InfoOf(a, f) = i0
        <5>1. f = t.file
          BY <4>1, <4>2, <1>0, InfoUnique
        <5>2. f \in remote'[t.arch]
          BY <5>1, <4>1, <4>2, <3>1, <1>4, <1>5
        <5> QED
          BY <5>2, <1>0
      <4>3. CASE InfoOf(a, f) # i0
        <5>1. fileState[<<"snap", f>>] = "UPLOADED"
          BY <4>1, <4>3, <3>1, <1>5
        <5> QED
          BY <5>1 DEF IInv, HeldInv
      <4> QED
        BY <4>2, <4>3
    <3> QED
      BY <3>1
  <2>6. \A b \in Archives : \A f \in Buckets : b # a =>
           fs[InfoOf(b, f)] = fileState[InfoOf(b, f)]
    <3>1. ASSUME NEW b \in Archives, NEW f \in Buckets, b # a
          PROVE  InfoOf(b, f) # i0 /\ InfoOf(b, f) \in Infos
      BY <1>0, <3>1, InfoType, BucketInfo, InfoUnique
    <3> QED
      BY <3>1, <1>5
  <2>7. \A f \in Blocks \X Snaps :
           fileState[<<"snap", f>>] = "UPLOADED" => fs[<<"snap", f>>] = "UPLOADED"
    <3>1. \A f \in Blocks \X Snaps : <<"snap", f>> \in Infos
      BY DEF Infos
    <3> QED
      BY <3>1, <1>5, <1>8
  <2>8. pub'[a].state \in {"SENDING", "COMMITTING"} => Complete(front, wellKnown[a], p.files)
    <3>1. pub[a].state = "SENDING" => Complete(front, wellKnown[a], p.files)
      BY <1>0, <1>6 DEF IInv, HeldInv
    <3> QED
      BY <3>1, <1>10
  <2>9. QueueInv'
    BY <1>1, <1>10 DEF SendStep, IInv, QueueInv
  <2>10. HeldInv'
    BY <1>0, <1>5, <1>6, <1>10, <2>4, <2>5, <2>6, <2>7, <2>8, SendKeepsHeld
  <2> QED
    BY <1>10, <2>3, <2>9, <2>10 DEF SendStep
<1>11. CASE pub[a].state = "RETRYING"
  <2>1. /\ pub' = [pub EXCEPT ![a] = p] /\ fileState' = fs /\ tasks' = tasks \ {t}
        /\ gz' = g /\ crashed' = crashed
    BY <1>6, <1>11 DEF FileStateChange
  <2> HIDE DEF p, fs
  <2>2. pub' \in [Archives -> Publisher] /\ pub'[a] = p
        /\ \A b \in Archives : b # a => pub'[b] = pub[b]
    BY <1>0, <1>6, <2>1
  <2>3. SendStep(a, p, fs, tasks \ {t})
    BY <1>5, <1>6, <1>11, <2>1, <2>2 DEF SendStep
  <2> QED
    BY <1>0, <1>6, <1>10, <1>11, <2>1, <2>2, <2>3
<1>12. CASE pub[a].state = "SENDING"
  <2>1. EnterSendingState(a, p, fs, tasks \ {t}, g)
    BY <1>6, <1>12 DEF FileStateChange
  <2> HIDE DEF p, fs
  <2>2. /\ SendStep(a, p, fs, tasks \ {t})
        /\ gz' \subseteq Files /\ tasks' \subseteq Tasks /\ crashed' \in {"no", "assert"}
    BY <1>0, <1>2, <1>5, <1>6, <2>1, Sending
  <2> QED
    BY <1>10, <1>12, <2>2
<1>13. CASE pub[a].state \notin {"RETRYING", "SENDING"}
  <2>1. crashed' = "assert" /\ UNCHANGED <<pub, fileState, tasks, gz>>
    BY <1>6, <1>13 DEF FileStateChange
  <2> QED
    BY <2>1, <1>9
<1> QED
  BY <1>11, <1>12, <1>13


\* A subprocess ended well.
LEMMA FileSucceedsKeeps ==
    ASSUME IInv, NEW t \in tasks, FileSucceeds(t)
    PROVE  IInv'
<1> DEFINE g == IF t.op = "compress" THEN gz \cup {t.file} ELSE gz
<1>0. /\ t.arch \in Archives /\ t.file \in Files /\ tasks \subseteq Tasks /\ gz \subseteq Files
      /\ fileState \in [Infos -> FileStates] /\ pub \in [Archives -> Publisher]
      /\ remote \in [Archives -> SUBSET Files] /\ crashed = "no"
      /\ UNCHANGED <<pending, taken, stage, raw, snapStates, wellKnown, outcome, faults,
                     restarts>>
  BY PublisherTypes DEF IInv, TypeOK, Tasks, FileSucceeds
<1>1. /\ remote' \in [Archives -> SUBSET Files]
      /\ \A b \in Archives : remote[b] \subseteq remote'[b]
      /\ t.op = "put" => t.file \in remote'[t.arch]
  <2>1. remote' = IF t.op = "put" THEN [remote EXCEPT ![t.arch] = @ \cup {t.file}] ELSE remote
    BY DEF FileSucceeds
  <2> QED
    BY <1>0, <2>1
<1>2. /\ fileState' \in [Infos -> FileStates] /\ pub' \in [Archives -> Publisher]
      /\ tasks' \subseteq Tasks /\ gz' \subseteq Files
      /\ crashed' \in {"no", "assert", "dangling"}
      /\ QueueInv' /\ TaskInv' /\ HeldInv'
  <2>1. CASE Dangling(t)
    <3>1. crashed' = "dangling" /\ UNCHANGED <<pub, fileState, tasks, gz>>
      BY <2>1 DEF FileSucceeds
    <3> QED
      BY <3>1, <1>0, <1>1, FrozenKeeps
  <2>2. CASE ~Dangling(t)
    <3>1. FileStateChange(t, TRUE, g)
      BY <2>2 DEF FileSucceeds
    <3>2. g \in SUBSET Files
      BY <1>0
    <3> HIDE DEF g
    <3> QED
      BY <2>2, <3>1, <3>2, <1>0, <1>1, FileStateChangeKeeps
  <2> QED
    BY <2>1, <2>2
<1>3. TypeOK'
  BY <1>0, <1>1, <1>2 DEF IInv, TypeOK, Publisher
<1>4. CommittedBuckets' /\ BlocksSomewhere'
  BY <1>0, <1>1 DEF IInv, CommittedBuckets, BlocksSomewhere, BlocksOf
<1> QED
  BY <1>2, <1>3, <1>4 DEF IInv

\* A subprocess failed.
LEMMA FileFailsKeeps ==
    ASSUME IInv, NEW t \in tasks, FileFails(t)
    PROVE  IInv'
<1> DEFINE g == IF t.op = "compress" THEN gz \ {t.file} ELSE gz
<1>0. /\ tasks \subseteq Tasks /\ gz \subseteq Files
      /\ fileState \in [Infos -> FileStates] /\ pub \in [Archives -> Publisher]
      /\ crashed = "no" /\ raw' \subseteq Files
      /\ UNCHANGED <<pending, taken, stage, remote, snapStates, wellKnown, outcome, restarts>>
  BY PublisherTypes DEF IInv, TypeOK, FileFails, world
<1>1. faults' \in 0..MaxFaults
  BY PublishAssumption DEF IInv, TypeOK, FileFails, Fails
<1>2. /\ fileState' \in [Infos -> FileStates] /\ pub' \in [Archives -> Publisher]
      /\ tasks' \subseteq Tasks /\ gz' \subseteq Files
      /\ crashed' \in {"no", "assert", "dangling"}
      /\ QueueInv' /\ TaskInv' /\ HeldInv'
  <2>1. CASE Dangling(t)
    <3>1. crashed' = "dangling" /\ UNCHANGED <<pub, fileState, tasks, gz>>
      BY <2>1 DEF FileFails
    <3> QED
      BY <3>1, <1>0, FrozenKeeps
  <2>2. CASE ~Dangling(t)
    <3>1. FileStateChange(t, FALSE, g)
      BY <2>2 DEF FileFails
    <3>2. g \in SUBSET Files
      BY <1>0
    <3> HIDE DEF g
    <3> QED
      BY <2>2, <3>1, <3>2, <1>0, FileStateChangeKeeps
  <2> QED
    BY <2>1, <2>2
<1>3. TypeOK'
  BY <1>0, <1>1, <1>2 DEF IInv, TypeOK, Publisher
<1>4. CommittedBuckets' /\ BlocksSomewhere'
  BY <1>0 DEF IInv, CommittedBuckets, BlocksSomewhere, BlocksOf
<1> QED
  BY <1>2, <1>3, <1>4 DEF IInv

\* A restart forgets the queue, the publishers and their subprocesses.
LEMMA RestartKeeps ==
    ASSUME IInv, Restart
    PROVE  IInv'
<1>0. /\ restarts' \in 0..MaxRestarts /\ crashed' = "no" /\ pending' = <<>> /\ stage' = "idle"
      /\ pub' = [a \in Archives |-> NoPublisher] /\ tasks' = {} /\ raw' = Buckets
      /\ gz' = gz \cap Buckets
      /\ UNCHANGED <<taken, fileState, remote, snapStates, wellKnown, outcome, faults>>
  BY PublishAssumption DEF Restart, world, IInv, TypeOK
<1>1. /\ NoPublisher \in Publisher
      /\ NoPublisher.files = {} /\ NoPublisher.state = "NONE"
  BY DEF NoPublisher, Publisher, PublishStates
<1>2. TypeOK'
  <2>1. pub' \in [Archives -> Publisher] /\ raw' \subseteq Files
    BY <1>0, <1>1 DEF Files
  <2> QED
    BY <1>0, <2>1 DEF IInv, TypeOK, Publisher
<1>3. QueueInv'
  BY <1>0, <1>1 DEF IInv, QueueInv
<1>4. TaskInv'
  BY <1>0 DEF TaskInv
<1>5. HeldInv'
  BY <1>0, <1>1 DEF IInv, HeldInv
<1>6. CommittedBuckets' /\ BlocksSomewhere'
  BY <1>0 DEF IInv, CommittedBuckets, BlocksSomewhere, BlocksOf
<1> QED
  BY <1>2, <1>3, <1>4, <1>5, <1>6 DEF IInv

-----------------------------------------------------------------------------
(***************************************************************************)
(* The theorems.                                                           *)
(***************************************************************************)

\* Nothing is queued, started or announced at first.
LEMMA InitHolds == Init => IInv
<1> SUFFICES ASSUME Init PROVE IInv
  OBVIOUS
<1>1. /\ NoPublisher \in Publisher
      /\ NoPublisher.files = {} /\ NoPublisher.state = "NONE"
  BY DEF NoPublisher, Publisher, PublishStates
<1>2. TypeOK
  <2>1. pub \in [Archives -> Publisher] /\ raw \subseteq Files
    BY <1>1 DEF Init, Files
  <2> QED
    BY <2>1, PublishAssumption DEF Init, TypeOK, Publisher, FileStates
<1>3. QueueInv
  BY <1>1, PublishAssumption DEF Init, QueueInv
<1>4. TaskInv
  BY DEF Init, TaskInv
<1>5. HeldInv
  <2>1. \A f \in Blocks \X Snaps : <<"snap", f>> \in Infos
    BY DEF Infos
  <2> QED
    BY <1>1, <2>1 DEF Init, HeldInv
<1>6. CommittedBuckets /\ BlocksSomewhere
  BY DEF Init, CommittedBuckets, BlocksSomewhere
<1> QED
  BY <1>2, <1>3, <1>4, <1>5, <1>6 DEF IInv

\* Nothing happens.
LEMMA StutterKeeps ==
    ASSUME IInv, UNCHANGED vars
    PROVE  IInv'
<1>1. UNCHANGED <<pending, taken, stage, fileState, pub, tasks, raw, gz, remote, snapStates,
                  wellKnown, outcome, crashed, faults, restarts>>
  BY DEF vars, world
<1>2. QueueInv' /\ TaskInv' /\ HeldInv'
  BY <1>1, FrozenKeeps
<1>3. TypeOK'
  BY <1>1 DEF IInv, TypeOK
<1>4. CommittedBuckets' /\ BlocksSomewhere'
  BY <1>1 DEF IInv, CommittedBuckets, BlocksSomewhere, BlocksOf
<1> QED
  BY <1>2, <1>3, <1>4 DEF IInv

\* Every step of the publication keeps the inductive invariant.
LEMMA StepKeeps == IInv /\ [Next]_vars => IInv'
<1> SUFFICES ASSUME IInv, [Next]_vars PROVE IInv'
  OBVIOUS
<1>1. CASE TakeSnapshot
  BY <1>1, TakeSnapshotKeeps
<1>2. CASE Restart
  BY <1>2, RestartKeeps
<1>3. CASE MergesReady
  BY <1>3, MergesReadyKeeps
<1>4. CASE SnapshotWritten
  BY <1>4, SnapshotWrittenKeeps
<1>5. ASSUME NEW a \in Archives, GotState(a)
      PROVE  IInv'
  BY <1>5, GotStateKeeps
<1>6. ASSUME NEW a \in Archives, RetryTimer(a)
      PROVE  IInv'
  BY <1>6, RetryTimerKeeps
<1>7. ASSUME NEW a \in Archives, PutSnapState(a)
      PROVE  IInv'
  BY <1>7, PutSnapStateKeeps
<1>8. ASSUME NEW a \in Archives, PutWellKnown(a)
      PROVE  IInv'
  BY <1>8, PutWellKnownKeeps
<1>9. ASSUME NEW a \in Archives, PutStateFails(a)
      PROVE  IInv'
  BY <1>9, PutStateFailsKeeps
<1>10. ASSUME NEW t \in tasks, FileSucceeds(t)
       PROVE  IInv'
  BY <1>10, FileSucceedsKeeps
<1>11. ASSUME NEW t \in tasks, FileFails(t)
       PROVE  IInv'
  BY <1>11, FileFailsKeeps
<1>12. CASE UNCHANGED vars
  BY <1>12, StutterKeeps
<1> QED
  BY <1>1, <1>2, <1>3, <1>4, <1>5, <1>6, <1>7, <1>8, <1>9, <1>10, <1>11, <1>12
     DEF Next, Handlers

\* The inductive invariant holds in every reachable state of a publication.
THEOREM Invariance == Spec => []IInv
BY InitHolds, StepKeeps, PTL DEF Spec

\* At most one subprocess works for a publisher on a file, for every number
\* of archives, although the publishers share the infos of a snapshot's files.
THEOREM PublishFilesInOrder == Spec => []FilesInOrder
<1>1. IInv => FilesInOrder
  <2> SUFFICES ASSUME IInv, NEW t \in tasks, NEW u \in tasks,
                      t.arch = u.arch, t.snap = u.snap, t.file = u.file
               PROVE  t = u
    BY DEF FilesInOrder, OneOpPerFile, IInv
  <2> QED
    BY DEF IInv, TaskInv, InfoOfTask
<1> QED
  BY <1>1, Invariance, PTL

\* An archive holds every bucket of the checkpoint it announces, for every
\* number of archives, whatever fails, is retried or is lost in a restart.
THEOREM AnnouncedBucketsAreHeld == Spec => []CommittedBuckets
<1>1. IInv => CommittedBuckets
  BY DEF IInv
<1> QED
  BY <1>1, Invariance, PTL

\* With one writable archive, it holds the ledger files of every checkpoint
\* it describes too (with several, one of them does: BlocksSomewhere).
THEOREM OneArchiveHoldsAll ==
    ASSUME \A a, b \in Archives : a = b
    PROVE  Spec => []AnnouncedIsHeld
<1>1. IInv => AnnouncedIsHeld
  <2> SUFFICES ASSUME IInv
               PROVE  CommittedBlocks
    BY DEF AnnouncedIsHeld, IInv
  <2>1. ASSUME NEW a \in Archives, NEW s \in snapStates[a], NEW f \in BlocksOf(s)
        PROVE  f \in remote[a]
    <3>1. PICK b \in Archives : f \in remote[b]
      BY DEF IInv, BlocksSomewhere
    <3>2. b = a
      OBVIOUS
    <3> QED
      BY <3>1, <3>2
  <2> QED
    BY <2>1 DEF CommittedBlocks
<1> QED
  BY <1>1, Invariance, PTL

\* The checkpoint an archive announces never goes back.
THEOREM AnnouncementsGoForward == Spec => WellKnownMonotone
<1>1. IInv /\ [Next]_vars => [\A a \in Archives : wellKnown'[a] >= wellKnown[a]]_vars
  <2> SUFFICES ASSUME IInv, Next, NEW a \in Archives
               PROVE  wellKnown'[a] >= wellKnown[a]
    OBVIOUS
  <2>0. wellKnown \in [Archives -> 0..MaxSnaps] /\ wellKnown[a] \in Nat
    BY DEF IInv, TypeOK
  <2>1. ASSUME NEW b \in Archives, PutWellKnown(b)
        PROVE  wellKnown'[a] >= wellKnown[a]
    <3>1. wellKnown' = [wellKnown EXCEPT ![b] = front] /\ pub[b].state = "COMMITTING"
      BY <2>1 DEF PutWellKnown
    <3>2. front \in Nat /\ wellKnown[a] <= front
      BY <3>1, FrontFacts DEF IInv, QueueInv, Snaps
    <3> QED
      BY <2>0, <3>1, <3>2
  <2>2. wellKnown' = wellKnown \/ \E b \in Archives : PutWellKnown(b)
    BY DEF Next, Handlers, TakeSnapshot, Restart, MergesReady, SnapshotWritten, GotState,
           RetryTimer, PutSnapState, PutStateFails, FileSucceeds, FileFails, world
  <2> QED
    BY <2>0, <2>1, <2>2
<1> QED
  BY <1>1, Invariance, PTL DEF Spec, WellKnownMonotone

=============================================================================
