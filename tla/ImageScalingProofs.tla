-------------------------- MODULE ImageScalingProofs --------------------------
(***************************************************************************)
(* The invariants of ImageScaling, for every set of images and sizes and   *)
(* every number of messages.  What is under way is seen as two queues: the *)
(* draw thread's mail and the resize thread's work.  A step appends to one *)
(* of them, takes the first of one, or moves it from the second to the     *)
(* first (FlowStep); which thread holds which part of a queue no longer    *)
(* matters after that.                                                     *)
(***************************************************************************)
EXTENDS ImageScaling, SequenceTheorems, TLAPS

\* The messages that the draw thread has not handled, oldest first
Mail == batch \o messages

\* The jobs that the resize thread has not finished, oldest first
Todo == work \o jobs

IsStore(m) == m.kind = "store"
IsResult(m) == m.kind = "resized"
Result(job) == [kind |-> "resized", job |-> job]

\* The jobs whose results have not been handled
UnderWay ==
  {Todo[i] : i \in 1 .. Len(Todo)}
    \cup {Mail[i].job : i \in {k \in 1 .. Len(Mail) : IsResult(Mail[k])}}

\* A job for the image that is stored now
Current(job) == job.src = source[job.name]

\* What is kept for the size of a job
Kept(job) == scaled[<<job.name, job.geom>>]

\* The resize thread goes to sleep, and sleeps, without work.
SleepsWithoutWork == resizer \in {"sleepy", "waiting"} => jobs = <<>>

\* An image that is not stored has no pictures.
NoImageNoPictures ==
  \A n \in Names, g \in Geoms : source[n] = 0 => scaled[<<n, g>>] = "absent"

\* All that is known of an image came with a message that has been sent, ...
SourcesAreOld ==
  /\ \A n \in Names : source[n] <= stores
  /\ \A job \in UnderWay : job.src <= stores
  /\ \A i \in 1 .. Len(Mail) : IsStore(Mail[i]) => Mail[i].src <= stores

\* ... and an image that is still to be stored is newer than all of it.
StoresAreNew ==
  \A i \in 1 .. Len(Mail) :
    IsStore(Mail[i]) =>
      /\ \A n \in Names : source[n] < Mail[i].src
      /\ \A job \in UnderWay : job.src < Mail[i].src
      /\ \A j \in i + 1 .. Len(Mail) : IsStore(Mail[j]) => Mail[i].src < Mail[j].src

\* What is under way for an image that is stored has an entry.
HasEntry == \A job \in UnderWay : Current(job) => Kept(job) # "absent"

\* A slow resize in front of the quick one of the same picture
Overtakes(slow, quick) ==
  /\ slow.name = quick.name /\ slow.src = quick.src /\ slow.geom = quick.geom
  /\ ~slow.quick /\ quick.quick

\* Slow results stay behind the quick ones on their whole way ...
SlowIsLast ==
  /\ \A i \in 1 .. Len(Todo) : \A j \in i + 1 .. Len(Todo) : ~ Overtakes(Todo[i], Todo[j])
  /\ \A i \in 1 .. Len(Mail) : IsResult(Mail[i]) =>
       /\ \A j \in i + 1 .. Len(Mail) : IsResult(Mail[j]) => ~ Overtakes(Mail[i].job, Mail[j].job)
       /\ \A j \in 1 .. Len(Todo) : ~ Overtakes(Mail[i].job, Todo[j])

\* ... so that a slow picture is never followed by a quick one.
SlowIsFinal == \A job \in UnderWay : Current(job) /\ job.quick => Kept(job) # "slow"

IInv ==
  /\ TypeOK /\ PicturesAreCurrent /\ SleepsWithoutWork
  /\ NoImageNoPictures /\ SourcesAreOld /\ StoresAreNew
  /\ HasEntry /\ SlowIsLast /\ SlowIsFinal

------------------------------------------------------------------------------
(* Sequences *)

\* Taking the first of two queues in a row
LEMMA TailOfConcat ==
  ASSUME NEW S, NEW s \in Seq(S), NEW t \in Seq(S), s # <<>>
  PROVE  /\ s \o t # <<>> /\ Head(s \o t) = Head(s)
         /\ Tail(s \o t) = Tail(s) \o t
<1>1. Len(s) > 0 /\ Tail(s) \in Seq(S) /\ Len(Tail(s)) = Len(s) - 1
  OBVIOUS
<1>2. s \o t # <<>> /\ Head(s \o t) = Head(s)
  BY <1>1
<1>3. /\ Tail(s \o t) \in Seq(S) /\ Tail(s) \o t \in Seq(S)
      /\ Len(Tail(s \o t)) = Len(Tail(s) \o t)
  BY <1>1, <1>2
<1>4. \A i \in 1 .. Len(Tail(s \o t)) : Tail(s \o t)[i] = (Tail(s) \o t)[i]
  BY <1>1, <1>2
<1> QED BY <1>2, <1>3, <1>4, SeqEqual

\* Appending to the second of two queues in a row
LEMMA AppendToConcat ==
  ASSUME NEW S, NEW s \in Seq(S), NEW t \in Seq(S), NEW x \in S
  PROVE  s \o Append(t, x) = Append(s \o t, x)
<1>1. /\ s \o Append(t, x) \in Seq(S) /\ Append(s \o t, x) \in Seq(S)
      /\ Len(s \o Append(t, x)) = Len(Append(s \o t, x))
  OBVIOUS
<1>2. \A i \in 1 .. Len(s \o Append(t, x)) : (s \o Append(t, x))[i] = Append(s \o t, x)[i]
  OBVIOUS
<1> QED BY <1>1, <1>2, SeqEqual

\* Taking the first of a queue into another that is empty
LEMMA HeadAndTail ==
  ASSUME NEW S, NEW s \in Seq(S), s # <<>>
  PROVE  <<Head(s)>> \o Tail(s) = s
<1>1. Len(s) > 0 /\ Tail(s) \in Seq(S) /\ Len(Tail(s)) = Len(s) - 1 /\ <<Head(s)>> \in Seq(S)
  OBVIOUS
<1>2. <<Head(s)>> \o Tail(s) \in Seq(S) /\ Len(<<Head(s)>> \o Tail(s)) = Len(s)
  BY <1>1
<1>3. \A i \in 1 .. Len(s) : (<<Head(s)>> \o Tail(s))[i] = s[i]
  BY <1>1
<1> QED BY <1>2, <1>3, SeqEqual

------------------------------------------------------------------------------
(* Types and initial states *)

\* The initial states are typed.
LEMMA InitTypeOK == Init => TypeOK
<1> SUFFICES ASSUME Init PROVE TypeOK
  OBVIOUS
<1>1. /\ batch \in Seq(Messages) /\ messages \in Seq(Messages) /\ jobs \in Seq(Jobs)
      /\ work \in Seq(Jobs) /\ Len(work) <= 1
      /\ resizer = "looking" /\ work = <<>>
  BY DEF Init
<1>2. /\ scaled \in [Names \X Geoms -> {"absent", "wanted", "quick", "slow"}]
      /\ pixels \in [Names \X Geoms -> Sources \cup {0}]
      /\ texture \in [Names \X Geoms -> {"none", "quick", "slow"}]
  BY DEF Init
<1> QED BY <1>1, <1>2, ScalingAssumption DEF ScalingAssumption, Init, TypeOK

\* ForgetScaled keeps the types.
LEMMA ForgetScaledType ==
  ASSUME TypeOK, NEW S, ForgetScaled(S)
  PROVE  /\ scaled' \in [Names \X Geoms -> {"absent", "wanted", "quick", "slow"}]
         /\ pixels' \in [Names \X Geoms -> Sources \cup {0}]
         /\ texture' \in [Names \X Geoms -> {"none", "quick", "slow"}]
BY DEF TypeOK, ForgetScaled

\* The parts of a message
LEMMA MessageFields ==
  ASSUME NEW m \in Messages
  PROVE  /\ IsStore(m) => m.name \in Names /\ m.src \in Sources /\ m.content \in Sources
         /\ IsResult(m) => m.job \in Jobs /\ m = Result(m.job)
BY DEF Messages, IsStore, IsResult, Result

\* Every step keeps the types.
LEMMA TypeStep == TypeOK /\ [Next]_vars => TypeOK'
<1> SUFFICES ASSUME TypeOK, [Next]_vars PROVE TypeOK'
  OBVIOUS
<1> USE ScalingAssumption DEF ScalingAssumption, TypeOK, drawVars, resizerVars, serverVars
<1>1. CASE TakeMessages
  BY <1>1 DEF TakeMessages
<1>2. CASE HandleStore
  <2>1. Head(batch) \in Messages /\ Tail(batch) \in Seq(Messages)
    BY <1>2 DEF HandleStore
  <2>2. Head(batch).name \in Names /\ Head(batch).src \in Sources /\ Head(batch).content \in Sources
    BY <1>2, <2>1, MessageFields DEF HandleStore, IsStore
  <2>3. CASE UNCHANGED <<source, content, scaled, pixels, texture>>
    BY <1>2, <2>1, <2>3 DEF HandleStore
  <2>4. CASE /\ source'  = [source EXCEPT ![Head(batch).name] = Head(batch).src]
             /\ content' = [content EXCEPT ![Head(batch).name] = Head(batch).content]
             /\ ForgetScaled({Head(batch).name})
    BY <1>2, <2>1, <2>2, <2>4, ForgetScaledType DEF HandleStore
  <2> QED BY <1>2, <2>3, <2>4 DEF HandleStore
<1>3. CASE HandleClear
  BY <1>3, ForgetScaledType DEF HandleClear
<1>4. CASE HandleResized
  <2>1. Head(batch) \in Messages /\ Tail(batch) \in Seq(Messages)
    BY <1>4 DEF HandleResized
  <2>2. Head(batch).job \in Jobs
    BY <1>4, <2>1, MessageFields DEF HandleResized, IsResult
  <2> QED BY <1>4, <2>1, <2>2 DEF HandleResized, UpdateFromResize, Jobs
<1>5. CASE Look
  <2>1. CASE jobs = <<>>
    BY <1>5, <2>1 DEF Look
  <2>2. CASE jobs # <<>>
    <3>1. Head(jobs) \in Jobs /\ Tail(jobs) \in Seq(Jobs)
      BY <2>2
    <3>2. /\ resizer' = "resizing" /\ jobs' = Tail(jobs) /\ work' = <<Head(jobs)>>
          /\ UNCHANGED <<drawVars, messages, serverVars, quit>>
      BY <1>5, <2>2 DEF Look
    <3>3. work' \in Seq(Jobs) /\ Len(work') = 1
      BY <3>1, <3>2
    <3> QED BY <3>1, <3>2, <3>3
  <2> QED BY <2>1, <2>2
<1>6. CASE EndLoop \/ Wait
  BY <1>6 DEF EndLoop, Wait
<1>7. CASE Resized
  <2>1. work # <<>> /\ work[1] \in Jobs
    BY <1>7 DEF Resized
  <2>2. Job(work[1].name, work[1].src, work[1].geom, FALSE) \in Jobs
    BY <2>1 DEF Jobs, Job
  <2>3. Append(jobs, Job(work[1].name, work[1].src, work[1].geom, FALSE)) \in Seq(Jobs)
    BY <2>2 DEF Job
  <2>4. jobs' = Append(jobs, Job(work[1].name, work[1].src, work[1].geom, FALSE)) \/ jobs' = jobs
    BY <1>7 DEF Resized
  <2>5. jobs' \in Seq(Jobs)
    BY <2>3, <2>4
  <2> QED BY <1>7, <2>5 DEF Resized
<1>8. CASE Post
  <2>1. work # <<>> /\ work[1] \in Jobs
    BY <1>8 DEF Post
  <2>2. [kind |-> "resized", job |-> work[1]] \in Messages
    BY <2>1 DEF Messages
  <2> QED BY <1>8, <2>2 DEF Post
<1>9. ASSUME NEW n \in Names, NEW g \in Geoms, GetImage(n, g) PROVE TypeOK'
  <2>1. source[n] \in Sources
    BY <1>9 DEF GetImage
  <2>2. Job(n, source[n], g, TRUE) \in Jobs
    BY <2>1 DEF Jobs, Job
  <2>3. /\ scaled' \in [Names \X Geoms -> {"absent", "wanted", "quick", "slow"}]
        /\ texture' \in [Names \X Geoms -> {"none", "quick", "slow"}]
    BY <1>9 DEF GetImage
  <2>4. jobs' \in Seq(Jobs)
    <3>1. Append(jobs, Job(n, source[n], g, TRUE)) \in Seq(Jobs)
      BY <2>2 DEF Job
    <3>2. jobs' = Append(jobs, Job(n, source[n], g, TRUE)) \/ jobs' = jobs
      BY <1>9 DEF GetImage, AddJob
    <3> QED BY <3>1, <3>2
  <2>5. resizer' = resizer \/ (resizer = "waiting" /\ resizer' = "looking")
    BY <1>9 DEF GetImage, AddJob
  <2> QED BY <1>9, <2>3, <2>4, <2>5 DEF GetImage
<1>10. CASE Quit
  <2>1. /\ resizer' = resizer \/ (resizer = "waiting" /\ resizer' = "looking")
        /\ quit' \in {"no", "begun", "aborted", "exited"}
    BY <1>10 DEF Quit
  <2> QED BY <1>10, <2>1 DEF Quit
<1>11. ASSUME NEW n \in Names, NEW c \in 1 .. stores + 1, SendStore(n, c) PROVE TypeOK'
  <2>1. stores + 1 \in Sources /\ c \in Sources
    BY <1>11 DEF SendStore, Sources
  <2>2. [kind |-> "store", name |-> n, src |-> stores + 1, content |-> c] \in Messages
    BY <2>1 DEF Messages
  <2> QED BY <1>11, <2>1, <2>2 DEF SendStore
<1>12. CASE SendClear
  <2>1. [kind |-> "clear"] \in Messages
    BY DEF Messages
  <2> QED BY <1>12, <2>1 DEF SendClear
<1>13. CASE UNCHANGED vars
  BY <1>13 DEF vars
<1> QED BY <1>1, <1>2, <1>3, <1>4, <1>5, <1>6, <1>7, <1>8, <1>9, <1>10, <1>11, <1>12, <1>13
     DEF Next, HandleMessage, ResizeThread, Draw, Servers

------------------------------------------------------------------------------
(* What a step does to the two queues *)

\* Nothing: a thread passes on what it has within one queue.
Quiet == Mail' = Mail /\ Todo' = Todo /\ UNCHANGED <<source, scaled, stores>>

\* The draw thread handles a message.
Took ==
  /\ Mail # <<>> /\ Mail' = Tail(Mail) /\ Todo' = Todo
  /\ Head(batch) = Head(Mail) /\ HandleMessage /\ stores' = stores

\* A server sends one.
Sent(m) ==
  /\ Mail' = Append(Mail, m) /\ Todo' = Todo /\ UNCHANGED <<source, scaled>>
  /\ \/ IsStore(m) /\ m.src = stores + 1 /\ stores' = stores + 1
     \/ ~ IsStore(m) /\ ~ IsResult(m) /\ stores' = stores

\* The resize thread sends its result, ...
Posted ==
  /\ Todo # <<>> /\ Todo' = Tail(Todo) /\ Mail' = Append(Mail, Result(Head(Todo)))
  /\ UNCHANGED <<source, scaled, stores>>

\* ... or adds the slow job to a quick one.
SlowAdded(job) ==
  /\ job \in UnderWay /\ job.quick
  /\ Todo' = Append(Todo, Job(job.name, job.src, job.geom, FALSE)) /\ Mail' = Mail
  /\ UNCHANGED <<source, scaled, stores>>

\* The draw thread asks for a size.
Wanted(n, g) ==
  /\ scaled[<<n, g>>] = "absent" /\ scaled' = [scaled EXCEPT ![<<n, g>>] = "wanted"]
  /\ source[n] # 0
  /\ Todo' = Append(Todo, Job(n, source[n], g, TRUE)) /\ Mail' = Mail
  /\ UNCHANGED <<source, stores>>

\* The two queues hold messages and jobs.
LEMMA FlowTypes ==
  ASSUME TypeOK
  PROVE  Mail \in Seq(Messages) /\ Todo \in Seq(Jobs) /\ UnderWay \subseteq Jobs
<1>1. Mail \in Seq(Messages) /\ Todo \in Seq(Jobs)
  BY DEF TypeOK, Mail, Todo
<1>2. \A i \in 1 .. Len(Todo) : Todo[i] \in Jobs
  BY <1>1
<1>3. \A i \in 1 .. Len(Mail) : IsResult(Mail[i]) => Mail[i].job \in Jobs
  <2> TAKE i \in 1 .. Len(Mail)
  <2>1. Mail[i] \in Messages
    BY <1>1
  <2> QED BY <2>1, MessageFields
<1> QED BY <1>1, <1>2, <1>3 DEF UnderWay

\* Every step leaves the two queues alone or does one of five things to them.
LEMMA FlowStep ==
  TypeOK /\ [Next]_vars =>
    \/ Quiet \/ Took \/ Posted
    \/ \E m \in Messages : Sent(m)
    \/ \E job \in Jobs : SlowAdded(job)
    \/ \E n \in Names, g \in Geoms : Wanted(n, g)
<1> SUFFICES ASSUME TypeOK, [Next]_vars
             PROVE  \/ Quiet \/ Took \/ Posted
                    \/ \E m \in Messages : Sent(m)
                    \/ \E job \in Jobs : SlowAdded(job)
                    \/ \E n \in Names, g \in Geoms : Wanted(n, g)
  OBVIOUS
<1>t. /\ batch \in Seq(Messages) /\ messages \in Seq(Messages)
      /\ jobs \in Seq(Jobs) /\ work \in Seq(Jobs) /\ Len(work) <= 1
      /\ resizer \in {"resizing", "posting"} <=> work # <<>>
      /\ stores \in Nat
  BY ScalingAssumption DEF ScalingAssumption, TypeOK
<1> USE DEF drawVars, resizerVars, serverVars
<1>1. CASE TakeMessages
  <2>1. Mail' = messages \o <<>> /\ Mail = <<>> \o messages
    BY <1>1 DEF TakeMessages, Mail
  <2>2. Mail' = Mail
    BY <1>t, <2>1, ConcatEmptySeq
  <2> QED BY <1>1, <2>2 DEF TakeMessages, Quiet, Todo
<1>2. CASE HandleMessage
  <2>1. /\ batch # <<>> /\ batch' = Tail(batch)
        /\ UNCHANGED <<messages, jobs, work, stores>>
    BY <1>2 DEF HandleMessage, HandleStore, HandleClear, HandleResized
  <2>2. Mail # <<>> /\ Mail' = Tail(Mail) /\ Head(batch) = Head(Mail)
    BY <1>t, <2>1, TailOfConcat DEF Mail
  <2> QED BY <1>2, <2>1, <2>2 DEF Took, Todo
<1>3. CASE Look
  <2>1. Todo' = Todo
    <3>1. CASE jobs = <<>>
      BY <1>3, <3>1 DEF Look, Todo
    <3>2. CASE jobs # <<>>
      <4>1. work = <<>> /\ work' = <<Head(jobs)>> /\ jobs' = Tail(jobs)
        BY <1>3, <1>t, <3>2 DEF Look
      <4>2. Todo' = jobs
        BY <1>t, <3>2, <4>1, HeadAndTail DEF Todo
      <4>3. Todo = jobs
        BY <1>t, <4>1, ConcatEmptySeq DEF Todo
      <4> QED BY <4>2, <4>3
    <3> QED BY <3>1, <3>2
  <2> QED BY <1>3, <2>1 DEF Look, Quiet, Mail
<1>4. CASE EndLoop \/ Wait \/ Quit \/ UNCHANGED vars
  BY <1>4 DEF EndLoop, Wait, Quit, vars, Quiet, Mail, Todo
<1>5. CASE Resized
  <2> DEFINE job == work[1]
             slow == Job(job.name, job.src, job.geom, FALSE)
  <2>1. work # <<>> /\ job \in Jobs
    BY <1>5, <1>t DEF Resized
  <2>2. slow \in Jobs
    BY <2>1 DEF Jobs, Job
  <2>3. CASE job.quick
    <3>1. jobs' = Append(jobs, slow) /\ work' = work
      BY <1>5, <2>3 DEF Resized
    <3>2. Todo' = Append(Todo, slow)
      <4> HIDE DEF slow
      <4> QED BY <1>t, <2>2, <3>1, AppendToConcat DEF Todo
    <3>3. job = Todo[1] /\ 1 \in 1 .. Len(Todo)
      BY <1>t, <2>1 DEF Todo
    <3>4. job \in UnderWay
      BY <3>3 DEF UnderWay
    <3>5. Mail' = Mail /\ UNCHANGED <<source, scaled, stores>>
      BY <1>5 DEF Resized, Mail
    <3>6. SlowAdded(job)
      BY <2>3, <3>2, <3>4, <3>5 DEF SlowAdded
    <3> QED BY <2>1, <3>6
  <2>4. CASE ~ job.quick
    BY <1>5, <2>4 DEF Resized, Quiet, Mail, Todo
  <2> QED BY <2>3, <2>4
<1>6. CASE Post
  <2>1. work # <<>> /\ work[1] = Head(work) /\ work[1] \in Jobs
    BY <1>6, <1>t DEF Post
  <2>2. Todo # <<>> /\ Head(Todo) = work[1] /\ Tail(Todo) = Tail(work) \o jobs
    BY <1>t, <2>1, TailOfConcat DEF Todo
  <2>3. Tail(work) = <<>>
    BY <1>t, <2>1
  <2>4. Todo' = Tail(Todo)
    BY <1>6, <2>2, <2>3 DEF Post, Todo
  <2>5. Result(work[1]) \in Messages
    BY <2>1 DEF Result, Messages
  <2>6. Mail' = Append(Mail, Result(work[1]))
    BY <1>6, <1>t, <2>5, AppendToConcat DEF Post, Mail, Result
  <2> QED BY <1>6, <2>2, <2>4, <2>6 DEF Post, Posted
<1>7. ASSUME NEW n \in Names, NEW g \in Geoms, GetImage(n, g)
      PROVE  Quiet \/ Wanted(n, g)
  <2> DEFINE job == Job(n, source[n], g, TRUE)
  <2>1. CASE scaled[<<n, g>>] = "absent"
    <3>1. source[n] \in Sources
      BY <1>7 DEF GetImage, TypeOK
    <3>2. job \in Jobs
      BY <3>1 DEF Jobs, Job
    <3>3. jobs' = Append(jobs, job) /\ work' = work
      BY <1>7, <2>1 DEF GetImage, AddJob
    <3>4. Todo' = Append(Todo, job)
      <4> HIDE DEF job
      <4> QED BY <1>t, <3>2, <3>3, AppendToConcat DEF Todo
    <3> QED BY <1>7, <2>1, <3>4 DEF GetImage, Wanted, Mail
  <2>2. CASE scaled[<<n, g>>] # "absent"
    BY <1>7, <2>2 DEF GetImage, Quiet, Mail, Todo
  <2> QED BY <2>1, <2>2
<1>8. ASSUME NEW n \in Names, NEW c \in 1 .. stores + 1, SendStore(n, c)
      PROVE  \E m \in Messages : Sent(m)
  <2> DEFINE m == [kind |-> "store", name |-> n, src |-> stores + 1, content |-> c]
  <2>1. stores + 1 \in Sources /\ c \in Sources
    BY <1>8, <1>t, ScalingAssumption DEF ScalingAssumption, SendStore, Sources
  <2>2. m \in Messages
    BY <2>1 DEF Messages
  <2>3. messages' = Append(messages, m) /\ batch' = batch
    BY <1>8 DEF SendStore
  <2>4. Mail' = Append(Mail, m)
    <3> HIDE DEF m
    <3> QED BY <1>t, <2>2, <2>3, AppendToConcat DEF Mail
  <2>5. IsStore(m) /\ m.src = stores + 1
    BY DEF IsStore
  <2> HIDE DEF m
  <2>6. Sent(m)
    BY <1>8, <2>4, <2>5 DEF SendStore, Sent, Todo
  <2> QED BY <2>2, <2>6
<1>9. CASE SendClear
  <2> DEFINE m == [kind |-> "clear"]
  <2>2. m \in Messages
    BY DEF Messages
  <2>3. messages' = Append(messages, m) /\ batch' = batch
    BY <1>9 DEF SendClear
  <2>4. Mail' = Append(Mail, m)
    <3> HIDE DEF m
    <3> QED BY <1>t, <2>2, <2>3, AppendToConcat DEF Mail
  <2>5. ~ IsStore(m) /\ ~ IsResult(m)
    BY DEF IsStore, IsResult
  <2> HIDE DEF m
  <2>6. Sent(m)
    BY <1>9, <2>4, <2>5 DEF SendClear, Sent, Todo
  <2> QED BY <2>2, <2>6
<1> QED BY <1>1, <1>2, <1>3, <1>4, <1>5, <1>6, <1>7, <1>8, <1>9
     DEF Next, ResizeThread, Draw, Servers

\* What the jobs under way are
LEMMA UnderWayMembers ==
  /\ \A i \in 1 .. Len(Todo) : Todo[i] \in UnderWay
  /\ \A i \in 1 .. Len(Mail) : IsResult(Mail[i]) => Mail[i].job \in UnderWay
  /\ \A S : (/\ \A i \in 1 .. Len(Todo') : Todo'[i] \in S
            /\ \A i \in 1 .. Len(Mail') : IsResult(Mail'[i]) => Mail'[i].job \in S)
             => UnderWay' \subseteq S
  /\ \A job \in UnderWay' :
       \/ \E i \in 1 .. Len(Todo') : job = Todo'[i]
       \/ \E i \in 1 .. Len(Mail') : IsResult(Mail'[i]) /\ job = Mail'[i].job
BY DEF UnderWay

\* What is under way after a step
LEMMA UnderWayStep ==
  ASSUME TypeOK
  PROVE  /\ Took \/ Posted \/ (\E m \in Messages : Sent(m)) => UnderWay' \subseteq UnderWay
         /\ \A job \in Jobs : SlowAdded(job) =>
              UnderWay' \subseteq UnderWay \cup {Job(job.name, job.src, job.geom, FALSE)}
         /\ \A n \in Names, g \in Geoms : Wanted(n, g) =>
              UnderWay' \subseteq UnderWay \cup {Job(n, source[n], g, TRUE)}
<1>t. Mail \in Seq(Messages) /\ Todo \in Seq(Jobs)
  BY FlowTypes
<1>1. CASE Took
  <2>1. \A i \in 1 .. Len(Mail') : i + 1 \in 1 .. Len(Mail) /\ Mail'[i] = Mail[i + 1]
    BY <1>t, <1>1 DEF Took
  <2>2. \A i \in 1 .. Len(Mail') : IsResult(Mail'[i]) => Mail'[i].job \in UnderWay
    BY <2>1 DEF UnderWay
  <2>3. \A i \in 1 .. Len(Todo') : Todo'[i] \in UnderWay
    BY <1>1 DEF Took, UnderWay
  <2> QED BY <2>2, <2>3, UnderWayMembers
<1>2. CASE Posted
  <2>1. \A i \in 1 .. Len(Todo') : i + 1 \in 1 .. Len(Todo) /\ Todo'[i] = Todo[i + 1]
    BY <1>t, <1>2 DEF Posted
  <2>2. Head(Todo) = Todo[1] /\ 1 \in 1 .. Len(Todo)
    BY <1>t, <1>2 DEF Posted
  <2>3. \A i \in 1 .. Len(Mail') :
          \/ i \in 1 .. Len(Mail) /\ Mail'[i] = Mail[i]
          \/ Mail'[i] = Result(Todo[1])
    BY <1>t, <1>2, <2>2 DEF Posted
  <2>4. Result(Todo[1]).job = Todo[1]
    BY DEF Result
  <2>5. \A i \in 1 .. Len(Mail') : IsResult(Mail'[i]) => Mail'[i].job \in UnderWay
    BY <2>2, <2>3, <2>4, UnderWayMembers
  <2>6. \A i \in 1 .. Len(Todo') : Todo'[i] \in UnderWay
    BY <2>1, UnderWayMembers
  <2> QED BY <2>5, <2>6, UnderWayMembers
<1>3. ASSUME NEW m \in Messages, Sent(m) PROVE UnderWay' \subseteq UnderWay
  <2>1. \A i \in 1 .. Len(Mail') :
          \/ i \in 1 .. Len(Mail) /\ Mail'[i] = Mail[i]
          \/ Mail'[i] = m
    BY <1>t, <1>3 DEF Sent
  <2>2. ~ IsResult(m)
    BY <1>3 DEF Sent, IsStore, IsResult
  <2> QED BY <1>3, <2>1, <2>2 DEF Sent, UnderWay
<1>4. ASSUME NEW job, Todo' = Append(Todo, job), Mail' = Mail
      PROVE  UnderWay' \subseteq UnderWay \cup {job}
  <2>1. \A i \in 1 .. Len(Todo') :
          \/ i \in 1 .. Len(Todo) /\ Todo'[i] = Todo[i]
          \/ Todo'[i] = job
    BY <1>t, <1>4
  <2> QED BY <1>4, <2>1 DEF UnderWay
<1>5. ASSUME NEW job \in Jobs, SlowAdded(job)
      PROVE  UnderWay' \subseteq UnderWay \cup {Job(job.name, job.src, job.geom, FALSE)}
  BY <1>4, <1>5 DEF SlowAdded
<1>6. ASSUME NEW n \in Names, NEW g \in Geoms, Wanted(n, g)
      PROVE  UnderWay' \subseteq UnderWay \cup {Job(n, source[n], g, TRUE)}
  BY <1>4, <1>6 DEF Wanted
<1> QED BY <1>1, <1>2, <1>3, <1>5, <1>6

------------------------------------------------------------------------------
(* The invariants of the two queues *)

\* Taking the first message
LEMMA TookShift ==
  ASSUME TypeOK, Took
  PROVE  /\ 1 \in 1 .. Len(Mail) /\ Mail[1] = Head(batch) /\ Mail[1] \in Messages
         /\ \A i \in 1 .. Len(Mail') : i + 1 \in 1 .. Len(Mail) /\ Mail'[i] = Mail[i + 1]
BY FlowTypes DEF Took

\* Numbers of stores only grow, and a message carries the newest.
LEMMA SourcesAreOldStep == TypeOK /\ SourcesAreOld /\ [Next]_vars => SourcesAreOld'
<1> SUFFICES ASSUME TypeOK, SourcesAreOld, [Next]_vars PROVE SourcesAreOld'
  OBVIOUS
<1>t. /\ Mail \in Seq(Messages) /\ Todo \in Seq(Jobs) /\ UnderWay \subseteq Jobs
      /\ source \in [Names -> Nat] /\ stores \in Nat
      /\ \A job \in Jobs : job.name \in Names /\ job.src \in Nat
  BY FlowTypes, ScalingAssumption DEF ScalingAssumption, TypeOK, Sources, Jobs
<1>1. CASE Quiet
  BY <1>1 DEF Quiet, SourcesAreOld, UnderWay
<1>2. CASE Took
  <2>1. UnderWay' \subseteq UnderWay /\ stores' = stores
    BY <1>2, UnderWayStep DEF Took
  <2>2. \A n \in Names : source'[n] <= stores
    <3>1. CASE HandleStore
      <4>1. IsStore(Mail[1]) /\ Mail[1].name \in Names
        BY <1>2, <3>1, TookShift, MessageFields DEF HandleStore, IsStore
      <4>2. Mail[1].src <= stores
        BY <1>2, <4>1, TookShift DEF SourcesAreOld
      <4>3. source' = source \/ source' = [source EXCEPT ![Mail[1].name] = Mail[1].src]
        BY <1>2, <3>1, TookShift DEF HandleStore
      <4> QED BY <1>t, <4>1, <4>2, <4>3 DEF SourcesAreOld
    <3>2. CASE HandleClear \/ HandleResized
      BY <1>t, <3>2 DEF HandleClear, HandleResized, SourcesAreOld
    <3> QED BY <1>2, <3>1, <3>2 DEF Took, HandleMessage
  <2> QED BY <1>2, <2>1, <2>2, TookShift DEF SourcesAreOld
<1>3. CASE Posted
  <2>1. \A i \in 1 .. Len(Mail') : IsStore(Mail'[i]) => i \in 1 .. Len(Mail) /\ Mail'[i] = Mail[i]
    <3>1. Head(Todo) \in Jobs
      BY <1>t, <1>3 DEF Posted
    <3>2. Result(Head(Todo)) \in Messages /\ ~ IsStore(Result(Head(Todo)))
      BY <3>1 DEF Result, Messages, IsStore
    <3> QED BY <1>t, <1>3, <3>2 DEF Posted
  <2> QED BY <1>3, <2>1, UnderWayStep DEF Posted, SourcesAreOld
<1>4. ASSUME NEW m \in Messages, Sent(m) PROVE SourcesAreOld'
  <2>1. \A i \in 1 .. Len(Mail') :
          (i \in 1 .. Len(Mail) /\ Mail'[i] = Mail[i]) \/ Mail'[i] = m
    BY <1>t, <1>4 DEF Sent
  <2>2. stores' \in Nat /\ stores <= stores' /\ (IsStore(m) => m.src <= stores')
    BY <1>t, <1>4 DEF Sent
  <2>3. \A i \in 1 .. Len(Mail) : IsStore(Mail[i]) => Mail[i].src \in Nat
    BY <1>t, MessageFields DEF Sources
  <2>4. UnderWay' \subseteq UnderWay /\ source' = source
    BY <1>4, UnderWayStep DEF Sent
  <2>5. \A n \in Names : source'[n] <= stores'
    BY <1>t, <2>2, <2>4 DEF SourcesAreOld
  <2>6. \A job \in UnderWay' : job.src <= stores'
    BY <1>t, <2>2, <2>4 DEF SourcesAreOld
  <2>7. \A i \in 1 .. Len(Mail') : IsStore(Mail'[i]) => Mail'[i].src <= stores'
    BY <1>t, <2>1, <2>2, <2>3 DEF SourcesAreOld
  <2> QED BY <2>5, <2>6, <2>7 DEF SourcesAreOld
<1>5. ASSUME NEW job \in Jobs, SlowAdded(job) PROVE SourcesAreOld'
  <2>1. Job(job.name, job.src, job.geom, FALSE).src <= stores
    BY <1>5 DEF SlowAdded, SourcesAreOld, Job
  <2> QED BY <1>5, <2>1, UnderWayStep DEF SlowAdded, SourcesAreOld
<1>6. ASSUME NEW n \in Names, NEW g \in Geoms, Wanted(n, g) PROVE SourcesAreOld'
  <2>1. Job(n, source[n], g, TRUE).src <= stores
    BY <1>6 DEF SourcesAreOld, Job
  <2> QED BY <1>6, <2>1, UnderWayStep DEF Wanted, SourcesAreOld
<1> QED BY <1>1, <1>2, <1>3, <1>4, <1>5, <1>6, FlowStep

\* A new store is newer than all that is known; nothing else brings a number.
LEMMA StoresAreNewStep ==
  TypeOK /\ SourcesAreOld /\ StoresAreNew /\ [Next]_vars => StoresAreNew'
<1> SUFFICES ASSUME TypeOK, SourcesAreOld, StoresAreNew, [Next]_vars PROVE StoresAreNew'
  OBVIOUS
<1>f. Mail \in Seq(Messages) /\ Todo \in Seq(Jobs) /\ UnderWay \subseteq Jobs
  BY FlowTypes
<1>s. source \in [Names -> Sources \cup {0}] /\ stores \in 0 .. MaxStores
  BY DEF TypeOK
<1>n. source \in [Names -> Nat] /\ stores \in Nat
  BY <1>s, ScalingAssumption DEF ScalingAssumption, Sources
<1>j. \A job \in Jobs : job.name \in Names /\ job.src \in Nat
  BY ScalingAssumption DEF ScalingAssumption, Sources, Jobs
<1>t. /\ Mail \in Seq(Messages) /\ Todo \in Seq(Jobs) /\ UnderWay \subseteq Jobs
      /\ source \in [Names -> Nat] /\ stores \in Nat
      /\ \A job \in Jobs : job.name \in Names /\ job.src \in Nat
  BY <1>f, <1>n, <1>j
<1>m. \A i \in 1 .. Len(Mail) : IsStore(Mail[i]) => Mail[i].name \in Names /\ Mail[i].src \in Nat /\ Mail[i].src > 0
  BY <1>t, MessageFields DEF Sources
<1>1. CASE Quiet
  BY <1>1 DEF Quiet, StoresAreNew, UnderWay
<1>2. CASE Took
  <2>1. UnderWay' \subseteq UnderWay
    BY <1>2, UnderWayStep
  <2>2. ASSUME NEW i \in 1 .. Len(Mail'), IsStore(Mail'[i]), NEW n \in Names
        PROVE  source'[n] < Mail'[i].src
    <3>1. i + 1 \in 1 .. Len(Mail) /\ Mail'[i] = Mail[i + 1]
      BY <1>2, TookShift
    <3>2. source[n] < Mail[i + 1].src
      BY <2>2, <3>1 DEF StoresAreNew
    <3>3. CASE HandleStore
      <4>1. IsStore(Mail[1]) /\ Mail[1].name \in Names /\ 1 \in 1 .. Len(Mail)
        BY <1>2, <3>3, TookShift, MessageFields DEF HandleStore, IsStore
      <4>2. i + 1 \in 2 .. Len(Mail)
        BY <3>1
      <4>3. Mail[1].src < Mail[i + 1].src
        BY <2>2, <3>1, <4>1, <4>2 DEF StoresAreNew
      <4>4. source' = source \/ source' = [source EXCEPT ![Mail[1].name] = Mail[1].src]
        BY <1>2, <3>3, TookShift DEF HandleStore
      <4> QED BY <1>t, <3>1, <3>2, <4>3, <4>4
    <3>4. CASE HandleClear
      BY <3>1, <3>4, <2>2, <1>m DEF HandleClear
    <3>5. CASE HandleResized
      BY <3>1, <3>2, <3>5 DEF HandleResized
    <3> QED BY <1>2, <3>3, <3>4, <3>5 DEF Took, HandleMessage
  <2>3. ASSUME NEW i \in 1 .. Len(Mail'), IsStore(Mail'[i])
        PROVE  /\ \A job \in UnderWay' : job.src < Mail'[i].src
               /\ \A j \in i + 1 .. Len(Mail') : IsStore(Mail'[j]) => Mail'[i].src < Mail'[j].src
    <3>1. i + 1 \in 1 .. Len(Mail) /\ Mail'[i] = Mail[i + 1]
      BY <1>2, TookShift
    <3>2. \A j \in i + 1 .. Len(Mail') :
            j + 1 \in (i + 1) + 1 .. Len(Mail) /\ Mail'[j] = Mail[j + 1]
      BY <1>t, <1>2 DEF Took
    <3> QED BY <2>1, <2>3, <3>1, <3>2 DEF StoresAreNew
  <2> QED BY <2>2, <2>3 DEF StoresAreNew
<1>3. CASE Posted
  <2>1. \A i \in 1 .. Len(Mail') : IsStore(Mail'[i]) => i \in 1 .. Len(Mail) /\ Mail'[i] = Mail[i]
    <3>1. Head(Todo) \in Jobs
      BY <1>t, <1>3 DEF Posted
    <3>2. Result(Head(Todo)) \in Messages /\ ~ IsStore(Result(Head(Todo)))
      BY <3>1 DEF Result, Messages, IsStore
    <3> QED BY <1>t, <1>3, <3>2 DEF Posted
  <2>2. UnderWay' \subseteq UnderWay /\ source' = source
    BY <1>3, UnderWayStep DEF Posted
  <2>3. Len(Mail') \in Nat
    BY <1>t, <1>3 DEF Posted
  <2> QED
    <3> SUFFICES ASSUME NEW i \in 1 .. Len(Mail'), IsStore(Mail'[i])
                 PROVE  /\ \A n \in Names : source'[n] < Mail'[i].src
                        /\ \A job \in UnderWay' : job.src < Mail'[i].src
                        /\ \A j \in i + 1 .. Len(Mail') : IsStore(Mail'[j]) => Mail'[i].src < Mail'[j].src
      BY DEF StoresAreNew
    <3>1. \A j \in i + 1 .. Len(Mail') : IsStore(Mail'[j]) => j \in i + 1 .. Len(Mail) /\ Mail'[j] = Mail[j]
      BY <1>t, <2>1, <2>3
    <3> QED BY <2>1, <2>2, <3>1 DEF StoresAreNew
<1>4. ASSUME NEW m \in Messages, Sent(m) PROVE StoresAreNew'
  <2>1. UnderWay' \subseteq UnderWay /\ source' = source
    BY <1>4, UnderWayStep DEF Sent
  <2>2. Len(Mail') \in Nat /\ Len(Mail') = Len(Mail) + 1 /\ Len(Mail) \in Nat
    BY <1>t, <1>4 DEF Sent
  <2>3. \A i \in 1 .. Len(Mail) : Mail'[i] = Mail[i]
    BY <1>t, <1>4 DEF Sent
  <2>4. Mail'[Len(Mail')] = m
    BY <1>t, <1>4 DEF Sent
  <2>5. IsStore(m) => m.src = stores + 1
    BY <1>4 DEF Sent
  <2> SUFFICES ASSUME NEW i \in 1 .. Len(Mail'), IsStore(Mail'[i])
               PROVE  /\ \A n \in Names : source'[n] < Mail'[i].src
                      /\ \A job \in UnderWay' : job.src < Mail'[i].src
                      /\ \A j \in i + 1 .. Len(Mail') : IsStore(Mail'[j]) => Mail'[i].src < Mail'[j].src
    BY DEF StoresAreNew
  <2>6. CASE i = Len(Mail')
    <3>1. Mail'[i].src = stores + 1
      BY <2>4, <2>5, <2>6
    <3>2. \A n \in Names : source'[n] < Mail'[i].src
      BY <1>t, <2>1, <3>1 DEF SourcesAreOld
    <3>3. \A job \in UnderWay' : job.src < Mail'[i].src
      BY <1>t, <2>1, <3>1 DEF SourcesAreOld
    <3> QED BY <2>2, <2>6, <3>2, <3>3
  <2>7. CASE i \in 1 .. Len(Mail)
    <3>1. IsStore(Mail[i]) /\ Mail'[i] = Mail[i]
      BY <2>3, <2>7
    <3>2. ASSUME NEW j \in i + 1 .. Len(Mail'), IsStore(Mail'[j])
          PROVE  Mail[i].src < Mail'[j].src
      <4>1. CASE j = Len(Mail')
        <5>1. Mail'[j].src = stores + 1
          BY <2>4, <2>5, <3>2, <4>1
        <5>2. Mail[i].src <= stores
          BY <2>7, <3>1 DEF SourcesAreOld
        <5> QED BY <1>t, <1>m, <2>7, <3>1, <5>1, <5>2
      <4>2. CASE j # Len(Mail')
        <5>1. j \in i + 1 .. Len(Mail) /\ j \in 1 .. Len(Mail)
          BY <2>2, <4>2
        <5>2. Mail'[j] = Mail[j]
          BY <2>3, <5>1
        <5> QED BY <2>7, <3>1, <3>2, <5>1, <5>2 DEF StoresAreNew
      <4> QED BY <4>1, <4>2
    <3> QED BY <2>1, <2>7, <3>1, <3>2 DEF StoresAreNew
  <2> QED BY <2>2, <2>6, <2>7
<1>5. ASSUME NEW job \in Jobs, SlowAdded(job) PROVE StoresAreNew'
  <2>1. Job(job.name, job.src, job.geom, FALSE).src = job.src /\ job \in UnderWay
    BY <1>5 DEF SlowAdded, Job
  <2> QED BY <1>5, <2>1, UnderWayStep DEF SlowAdded, StoresAreNew
<1>6. ASSUME NEW n \in Names, NEW g \in Geoms, Wanted(n, g) PROVE StoresAreNew'
  <2>1. Job(n, source[n], g, TRUE).src = source[n]
    BY DEF Job
  <2> QED BY <1>6, <2>1, UnderWayStep DEF Wanted, StoresAreNew
<1> QED BY <1>1, <1>2, <1>3, <1>4, <1>5, <1>6, FlowStep

\* What a step that handles a message does to an image and its pictures
LEMMA TookEffect ==
  ASSUME TypeOK, StoresAreNew, Took, NEW job \in UnderWay, Current(job)'
  PROVE  /\ Current(job)
         /\ \/ Kept(job)' = Kept(job)
            \/ /\ Kept(job)' = (IF Mail[1].job.quick THEN "quick" ELSE "slow")
               /\ IsResult(Mail[1])
               /\ job.name = Mail[1].job.name /\ job.geom = Mail[1].job.geom
               /\ Current(Mail[1].job)
<1>t. /\ job \in Jobs /\ job.name \in Names /\ job.geom \in Geoms /\ job.src \in Nat /\ job.src > 0
      /\ source \in [Names -> Nat] /\ DOMAIN scaled = Names \X Geoms
  BY FlowTypes, ScalingAssumption, SMTT(30) DEF ScalingAssumption, TypeOK, Sources, Jobs
<1>1. CASE HandleStore
  <2>1. IsStore(Mail[1]) /\ Mail[1].name \in Names /\ 1 \in 1 .. Len(Mail)
    BY <1>1, TookShift, MessageFields DEF HandleStore, IsStore
  <2>2. job.src < Mail[1].src
    BY <2>1 DEF StoresAreNew
  <2>3. CASE UNCHANGED <<source, scaled>>
    BY <2>3 DEF Current, Kept
  <2>4. CASE /\ source' = [source EXCEPT ![Mail[1].name] = Mail[1].src]
             /\ ForgetScaled({Mail[1].name})
    <3>1. job.name # Mail[1].name
      BY <1>t, <2>1, <2>2, <2>4, MessageFields DEF Current, Sources
    <3>2. source'[job.name] = source[job.name]
      BY <1>t, <2>4, <3>1
    <3>3. scaled'[<<job.name, job.geom>>] = scaled[<<job.name, job.geom>>]
      BY <1>t, <2>4, <3>1 DEF ForgetScaled
    <3> QED BY <3>2, <3>3 DEF Current, Kept
  <2> QED BY <1>1, <2>3, <2>4, TookShift DEF HandleStore
<1>2. CASE HandleClear
  BY <1>t, <1>2 DEF HandleClear, Current
<1>3. CASE HandleResized
  <2>1. IsResult(Mail[1]) /\ source' = source /\ UpdateFromResize(Mail[1].job)
    BY <1>3, TookShift DEF HandleResized, IsResult
  <2>2. Mail[1].job \in Jobs /\ Mail[1].job.name \in Names /\ Mail[1].job.geom \in Geoms
    BY <2>1, TookShift, MessageFields DEF Jobs
  <2>3. CASE scaled' = scaled
    BY <2>1, <2>3 DEF Current, Kept
  <2>4. CASE /\ source[Mail[1].job.name] = Mail[1].job.src
             /\ scaled' = [scaled EXCEPT ![<<Mail[1].job.name, Mail[1].job.geom>>] =
                             IF Mail[1].job.quick THEN "quick" ELSE "slow"]
    <3>1. CASE job.name = Mail[1].job.name /\ job.geom = Mail[1].job.geom
      BY <1>t, <2>1, <2>2, <2>4, <3>1 DEF Current, Kept
    <3>2. CASE ~ (job.name = Mail[1].job.name /\ job.geom = Mail[1].job.geom)
      <4>1. <<job.name, job.geom>> # <<Mail[1].job.name, Mail[1].job.geom>>
        BY <3>2
      <4> QED BY <1>t, <2>1, <2>4, <4>1 DEF Current, Kept
    <3> QED BY <3>1, <3>2
  <2> QED BY <2>1, <2>3, <2>4 DEF UpdateFromResize
<1> QED BY <1>1, <1>2, <1>3 DEF Took, HandleMessage

\* An entry goes only with its image, and no job survives into a newer image.
LEMMA HasEntryStep ==
  TypeOK /\ StoresAreNew /\ HasEntry /\ [Next]_vars => HasEntry'
<1> SUFFICES ASSUME TypeOK, StoresAreNew, HasEntry, [Next]_vars PROVE HasEntry'
  OBVIOUS
<1>t. /\ UnderWay \subseteq Jobs
      /\ \A job \in Jobs : job.name \in Names /\ job.geom \in Geoms
      /\ DOMAIN scaled = Names \X Geoms
  BY FlowTypes DEF TypeOK, Jobs
<1>1. CASE Quiet \/ Posted \/ \E m \in Messages : Sent(m)
  <2>1. UnderWay' \subseteq UnderWay
    BY <1>1, UnderWayStep DEF Quiet, UnderWay
  <2> QED BY <1>1, <2>1 DEF Quiet, Posted, Sent, HasEntry, Current, Kept
<1>2. CASE Took
  <2>1. UnderWay' \subseteq UnderWay
    BY <1>2, UnderWayStep
  <2> QED BY <1>2, <2>1, TookEffect DEF HasEntry
<1>3. ASSUME NEW job \in Jobs, SlowAdded(job) PROVE HasEntry'
  <2> DEFINE slow == Job(job.name, job.src, job.geom, FALSE)
  <2>1. slow.name = job.name /\ slow.src = job.src /\ slow.geom = job.geom
    BY DEF Job
  <2>2. UnderWay' \subseteq UnderWay \cup {slow} /\ job \in UnderWay
    BY <1>3, UnderWayStep DEF SlowAdded
  <2> HIDE DEF slow
  <2> QED BY <1>3, <2>1, <2>2 DEF SlowAdded, HasEntry, Current, Kept
<1>4. ASSUME NEW n \in Names, NEW g \in Geoms, Wanted(n, g) PROVE HasEntry'
  <2> DEFINE new == Job(n, source[n], g, TRUE)
  <2>1. new.name = n /\ new.src = source[n] /\ new.geom = g
    BY DEF Job
  <2>2. UnderWay' \subseteq UnderWay \cup {new}
    BY <1>4, UnderWayStep
  <2>3. source' = source /\ scaled' = [scaled EXCEPT ![<<n, g>>] = "wanted"]
    BY <1>4 DEF Wanted
  <2> HIDE DEF new
  <2>4. ASSUME NEW job \in UnderWay', Current(job)' PROVE Kept(job)' # "absent"
    <3>1. CASE job \in UnderWay
      <4>1. Current(job)
        BY <2>3, <2>4 DEF Current
      <4>2. Kept(job) # "absent"
        BY <3>1, <4>1 DEF HasEntry
      <4>3. <<job.name, job.geom>> \in DOMAIN scaled
        BY <1>t, <3>1
      <4> QED BY <2>3, <4>2, <4>3 DEF Kept
    <3>2. CASE job = new
      BY <1>t, <2>1, <2>3, <3>2 DEF Kept
    <3> QED BY <2>2, <3>1, <3>2
  <2> QED BY <2>4 DEF HasEntry
<1> QED BY <1>1, <1>2, <1>3, <1>4, FlowStep

\* A quick job is added only when nothing of its picture is under way, and a
\* slow one at the end.
LEMMA SlowIsLastStep ==
  TypeOK /\ HasEntry /\ SlowIsLast /\ [Next]_vars => SlowIsLast'
<1> SUFFICES ASSUME TypeOK, HasEntry, SlowIsLast, [Next]_vars PROVE SlowIsLast'
  OBVIOUS
<1>t. /\ Mail \in Seq(Messages) /\ Todo \in Seq(Jobs)
      /\ Len(Mail) \in Nat /\ Len(Todo) \in Nat
  BY FlowTypes
<1>1. CASE Quiet \/ \E m \in Messages : Sent(m)
  <2>1. Todo' = Todo
    BY <1>1 DEF Quiet, Sent
  <2>2. \A i \in 1 .. Len(Mail') : IsResult(Mail'[i]) => i \in 1 .. Len(Mail) /\ Mail'[i] = Mail[i]
    BY <1>t, <1>1 DEF Quiet, Sent, IsStore, IsResult
  <2>3. Len(Mail') \in Nat
    BY <1>t, <1>1 DEF Quiet, Sent
  <2>4. \A i \in 1 .. Len(Mail') : \A j \in i + 1 .. Len(Mail') :
          IsResult(Mail'[j]) => j \in i + 1 .. Len(Mail) /\ Mail'[j] = Mail[j]
    BY <1>t, <2>2, <2>3
  <2> QED BY <2>1, <2>2, <2>4 DEF SlowIsLast
<1>2. CASE Took
  <2>1. Todo' = Todo
    BY <1>2 DEF Took
  <2>2. \A i \in 1 .. Len(Mail') : i + 1 \in 1 .. Len(Mail) /\ Mail'[i] = Mail[i + 1]
    BY <1>2, TookShift
  <2>3. \A i \in 1 .. Len(Mail') : \A j \in i + 1 .. Len(Mail') :
          j + 1 \in (i + 1) + 1 .. Len(Mail) /\ Mail'[j] = Mail[j + 1]
    BY <1>t, <1>2 DEF Took
  <2> QED BY <2>1, <2>2, <2>3 DEF SlowIsLast
<1>3. CASE Posted
  <2>1. 1 \in 1 .. Len(Todo) /\ Head(Todo) = Todo[1]
    BY <1>t, <1>3 DEF Posted
  <2>2. Result(Todo[1]).job = Todo[1] /\ IsResult(Result(Todo[1]))
    BY DEF Result, IsResult
  <2>3. /\ Len(Mail') = Len(Mail) + 1 /\ Mail'[Len(Mail) + 1] = Result(Todo[1])
        /\ \A i \in 1 .. Len(Mail) : Mail'[i] = Mail[i]
    BY <1>t, <1>3, <2>1 DEF Posted
  <2>4. \A i \in 1 .. Len(Todo') : i + 1 \in 2 .. Len(Todo) /\ i + 1 \in 1 .. Len(Todo) /\ Todo'[i] = Todo[i + 1]
    BY <1>t, <1>3 DEF Posted
  <2>5. \A i \in 1 .. Len(Todo') : \A j \in i + 1 .. Len(Todo') : ~ Overtakes(Todo'[i], Todo'[j])
    <3>1. \A i \in 1 .. Len(Todo') : \A j \in i + 1 .. Len(Todo') :
            j + 1 \in (i + 1) + 1 .. Len(Todo) /\ Todo'[j] = Todo[j + 1]
      BY <1>t, <1>3 DEF Posted
    <3> QED BY <2>4, <3>1 DEF SlowIsLast
  <2>6. ASSUME NEW i \in 1 .. Len(Mail'), IsResult(Mail'[i])
        PROVE  /\ \A j \in i + 1 .. Len(Mail') : IsResult(Mail'[j]) => ~ Overtakes(Mail'[i].job, Mail'[j].job)
               /\ \A j \in 1 .. Len(Todo') : ~ Overtakes(Mail'[i].job, Todo'[j])
    <3>1. CASE i = Len(Mail) + 1
      <4>1. Mail'[i].job = Todo[1]
        BY <2>2, <2>3, <3>1
      <4>2. \A j \in 2 .. Len(Todo) : ~ Overtakes(Todo[1], Todo[j])
        BY <2>1 DEF SlowIsLast
      <4> QED BY <1>t, <2>3, <2>4, <3>1, <4>1, <4>2
    <3>2. CASE i \in 1 .. Len(Mail)
      <4>1. Mail'[i] = Mail[i] /\ IsResult(Mail[i])
        BY <2>3, <2>6, <3>2
      <4>2. \A j \in 1 .. Len(Todo') : ~ Overtakes(Mail'[i].job, Todo'[j])
        BY <2>4, <3>2, <4>1 DEF SlowIsLast
      <4>3. ASSUME NEW j \in i + 1 .. Len(Mail'), IsResult(Mail'[j])
            PROVE  ~ Overtakes(Mail'[i].job, Mail'[j].job)
        <5>1. CASE j = Len(Mail) + 1
          BY <2>1, <2>2, <2>3, <3>2, <4>1, <5>1 DEF SlowIsLast
        <5>2. CASE j # Len(Mail) + 1
          <6>1. j \in i + 1 .. Len(Mail) /\ j \in 1 .. Len(Mail)
            BY <1>t, <2>3, <3>2, <5>2
          <6> QED BY <2>3, <3>2, <4>1, <4>3, <6>1 DEF SlowIsLast
        <5> QED BY <5>1, <5>2
      <4> QED BY <4>2, <4>3
    <3> QED BY <1>t, <2>3, <3>1, <3>2
  <2> QED BY <2>5, <2>6 DEF SlowIsLast
<1>4. ASSUME NEW job, Todo' = Append(Todo, job), Mail' = Mail,
             \A slow \in UnderWay : ~ Overtakes(slow, job)
      PROVE  SlowIsLast'
  <2>1. /\ Len(Todo') = Len(Todo) + 1 /\ Todo'[Len(Todo) + 1] = job
        /\ \A i \in 1 .. Len(Todo) : Todo'[i] = Todo[i]
    BY <1>t, <1>4
  <2>2. ASSUME NEW i \in 1 .. Len(Todo'), NEW j \in i + 1 .. Len(Todo')
        PROVE  ~ Overtakes(Todo'[i], Todo'[j])
    <3>1. i \in 1 .. Len(Todo) /\ Todo'[i] = Todo[i]
      BY <1>t, <2>1
    <3>2. CASE j = Len(Todo) + 1
      BY <1>4, <2>1, <3>1, <3>2, UnderWayMembers
    <3>3. CASE j # Len(Todo) + 1
      <4>1. j \in i + 1 .. Len(Todo) /\ Todo'[j] = Todo[j]
        BY <1>t, <2>1, <3>3
      <4> QED BY <3>1, <4>1 DEF SlowIsLast
    <3> QED BY <3>2, <3>3
  <2>3. ASSUME NEW i \in 1 .. Len(Mail), IsResult(Mail[i]), NEW j \in 1 .. Len(Todo')
        PROVE  ~ Overtakes(Mail[i].job, Todo'[j])
    <3>1. CASE j = Len(Todo) + 1
      BY <1>4, <2>1, <2>3, <3>1, UnderWayMembers
    <3>2. CASE j # Len(Todo) + 1
      <4>1. j \in 1 .. Len(Todo) /\ Todo'[j] = Todo[j]
        BY <1>t, <2>1, <3>2
      <4> QED BY <2>3, <4>1 DEF SlowIsLast
    <3> QED BY <3>1, <3>2
  <2> QED BY <1>4, <2>2, <2>3 DEF SlowIsLast
<1>5. ASSUME NEW job \in Jobs, SlowAdded(job) PROVE SlowIsLast'
  <2> DEFINE new == Job(job.name, job.src, job.geom, FALSE)
  <2>1. ~ new.quick
    BY DEF Job
  <2>2. Todo' = Append(Todo, new) /\ Mail' = Mail
    BY <1>5 DEF SlowAdded
  <2> HIDE DEF new
  <2>3. \A slow \in UnderWay : ~ Overtakes(slow, new)
    BY <2>1 DEF Overtakes
  <2> QED BY <1>4, <2>2, <2>3
<1>6. ASSUME NEW n \in Names, NEW g \in Geoms, Wanted(n, g) PROVE SlowIsLast'
  <2> DEFINE new == Job(n, source[n], g, TRUE)
  <2>1. new.name = n /\ new.src = source[n] /\ new.geom = g
    BY DEF Job
  <2>2. Todo' = Append(Todo, new) /\ Mail' = Mail /\ scaled[<<n, g>>] = "absent"
    BY <1>6 DEF Wanted
  <2> HIDE DEF new
  <2>3. \A slow \in UnderWay : ~ Overtakes(slow, new)
    BY <2>1, <2>2 DEF Overtakes, HasEntry, Current, Kept
  <2> QED BY <1>4, <2>2, <2>3
<1> QED BY <1>1, <1>2, <1>3, <1>5, <1>6, FlowStep

\* A slow result that is kept had no quick one of its picture behind it.
LEMMA SlowIsFinalStep ==
  /\ TypeOK /\ StoresAreNew /\ SlowIsLast /\ SlowIsFinal
  /\ [Next]_vars
  => SlowIsFinal'
<1> SUFFICES ASSUME TypeOK, StoresAreNew, SlowIsLast, SlowIsFinal, [Next]_vars
             PROVE  SlowIsFinal'
  OBVIOUS
<1>t. /\ Mail \in Seq(Messages) /\ UnderWay \subseteq Jobs
      /\ \A job \in Jobs : job.name \in Names /\ job.geom \in Geoms
      /\ DOMAIN scaled = Names \X Geoms
  BY FlowTypes DEF TypeOK, Jobs
<1>1. CASE Quiet \/ Posted \/ \E m \in Messages : Sent(m)
  <2>1. UnderWay' \subseteq UnderWay
    BY <1>1, UnderWayStep DEF Quiet, UnderWay
  <2> QED BY <1>1, <2>1 DEF Quiet, Posted, Sent, SlowIsFinal, Current, Kept
<1>2. CASE Took
  <2> SUFFICES ASSUME NEW job \in UnderWay', Current(job)', job.quick
               PROVE  Kept(job)' # "slow"
    BY DEF SlowIsFinal
  <2>1. job \in UnderWay
    BY <1>2, UnderWayStep
  <2>2. CASE Kept(job)' = Kept(job)
    BY <1>2, <2>1, <2>2, TookEffect DEF SlowIsFinal
  <2>3. CASE /\ Kept(job)' = (IF Mail[1].job.quick THEN "quick" ELSE "slow")
             /\ IsResult(Mail[1])
             /\ job.name = Mail[1].job.name /\ job.geom = Mail[1].job.geom
             /\ Current(Mail[1].job)
    <3>1. Current(job)
      BY <1>2, <2>1, TookEffect
    <3>2. ~ Mail[1].job.quick => Overtakes(Mail[1].job, job)
      BY <2>3, <3>1 DEF Overtakes, Current
    <3>3. 1 \in 1 .. Len(Mail) /\ \A i \in 1 .. Len(Mail') : i + 1 \in 2 .. Len(Mail) /\ Mail'[i] = Mail[i + 1]
      BY <1>t, <1>2, TookShift
    <3>4. CASE \E i \in 1 .. Len(Todo') : job = Todo'[i]
      <4>1. Todo' = Todo
        BY <1>2 DEF Took
      <4>2. ~ Overtakes(Mail[1].job, job)
        BY <2>3, <3>3, <3>4, <4>1 DEF SlowIsLast
      <4> QED BY <2>3, <3>2, <4>2
    <3>5. CASE \E i \in 1 .. Len(Mail') : IsResult(Mail'[i]) /\ job = Mail'[i].job
      <4>1. ~ Overtakes(Mail[1].job, job)
        BY <2>3, <3>3, <3>5 DEF SlowIsLast
      <4> QED BY <2>3, <3>2, <4>1
    <3> QED BY <3>4, <3>5, UnderWayMembers
  <2> QED BY <1>2, <2>1, <2>2, <2>3, TookEffect
<1>3. ASSUME NEW job \in Jobs, SlowAdded(job) PROVE SlowIsFinal'
  <2> DEFINE slow == Job(job.name, job.src, job.geom, FALSE)
  <2>1. ~ slow.quick
    BY DEF Job
  <2>2. UnderWay' \subseteq UnderWay \cup {slow}
    BY <1>3, UnderWayStep
  <2> HIDE DEF slow
  <2> QED BY <1>3, <2>1, <2>2 DEF SlowAdded, SlowIsFinal, Current, Kept
<1>4. ASSUME NEW n \in Names, NEW g \in Geoms, Wanted(n, g) PROVE SlowIsFinal'
  <2> DEFINE new == Job(n, source[n], g, TRUE)
  <2>1. new.name = n /\ new.geom = g
    BY DEF Job
  <2>2. UnderWay' \subseteq UnderWay \cup {new}
    BY <1>4, UnderWayStep
  <2>3. source' = source /\ scaled' = [scaled EXCEPT ![<<n, g>>] = "wanted"]
    BY <1>4 DEF Wanted
  <2> HIDE DEF new
  <2> SUFFICES ASSUME NEW job \in UnderWay', Current(job)', job.quick
               PROVE  Kept(job)' # "slow"
    BY DEF SlowIsFinal
  <2>4. CASE job \in UnderWay
    <3>1. Kept(job) # "slow"
      BY <2>3, <2>4 DEF SlowIsFinal, Current
    <3>2. <<job.name, job.geom>> \in DOMAIN scaled
      BY <1>t, <2>4
    <3> QED BY <2>3, <3>1, <3>2 DEF Kept
  <2>5. CASE job = new
    BY <1>t, <2>1, <2>3, <2>5 DEF Kept
  <2> QED BY <2>2, <2>4, <2>5
<1> QED BY <1>1, <1>2, <1>3, <1>4, FlowStep

------------------------------------------------------------------------------
(* The invariants of one thread *)

\* The resize thread's sleep: who adds a job wakes it, and cannot while it is
\* about to sleep.
LEMMA SleepStep == TypeOK /\ SleepsWithoutWork /\ [Next]_vars => SleepsWithoutWork'
<1> SUFFICES ASSUME TypeOK, SleepsWithoutWork, [Next]_vars PROVE SleepsWithoutWork'
  OBVIOUS
<1> USE DEF SleepsWithoutWork, drawVars, resizerVars, serverVars
<1>1. CASE TakeMessages \/ HandleMessage \/ Servers \/ UNCHANGED vars
  BY <1>1 DEF TakeMessages, HandleMessage, HandleStore, HandleClear, HandleResized,
              Servers, SendStore, SendClear, vars
<1>2. CASE ResizeThread
  BY <1>2 DEF ResizeThread, Look, EndLoop, Wait, Resized, Post
<1>3. CASE Draw
  BY <1>3 DEF Draw, GetImage, AddJob
<1>4. CASE Quit
  BY <1>4 DEF Quit
<1> QED BY <1>1, <1>2, <1>3, <1>4 DEF Next

\* An entry is made only for a stored image, and goes with it.
LEMMA NoImageNoPicturesStep ==
  TypeOK /\ NoImageNoPictures /\ [Next]_vars => NoImageNoPictures'
<1> SUFFICES ASSUME TypeOK, NoImageNoPictures, [Next]_vars PROVE NoImageNoPictures'
  OBVIOUS
<1>t. /\ source \in [Names -> Sources \cup {0}] /\ DOMAIN scaled = Names \X Geoms
      /\ batch \in Seq(Messages) /\ 0 \notin Sources
  BY DEF TypeOK, Sources
<1> USE DEF NoImageNoPictures, drawVars, resizerVars, serverVars
<1>1. CASE TakeMessages \/ ResizeThread \/ Quit \/ Servers \/ UNCHANGED vars
  BY <1>1 DEF TakeMessages, ResizeThread, Look, EndLoop, Wait, Resized, Post, Quit,
              Servers, SendStore, SendClear, vars
<1>2. CASE HandleStore
  <2>1. Head(batch).name \in Names /\ Head(batch).src \in Sources
    BY <1>t, <1>2, MessageFields DEF HandleStore, IsStore
  <2>2. CASE UNCHANGED <<source, scaled>>
    BY <2>2
  <2>3. CASE /\ source' = [source EXCEPT ![Head(batch).name] = Head(batch).src]
             /\ ForgetScaled({Head(batch).name})
    BY <1>t, <2>1, <2>3 DEF ForgetScaled
  <2> QED BY <1>2, <2>2, <2>3 DEF HandleStore
<1>3. CASE HandleClear
  BY <1>t, <1>3 DEF HandleClear, ForgetScaled
<1>4. CASE HandleResized
  <2>1. Head(batch).job \in Jobs /\ Head(batch).job.name \in Names /\ Head(batch).job.src \in Sources
    BY <1>t, <1>4, MessageFields DEF HandleResized, IsResult, Jobs
  <2>2. source' = source
    BY <1>4 DEF HandleResized
  <2>3. CASE scaled' = scaled
    BY <2>2, <2>3
  <2>4. CASE /\ source[Head(batch).job.name] = Head(batch).job.src
             /\ scaled' = [scaled EXCEPT ![<<Head(batch).job.name, Head(batch).job.geom>>] =
                             IF Head(batch).job.quick THEN "quick" ELSE "slow"]
    BY <1>t, <2>1, <2>2, <2>4
  <2> QED BY <1>4, <2>3, <2>4 DEF HandleResized, UpdateFromResize
<1>5. ASSUME NEW n \in Names, NEW g \in Geoms, GetImage(n, g) PROVE NoImageNoPictures'
  BY <1>t, <1>5 DEF GetImage
<1> QED BY <1>1, <1>2, <1>3, <1>4, <1>5 DEF Next, HandleMessage, Draw

\* A result is kept with the number of the image that is stored.
LEMMA PicturesStep ==
  TypeOK /\ NoImageNoPictures /\ PicturesAreCurrent /\ [Next]_vars => PicturesAreCurrent'
<1> SUFFICES ASSUME TypeOK, NoImageNoPictures, PicturesAreCurrent, [Next]_vars,
                    NEW n \in Names, NEW g \in Geoms
             PROVE  /\ pixels'[<<n, g>>] =
                         IF scaled'[<<n, g>>] \in {"quick", "slow"} THEN source'[n] ELSE 0
                    /\ texture'[<<n, g>>] # "none" => texture'[<<n, g>>] = scaled'[<<n, g>>]
  BY DEF PicturesAreCurrent
<1>p. /\ pixels[<<n, g>>] = IF scaled[<<n, g>>] \in {"quick", "slow"} THEN source[n] ELSE 0
      /\ texture[<<n, g>>] # "none" => texture[<<n, g>>] = scaled[<<n, g>>]
  BY DEF PicturesAreCurrent
<1>t. /\ source \in [Names -> Sources \cup {0}] /\ batch \in Seq(Messages)
      /\ DOMAIN scaled = Names \X Geoms /\ DOMAIN pixels = Names \X Geoms
      /\ DOMAIN texture = Names \X Geoms
  BY DEF TypeOK
<1> USE DEF drawVars, resizerVars, serverVars
<1>1. CASE TakeMessages \/ ResizeThread \/ Quit \/ Servers \/ UNCHANGED vars
  <2>1. UNCHANGED <<source, scaled, pixels, texture>>
    BY <1>1 DEF TakeMessages, ResizeThread, Look, EndLoop, Wait, Resized, Post, Quit,
                Servers, SendStore, SendClear, vars
  <2> QED BY <1>p, <2>1
<1>2. CASE HandleStore
  <2>1. CASE UNCHANGED <<source, scaled, pixels, texture>>
    BY <1>p, <2>1
  <2>2. CASE /\ source' = [source EXCEPT ![Head(batch).name] = Head(batch).src]
             /\ ForgetScaled({Head(batch).name})
    BY <1>p, <1>t, <2>2 DEF ForgetScaled
  <2> QED BY <1>2, <2>1, <2>2 DEF HandleStore
<1>3. CASE HandleClear
  BY <1>3 DEF HandleClear, ForgetScaled
<1>4. CASE HandleResized
  <2> DEFINE job == Head(batch).job
             k == <<job.name, job.geom>>
  <2>1. job.name \in Names /\ job.geom \in Geoms
    BY <1>t, <1>4, MessageFields DEF HandleResized, IsResult, Jobs
  <2>2. source' = source
    BY <1>4 DEF HandleResized
  <2>3. CASE UNCHANGED <<scaled, pixels, texture>>
    BY <1>p, <2>2, <2>3
  <2>4. CASE /\ source[job.name] = job.src
             /\ scaled'  = [scaled  EXCEPT ![k] = IF job.quick THEN "quick" ELSE "slow"]
             /\ pixels'  = [pixels  EXCEPT ![k] = job.src]
             /\ texture' = [texture EXCEPT ![k] = "none"]
    <3>1. CASE <<n, g>> = k
      BY <1>t, <2>1, <2>2, <2>4, <3>1
    <3>2. CASE <<n, g>> # k
      BY <1>t, <1>p, <2>2, <2>4, <3>2
    <3> QED BY <3>1, <3>2
  <2> QED BY <1>4, <2>3, <2>4 DEF HandleResized, UpdateFromResize
<1>5. ASSUME NEW x \in Names, NEW y \in Geoms, GetImage(x, y)
      PROVE  /\ pixels'[<<n, g>>] =
                  IF scaled'[<<n, g>>] \in {"quick", "slow"} THEN source'[n] ELSE 0
             /\ texture'[<<n, g>>] # "none" => texture'[<<n, g>>] = scaled'[<<n, g>>]
  <2>1. source' = source /\ pixels' = pixels
    BY <1>5 DEF GetImage
  <2>2. CASE <<n, g>> = <<x, y>>
    <3>1. CASE /\ scaled[<<x, y>>] = "absent" /\ texture' = texture
               /\ scaled' = [scaled EXCEPT ![<<x, y>>] = "wanted"]
      <4>1. scaled'[<<n, g>>] = "wanted"
        BY <1>t, <2>2, <3>1
      <4>2. texture[<<n, g>>] # "absent"
        BY DEF TypeOK
      <4> QED BY <1>p, <2>1, <2>2, <3>1, <4>1, <4>2
    <3>2. CASE /\ scaled[<<x, y>>] \in {"quick", "slow"} /\ scaled' = scaled
               /\ texture' = [texture EXCEPT ![<<x, y>>] = scaled[<<x, y>>]]
      <4>1. texture'[<<n, g>>] = scaled[<<n, g>>]
        BY <1>t, <2>2, <3>2
      <4> QED BY <1>p, <2>1, <3>2, <4>1
    <3>3. \/ /\ scaled[<<x, y>>] = "absent" /\ UNCHANGED texture
             /\ scaled' = [scaled EXCEPT ![<<x, y>>] = "wanted"]
          \/ /\ scaled[<<x, y>>] \in {"quick", "slow"} /\ UNCHANGED scaled
             /\ texture' = [texture EXCEPT ![<<x, y>>] = scaled[<<x, y>>]]
      BY <1>5 DEF GetImage
    <3> QED BY <3>1, <3>2, <3>3
  <2>3. CASE <<n, g>> # <<x, y>>
    BY <1>5, <1>t, <1>p, <2>1, <2>3 DEF GetImage
  <2> QED BY <2>2, <2>3
<1> QED BY <1>1, <1>2, <1>3, <1>4, <1>5 DEF Next, HandleMessage, Draw

------------------------------------------------------------------------------
(* Theorems *)

\* All of it holds at the start.
LEMMA InitIInv == Init => IInv
<1> SUFFICES ASSUME Init PROVE IInv
  OBVIOUS
<1>1. Mail = <<>> /\ Todo = <<>>
  BY DEF Init, Mail, Todo
<1>2. UnderWay = {}
  BY <1>1 DEF UnderWay
<1>3. SourcesAreOld /\ StoresAreNew
  BY <1>1, <1>2 DEF Init, SourcesAreOld, StoresAreNew
<1>4. HasEntry /\ SlowIsLast /\ SlowIsFinal
  BY <1>1, <1>2 DEF HasEntry, SlowIsLast, SlowIsFinal
<1>5. PicturesAreCurrent /\ SleepsWithoutWork /\ NoImageNoPictures
  BY DEF Init, PicturesAreCurrent, SleepsWithoutWork, NoImageNoPictures
<1> QED BY <1>3, <1>4, <1>5, InitTypeOK DEF IInv

\* The invariant that the theorems follow from.
THEOREM Invariance == Spec => []IInv
<1>1. IInv /\ [Next]_vars => IInv'
  BY TypeStep, SleepStep, NoImageNoPicturesStep, PicturesStep, SourcesAreOldStep,
     StoresAreNewStep, HasEntryStep, SlowIsLastStep, SlowIsFinalStep DEF IInv
<1> QED BY InitIInv, <1>1, PTL DEF Spec

\* Every variable keeps its type.
THEOREM TypeCorrect == Spec => []TypeOK
<1>1. IInv => TypeOK
  BY DEF IInv
<1> QED BY <1>1, Invariance, PTL

\* Whatever is kept of a picture, at whatever size, was made from the image
\* that is stored now: UpdateFromResize compares the sources.
THEOREM CurrentPictures == Spec => []PicturesAreCurrent
<1>1. IInv => PicturesAreCurrent
  BY DEF IInv
<1> QED BY <1>1, Invariance, PTL

\* ResizeQueue never leaves the resize thread asleep with a job to do.
THEOREM WakesUp == Spec => []NoLostWakeup
<1>1. IInv => NoLostWakeup
  BY DEF IInv, SleepsWithoutWork, NoLostWakeup
<1> QED BY <1>1, Invariance, PTL

\* What Outstanding says of a job, among those under way
LEMMA OutstandingIsUnderWay ==
  ASSUME TypeOK, NEW job, Outstanding(job)
  PROVE  job \in UnderWay
<1>t. /\ batch \in Seq(Messages) /\ messages \in Seq(Messages)
      /\ jobs \in Seq(Jobs) /\ work \in Seq(Jobs)
  BY DEF TypeOK
<1>1. ASSUME InSeq(job, jobs) \/ InSeq(job, work) PROVE job \in UnderWay
  <2>1. \E i \in 1 .. Len(Todo) : Todo[i] = job
    <3>1. CASE InSeq(job, work)
      BY <1>t, <3>1 DEF InSeq, Todo
    <3>2. CASE InSeq(job, jobs)
      <4>1. PICK i \in 1 .. Len(jobs) : jobs[i] = job
        BY <3>2 DEF InSeq
      <4>2. Len(work) + i \in 1 .. Len(Todo) /\ Todo[Len(work) + i] = job
        BY <1>t, <4>1 DEF Todo
      <4> QED BY <4>2
    <3> QED BY <1>1, <3>1, <3>2
  <2> QED BY <2>1, UnderWayMembers
<1>2. ASSUME NEW m, m = Result(job), InSeq(m, messages) \/ InSeq(m, batch)
      PROVE  job \in UnderWay
  <2>1. \E i \in 1 .. Len(Mail) : Mail[i] = m
    <3>1. CASE InSeq(m, batch)
      BY <1>t, <3>1 DEF InSeq, Mail
    <3>2. CASE InSeq(m, messages)
      <4>1. PICK i \in 1 .. Len(messages) : messages[i] = m
        BY <3>2 DEF InSeq
      <4>2. Len(batch) + i \in 1 .. Len(Mail) /\ Mail[Len(batch) + i] = m
        BY <1>t, <4>1 DEF Mail
      <4> QED BY <4>2
    <3> QED BY <1>2, <3>1, <3>2
  <2>2. IsResult(m) /\ m.job = job
    BY <1>2 DEF IsResult, Result
  <2> QED BY <2>1, <2>2, UnderWayMembers
<1> QED BY <1>1, <1>2 DEF Outstanding, Result

\* "Impossible happened" cannot happen: every result for the image that is
\* stored now finds its entry.
THEOREM ResultsHaveEntries == Spec => []JobHasEntry
<1>1. ASSUME IInv PROVE JobHasEntry
  <2> SUFFICES ASSUME NEW n \in Names, NEW g \in Geoms, NEW q \in BOOLEAN,
                      Outstanding(Job(n, source[n], g, q))
               PROVE  scaled[<<n, g>>] # "absent"
    BY DEF JobHasEntry
  <2> DEFINE job == Job(n, source[n], g, q)
  <2>1. job.name = n /\ job.src = source[n] /\ job.geom = g
    BY DEF Job
  <2>2. Outstanding(job)
    OBVIOUS
  <2> HIDE DEF job
  <2>3. job \in UnderWay
    BY <1>1, <2>2, OutstandingIsUnderWay DEF IInv
  <2> QED BY <1>1, <2>1, <2>3 DEF IInv, HasEntry, Current, Kept
<1> QED BY <1>1, Invariance, PTL

\* The quick job of the picture of a slow one
QuickOf(job) == Job(job.name, job.src, job.geom, TRUE)

\* A slow resize of the image that is stored comes after its quick one, which
\* is either kept or in front of it.
QuickIsFirst ==
  \A slow \in UnderWay :
    Current(slow) /\ ~slow.quick => Kept(slow) \in {"quick", "slow"} \/ QuickOf(slow) \in UnderWay

\* Nothing that is under way gets lost.
LEMMA UnderWayKept ==
  ASSUME TypeOK
  PROVE  /\ Quiet \/ Posted \/ (\E m \in Messages : Sent(m)) => UnderWay \subseteq UnderWay'
         /\ \A job : Todo' = Append(Todo, job) /\ Mail' = Mail => UnderWay \subseteq UnderWay'
         /\ Took => \A job \in UnderWay :
              job \in UnderWay' \/ (IsResult(Mail[1]) /\ job = Mail[1].job)
<1>t. Mail \in Seq(Messages) /\ Todo \in Seq(Jobs)
  BY FlowTypes
<1>m. \A job \in UnderWay :
        \/ \E i \in 1 .. Len(Todo) : job = Todo[i]
        \/ \E i \in 1 .. Len(Mail) : IsResult(Mail[i]) /\ job = Mail[i].job
  BY DEF UnderWay
<1>n. /\ \A i \in 1 .. Len(Todo') : Todo'[i] \in UnderWay'
      /\ \A i \in 1 .. Len(Mail') : IsResult(Mail'[i]) => Mail'[i].job \in UnderWay'
  BY DEF UnderWay
<1>1. CASE Quiet
  BY <1>1 DEF Quiet, UnderWay
<1>2. CASE Posted
  <2>1. /\ \A i \in 1 .. Len(Mail) : i \in 1 .. Len(Mail') /\ Mail'[i] = Mail[i]
        /\ Len(Mail) + 1 \in 1 .. Len(Mail') /\ Mail'[Len(Mail) + 1] = Result(Todo[1])
    BY <1>t, <1>2 DEF Posted
  <2>2. \A i \in 1 .. Len(Todo) : i # 1 => i - 1 \in 1 .. Len(Todo') /\ Todo'[i - 1] = Todo[i]
    BY <1>t, <1>2 DEF Posted
  <2>3. IsResult(Result(Todo[1])) /\ Result(Todo[1]).job = Todo[1]
    BY DEF IsResult, Result
  <2>4. Todo[1] \in UnderWay'
    BY <1>n, <2>1, <2>3
  <2>5. \A i \in 1 .. Len(Todo) : Todo[i] \in UnderWay'
    BY <1>n, <2>2, <2>4
  <2> QED BY <1>m, <1>n, <2>1, <2>5, SMTT(30)
<1>3. ASSUME NEW m \in Messages, Sent(m) PROVE UnderWay \subseteq UnderWay'
  <2>1. \A i \in 1 .. Len(Mail) : i \in 1 .. Len(Mail') /\ Mail'[i] = Mail[i]
    BY <1>t, <1>3 DEF Sent
  <2>2. Todo' = Todo
    BY <1>3 DEF Sent
  <2> QED BY <1>m, <1>n, <2>1, <2>2
<1>4. ASSUME NEW job, Todo' = Append(Todo, job), Mail' = Mail PROVE UnderWay \subseteq UnderWay'
  <2>1. \A i \in 1 .. Len(Todo) : i \in 1 .. Len(Todo') /\ Todo'[i] = Todo[i]
    BY <1>t, <1>4
  <2> QED BY <1>m, <1>n, <1>4, <2>1
<1>5. ASSUME Took, NEW job \in UnderWay
      PROVE  job \in UnderWay' \/ (IsResult(Mail[1]) /\ job = Mail[1].job)
  <2>1. \A i \in 1 .. Len(Mail) : i # 1 => i - 1 \in 1 .. Len(Mail') /\ Mail'[i - 1] = Mail[i]
    BY <1>t, <1>5 DEF Took
  <2>2. Todo' = Todo
    BY <1>5 DEF Took
  <2> QED BY <1>m, <1>n, <2>1, <2>2
<1> QED BY <1>1, <1>2, <1>3, <1>4, <1>5

\* A result of the stored image that finds its entry is kept.
LEMMA ResultIsKept ==
  ASSUME TypeOK, Took, IsResult(Mail[1]), Current(Mail[1].job), Kept(Mail[1].job) # "absent"
  PROVE  /\ HandleResized /\ Head(batch).job = Mail[1].job /\ Mail[1].job \in Jobs
         /\ scaled' = [scaled EXCEPT ![<<Mail[1].job.name, Mail[1].job.geom>>] =
                         IF Mail[1].job.quick THEN "quick" ELSE "slow"]
<1>1. Mail[1] = Head(batch) /\ Mail[1] \in Messages
  BY TookShift
<1>2. HandleResized
  BY <1>1 DEF Took, HandleMessage, HandleStore, HandleClear, IsResult
<1>3. Mail[1].job \in Jobs
  BY <1>1, MessageFields
<1> QED BY <1>1, <1>2, <1>3 DEF HandleResized, UpdateFromResize, Current, Kept

\* The quick job stays in front until it has left its picture.
LEMMA QuickIsFirstStep == IInv /\ QuickIsFirst /\ [Next]_vars => QuickIsFirst'
<1> SUFFICES ASSUME IInv, QuickIsFirst, [Next]_vars PROVE QuickIsFirst'
  OBVIOUS
<1>t. /\ TypeOK /\ StoresAreNew /\ HasEntry /\ SlowIsLast
      /\ UnderWay \subseteq Jobs
      /\ \A job \in Jobs : job.name \in Names /\ job.geom \in Geoms
      /\ DOMAIN scaled = Names \X Geoms
  BY FlowTypes DEF IInv, TypeOK, Jobs
<1>q. \A job : /\ QuickOf(job).name = job.name /\ QuickOf(job).src = job.src
               /\ QuickOf(job).geom = job.geom /\ QuickOf(job).quick
  BY DEF QuickOf, Job
<1>1. CASE Quiet \/ Posted \/ \E m \in Messages : Sent(m)
  <2>1. UnderWay' \subseteq UnderWay /\ UnderWay \subseteq UnderWay'
    BY <1>1, <1>t, UnderWayStep, UnderWayKept DEF Quiet, UnderWay
  <2> QED BY <1>1, <2>1 DEF Quiet, Posted, Sent, QuickIsFirst, Current, Kept
<1>2. CASE Took
  <2> SUFFICES ASSUME NEW slow \in UnderWay', Current(slow)', ~ slow.quick,
                      QuickOf(slow) \notin UnderWay'
               PROVE  Kept(slow)' \in {"quick", "slow"}
    BY DEF QuickIsFirst, QuickOf, Job
  <2>1. slow \in UnderWay
    BY <1>2, <1>t, UnderWayStep
  <2>2. Current(slow)
    BY <1>2, <1>t, <2>1, TookEffect
  <2>3. CASE Kept(slow) \in {"quick", "slow"}
    BY <1>2, <1>t, <2>1, <2>3, TookEffect
  <2>4. CASE QuickOf(slow) \in UnderWay
    <3>1. IsResult(Mail[1]) /\ QuickOf(slow) = Mail[1].job
      BY <1>2, <1>t, <2>4, UnderWayKept
    <3>2. Current(Mail[1].job) /\ Kept(Mail[1].job) # "absent"
      BY <1>q, <1>t, <2>2, <2>4, <3>1 DEF Current, HasEntry
    <3>3. scaled' = [scaled EXCEPT ![<<slow.name, slow.geom>>] = "quick"]
      BY <1>2, <1>q, <1>t, <3>1, <3>2, ResultIsKept
    <3> QED BY <1>t, <2>1, <3>3 DEF Kept
  <2> QED BY <2>1, <2>2, <2>3, <2>4 DEF QuickIsFirst
<1>3. ASSUME NEW job \in Jobs, SlowAdded(job) PROVE QuickIsFirst'
  <2> DEFINE slow == Job(job.name, job.src, job.geom, FALSE)
  <2>1. QuickOf(slow) = job
    BY <1>3 DEF QuickOf, Job, Jobs, SlowAdded
  <2>2. /\ UnderWay' \subseteq UnderWay \cup {slow} /\ UnderWay \subseteq UnderWay'
        /\ job \in UnderWay /\ UNCHANGED <<source, scaled>>
    BY <1>3, <1>t, UnderWayStep, UnderWayKept DEF SlowAdded
  <2> HIDE DEF slow
  <2> QED BY <2>1, <2>2 DEF QuickIsFirst, Current, Kept
<1>4. ASSUME NEW n \in Names, NEW g \in Geoms, Wanted(n, g) PROVE QuickIsFirst'
  <2> DEFINE new == Job(n, source[n], g, TRUE)
  <2>1. new.quick
    BY DEF Job
  <2>2. /\ UnderWay' \subseteq UnderWay \cup {new} /\ UnderWay \subseteq UnderWay'
        /\ source' = source
        /\ scaled[<<n, g>>] = "absent" /\ scaled' = [scaled EXCEPT ![<<n, g>>] = "wanted"]
    BY <1>4, <1>t, UnderWayStep, UnderWayKept DEF Wanted
  <2> HIDE DEF new
  <2> SUFFICES ASSUME NEW slow \in UnderWay, Current(slow), ~ slow.quick
               PROVE  Kept(slow)' \in {"quick", "slow"} \/ QuickOf(slow) \in UnderWay'
    BY <2>1, <2>2 DEF QuickIsFirst, Current, QuickOf, Job
  <2>3. <<slow.name, slow.geom>> # <<n, g>>
    BY <1>t, <2>2 DEF HasEntry, Kept
  <2>4. Kept(slow)' = Kept(slow)
    BY <1>t, <2>2, <2>3 DEF Kept
  <2> QED BY <2>2, <2>4 DEF QuickIsFirst
<1> QED BY <1>1, <1>2, <1>3, <1>4, <1>t, FlowStep

\* A result that the draw thread handles is one step of the cache: the quick one
\* of a size is the first, and the slow one the last, that changes it.
LEMMA ResultImproves ==
  ASSUME IInv, QuickIsFirst, HandleResized
  PROVE  (\E n \in Names, g \in Geoms : Cache!Improve(n, g)) \/ UNCHANGED Cache!vars
<1>t. /\ TypeOK /\ PicturesAreCurrent /\ SlowIsLast /\ SlowIsFinal
      /\ scaled \in [Names \X Geoms -> {"absent", "wanted", "quick", "slow"}]
      /\ pixels \in [Names \X Geoms -> Sources \cup {0}]
      /\ Mail \in Seq(Messages)
  BY FlowTypes DEF IInv, TypeOK
<1>1. /\ 1 \in 1 .. Len(Mail) /\ Mail[1] = Head(batch) /\ IsResult(Mail[1])
      /\ Mail[1] \in Messages
  BY <1>t DEF HandleResized, IsResult, Mail, TypeOK
<1> DEFINE job == Mail[1].job
           k == <<job.name, job.geom>>
<1>2. job \in Jobs /\ job \in UnderWay
  BY <1>1, MessageFields, UnderWayMembers
<1>3. job.name \in Names /\ job.geom \in Geoms /\ k \in Names \X Geoms /\ job.src # 0 /\ job.quick \in BOOLEAN
  BY <1>2, ScalingAssumption DEF ScalingAssumption, Jobs, Sources
<1>4. source' = source
  BY DEF HandleResized
<1>5. CASE UNCHANGED <<scaled, pixels>>
  BY <1>4, <1>5 DEF Cache!vars
<1>6. CASE /\ Current(job) /\ Kept(job) # "absent"
           /\ scaled' = [scaled EXCEPT ![k] = IF job.quick THEN "quick" ELSE "slow"]
           /\ pixels' = [pixels EXCEPT ![k] = job.src]
  <2>1. job.src = source[job.name]
    BY <1>6 DEF Current
  <2>2. scaled[k] \in {"quick", "slow"} => pixels[k] = job.src
    BY <1>3, <1>t, <2>1 DEF PicturesAreCurrent
  <2>3. job.quick => scaled[k] # "slow"
    BY <1>2, <1>6, <1>t DEF SlowIsFinal, Kept
  <2>4. ~ job.quick => scaled[k] \in {"quick", "slow"}
    <3> SUFFICES ASSUME ~ job.quick, QuickOf(job) \in UnderWay PROVE FALSE
      BY <1>2, <1>6 DEF QuickIsFirst, Kept
    <3> DEFINE quick == QuickOf(job)
    <3>1. Overtakes(job, quick) /\ quick # job
      BY DEF Overtakes, QuickOf, Job
    <3> HIDE DEF quick
    <3>2. \/ \E i \in 1 .. Len(Todo) : quick = Todo[i]
          \/ \E i \in 1 .. Len(Mail) : IsResult(Mail[i]) /\ quick = Mail[i].job
      BY DEF UnderWay, quick
    <3>3. \A i \in 1 .. Len(Todo) : quick # Todo[i]
      BY <1>1, <1>t, <3>1 DEF SlowIsLast
    <3>4. \A i \in 2 .. Len(Mail) : IsResult(Mail[i]) => quick # Mail[i].job
      BY <1>1, <1>t, <3>1 DEF SlowIsLast
    <3>5. \A i \in 1 .. Len(Mail) : i = 1 \/ i \in 2 .. Len(Mail)
      BY <1>t
    <3> QED BY <3>1, <3>2, <3>3, <3>4, <3>5
  <2>5. CASE \/ job.quick /\ scaled[k] = "wanted"
             \/ ~ job.quick /\ scaled[k] = "quick"
    <3>1. Cache!Improve(job.name, job.geom)
      BY <1>3, <1>4, <1>6, <2>1, <2>5 DEF Cache!Improve
    <3> QED BY <1>3, <3>1
  <2>6. CASE \/ job.quick /\ scaled[k] = "quick"
             \/ ~ job.quick /\ scaled[k] = "slow"
    <3>1. scaled' = scaled /\ pixels' = pixels
      BY <1>3, <1>6, <1>t, <2>2, <2>6
    <3> QED BY <1>4, <3>1 DEF Cache!vars
  <2>7. scaled[k] \in {"wanted", "quick", "slow"}
    BY <1>3, <1>6, <1>t DEF Kept
  <2> QED BY <1>3, <2>3, <2>4, <2>5, <2>6, <2>7
<1> QED BY <1>1, <1>5, <1>6 DEF HandleResized, UpdateFromResize, Current, Kept

\* ImageScaling implements PictureCache: with two threads and two queues, in
\* which results cross with new images, each picture is first quick, then slow,
\* of the image that is stored, and kept until that is replaced or cleared.
THEOREM ScalingIsPictureCache == Spec => IsPictureCache
<1>1. Init => Cache!Init /\ QuickIsFirst
  <2> SUFFICES ASSUME Init PROVE Cache!Init /\ QuickIsFirst
    OBVIOUS
  <2>1. UnderWay = {}
    BY DEF Init, UnderWay, Todo, Mail
  <2> QED BY <2>1 DEF Init, Cache!Init, QuickIsFirst
<1>2. IInv /\ QuickIsFirst /\ [Next]_vars => QuickIsFirst'
  BY QuickIsFirstStep
<1>3. IInv /\ QuickIsFirst /\ [Next]_vars => [Cache!Next]_(Cache!vars)
  <2> SUFFICES ASSUME IInv, QuickIsFirst, [Next]_vars
               PROVE  Cache!Next \/ UNCHANGED Cache!vars
    OBVIOUS
  <2>t. /\ batch \in Seq(Messages) /\ source \in [Names -> Sources \cup {0}]
        /\ TypeOK /\ StoresAreNew
    BY DEF IInv, TypeOK
  <2> USE DEF drawVars, resizerVars, serverVars
  <2>1. CASE HandleStore
    <3> DEFINE m == Head(batch)
    <3>1. m \in Messages /\ IsStore(m) /\ 1 \in 1 .. Len(Mail) /\ Mail[1] = m
      BY <2>t, <2>1 DEF HandleStore, IsStore, Mail, TypeOK
    <3>2. m.name \in Names /\ m.src \in Sources
      BY <3>1, MessageFields DEF Sources
    <3>3. m.src > source[m.name]
      <4>1. source[m.name] < m.src
        BY <2>t, <3>1, <3>2 DEF StoresAreNew
      <4>2. source[m.name] \in Nat /\ m.src \in Nat
        BY <2>t, <3>2 DEF Sources
      <4> QED BY <4>1, <4>2
    <3>4. CASE UNCHANGED <<source, scaled, pixels>>
      BY <3>4 DEF Cache!vars
    <3>5. CASE source' = [source EXCEPT ![m.name] = m.src] /\ ForgetScaled({m.name})
      <4>1. Cache!Store(m.name)
        BY <3>2, <3>3, <3>5 DEF Cache!Store, Cache!Forget, ForgetScaled
      <4> QED BY <3>2, <4>1 DEF Cache!Next
    <3> QED BY <2>1, <3>4, <3>5 DEF HandleStore
  <2>2. CASE HandleClear
    BY <2>2 DEF HandleClear, ForgetScaled, Cache!Next, Cache!Clear, Cache!Forget
  <2>3. CASE HandleResized
    BY <2>3, ResultImproves DEF Cache!Next
  <2>4. ASSUME NEW n \in Names, NEW g \in Geoms, GetImage(n, g)
        PROVE  Cache!Next \/ UNCHANGED Cache!vars
    <3>1. CASE UNCHANGED scaled
      BY <2>4, <3>1 DEF GetImage, Cache!vars
    <3>2. CASE scaled[<<n, g>>] = "absent" /\ scaled' = [scaled EXCEPT ![<<n, g>>] = "wanted"]
      BY <2>4, <3>2 DEF GetImage, Cache!Next, Cache!Want
    <3> QED BY <2>4, <3>1, <3>2 DEF GetImage
  <2>5. CASE TakeMessages \/ ResizeThread \/ Quit \/ Servers \/ UNCHANGED vars
    BY <2>5 DEF TakeMessages, ResizeThread, Look, EndLoop, Wait, Resized, Post, Quit,
                Servers, SendStore, SendClear, vars, Cache!vars
  <2> QED BY <2>1, <2>2, <2>3, <2>4, <2>5 DEF Next, HandleMessage, Draw
<1> QED BY <1>1, <1>2, <1>3, Invariance, PTL DEF Spec, IsPictureCache, Cache!Spec

------------------------------------------------------------------------------
(* What the liveness properties rest on *)

\* The slow job of the picture of a quick one
SlowOf(job) == Job(job.name, job.src, job.geom, FALSE)

\* A quick job leaves the resize thread only when its slow one is queued.
SlowFollows ==
  /\ \A i \in 1 .. Len(Mail) :
       IsResult(Mail[i]) /\ Mail[i].job.quick => SlowOf(Mail[i].job) \in UnderWay
  /\ resizer = "posting" /\ work[1].quick =>
       \E i \in 1 .. Len(jobs) : jobs[i] = SlowOf(work[1])

\* The resize that a picture lacks: the quick one at first, and then the slow one
Improves(job, n, g) ==
  /\ job.name = n /\ job.geom = g /\ Current(job)
  /\ Kept(job) = IF job.quick THEN "wanted" ELSE "quick"

\* A size that has been asked for and is not yet there, or only quickly, has
\* its next resize under way.
NothingForgotten ==
  \A n \in Names, g \in Geoms :
    scaled[<<n, g>>] \in {"wanted", "quick"} => \E job \in UnderWay : Improves(job, n, g)

\* A job that is appended stays in the queue.
LEMMA AppendKeeps ==
  ASSUME NEW S, NEW s \in Seq(S), NEW x
  PROVE  /\ \A i \in 1 .. Len(s) : i \in 1 .. Len(Append(s, x)) /\ Append(s, x)[i] = s[i]
         /\ Len(s) + 1 \in 1 .. Len(Append(s, x)) /\ Append(s, x)[Len(s) + 1] = x
OBVIOUS

\* What is queued behind the job at hand is under way.
LEMMA QueuedIsUnderWay ==
  ASSUME TypeOK, NEW i \in 1 .. Len(jobs)
  PROVE  jobs[i] \in UnderWay
<1>1. work \in Seq(Jobs) /\ jobs \in Seq(Jobs)
  BY DEF TypeOK
<1>2. Len(work) + i \in 1 .. Len(Todo) /\ Todo[Len(work) + i] = jobs[i]
  BY <1>1 DEF Todo
<1> QED BY <1>2, UnderWayMembers

\* Only Post takes a job from the resize thread.
LEMMA PostedIsPost ==
  ASSUME TypeOK, [Next]_vars, Posted
  PROVE  resizer = "posting" /\ Todo[1] = work[1] /\ jobs' = jobs
<1>t. /\ work \in Seq(Jobs) /\ jobs \in Seq(Jobs) /\ Len(work) <= 1
      /\ batch \in Seq(Messages) /\ messages \in Seq(Messages)
      /\ resizer \in {"resizing", "posting"} <=> work # <<>>
  BY DEF TypeOK
<1>1. Todo' # Todo /\ Len(Todo') = Len(Todo) - 1
  BY <1>t DEF Posted, Todo
<1>2. Post
  <2> USE DEF drawVars, resizerVars, serverVars
  <2>1. ASSUME work' = work, jobs' = jobs PROVE FALSE
    BY <1>1, <2>1 DEF Todo
  <2>2. ASSUME NEW job, work' = work, jobs' = Append(jobs, job) PROVE FALSE
    BY <1>1, <1>t, <2>2 DEF Todo
  <2>3. ~ Look
    <3>1. ASSUME Look, jobs # <<>> PROVE FALSE
      <4>1. work = <<>> /\ work' = <<Head(jobs)>> /\ jobs' = Tail(jobs)
        BY <1>t, <3>1 DEF Look
      <4>2. Todo' = jobs /\ Todo = jobs
        BY <1>t, <3>1, <4>1, HeadAndTail, ConcatEmptySeq DEF Todo
      <4> QED BY <1>1, <4>2
    <3>2. ASSUME Look, jobs = <<>> PROVE FALSE
      BY <2>1, <3>2 DEF Look
    <3> QED BY <3>1, <3>2
  <2>4. ~ Resized
    BY <2>1, <2>2 DEF Resized
  <2>5. \A n \in Names, g \in Geoms : ~ GetImage(n, g)
    BY <2>1, <2>2 DEF GetImage, AddJob
  <2>6. ~ (TakeMessages \/ HandleMessage \/ EndLoop \/ Wait \/ Quit \/ Servers \/ UNCHANGED vars)
    BY <2>1 DEF TakeMessages, HandleMessage, HandleStore, HandleClear, HandleResized, EndLoop,
                Wait, Quit, Servers, SendStore, SendClear, vars
  <2> QED BY <2>3, <2>4, <2>5, <2>6 DEF Next, ResizeThread, Draw
<1> QED BY <1>2, <1>t DEF Post, Todo

\* Whoever has a quick job has queued its slow one before giving it away, and
\* the slow one stays behind.
LEMMA SlowFollowsStep == IInv /\ SlowFollows /\ [Next]_vars => SlowFollows'
<1> SUFFICES ASSUME IInv, SlowFollows, [Next]_vars PROVE SlowFollows'
  OBVIOUS
<1>t. /\ TypeOK /\ TypeOK' /\ SlowIsLast /\ UnderWay \subseteq Jobs
      /\ Mail \in Seq(Messages) /\ Todo \in Seq(Jobs)
      /\ work \in Seq(Jobs) /\ jobs \in Seq(Jobs)
      /\ resizer \in {"resizing", "posting"} <=> work # <<>>
  BY FlowTypes, TypeStep DEF IInv, TypeOK
<1>1. \A i \in 1 .. Len(Mail') :
        IsResult(Mail'[i]) /\ Mail'[i].job.quick => SlowOf(Mail'[i].job) \in UnderWay'
  <2>1. CASE Quiet \/ (\E m \in Messages : Sent(m)) \/ (\E job \in Jobs : SlowAdded(job))
             \/ \E n \in Names, g \in Geoms : Wanted(n, g)
    <3>1. UnderWay \subseteq UnderWay'
      BY <1>t, <2>1, UnderWayKept DEF SlowAdded, Wanted
    <3>2. \A i \in 1 .. Len(Mail') :
            IsResult(Mail'[i]) => i \in 1 .. Len(Mail) /\ Mail'[i] = Mail[i]
      <4>1. CASE Mail' = Mail
        BY <4>1
      <4>2. ASSUME NEW m \in Messages, Sent(m)
            PROVE  \A i \in 1 .. Len(Mail') :
                     IsResult(Mail'[i]) => i \in 1 .. Len(Mail) /\ Mail'[i] = Mail[i]
        <5>1. Mail' = Append(Mail, m) /\ ~ IsResult(m)
          BY <4>2 DEF Sent, IsStore, IsResult
        <5> QED BY <1>t, <5>1
      <4> QED BY <2>1, <4>1, <4>2 DEF Quiet, SlowAdded, Wanted
    <3> QED BY <3>1, <3>2 DEF SlowFollows
  <2>2. CASE Posted
    <3>1. UnderWay \subseteq UnderWay'
      BY <1>t, <2>2, UnderWayKept
    <3>2. resizer = "posting" /\ Todo[1] = work[1] /\ jobs' = jobs
      BY <1>t, <2>2, PostedIsPost
    <3>3. \A i \in 1 .. Len(Mail') :
            \/ i \in 1 .. Len(Mail) /\ Mail'[i] = Mail[i]
            \/ Mail'[i] = Result(work[1])
      BY <1>t, <2>2, <3>2 DEF Posted
    <3>4. work[1].quick => SlowOf(work[1]) \in UnderWay
      BY <1>t, <3>2, QueuedIsUnderWay DEF SlowFollows
    <3> QED BY <3>1, <3>3, <3>4 DEF SlowFollows, Result
  <2>3. CASE Took
    <3> SUFFICES ASSUME NEW i \in 1 .. Len(Mail'), NEW m, m = Mail'[i], IsResult(m), m.job.quick
                 PROVE  SlowOf(m.job) \in UnderWay'
      OBVIOUS
    <3>1. i + 1 \in 2 .. Len(Mail) /\ Mail[i + 1] = m /\ 1 \in 1 .. Len(Mail)
      BY <1>t, <2>3, TookShift
    <3>2. SlowOf(m.job) \in UnderWay
      BY <3>1 DEF SlowFollows
    <3>3. Overtakes(SlowOf(m.job), m.job)
      BY DEF Overtakes, SlowOf, Job
    <3>4. ~ (IsResult(Mail[1]) /\ SlowOf(m.job) = Mail[1].job)
      BY <1>t, <3>1, <3>3 DEF SlowIsLast
    <3> QED BY <1>t, <2>3, <3>2, <3>4, UnderWayKept
  <2> QED BY <1>t, <2>1, <2>2, <2>3, FlowStep
<1>2. resizer' = "posting" /\ work'[1].quick =>
        \E i \in 1 .. Len(jobs') : jobs'[i] = SlowOf(work'[1])
  <2> USE DEF drawVars, resizerVars, serverVars
  <2>1. CASE \/ TakeMessages \/ HandleMessage \/ EndLoop \/ Wait \/ Look \/ Post \/ Quit
             \/ Servers \/ UNCHANGED vars
    BY <2>1 DEF TakeMessages, HandleMessage, HandleStore, HandleClear, HandleResized, EndLoop,
                Wait, Look, Post, Quit, Servers, SendStore, SendClear, vars, SlowFollows
  <2>2. CASE Resized
    <3>1. work' = work
      BY <2>2 DEF Resized
    <3>2. work[1].quick => jobs' = Append(jobs, SlowOf(work[1]))
      BY <2>2 DEF Resized, SlowOf
    <3>3. work[1].quick => Len(jobs) + 1 \in 1 .. Len(jobs') /\ jobs'[Len(jobs) + 1] = SlowOf(work[1])
      <4> DEFINE slow == SlowOf(work[1])
      <4> HIDE DEF slow
      <4> QED BY <1>t, <3>2, AppendKeeps DEF slow
    <3> QED BY <3>1, <3>3
  <2>3. ASSUME NEW n \in Names, NEW g \in Geoms, GetImage(n, g), resizer' = "posting"
        PROVE  /\ resizer = "posting" /\ work' = work
               /\ \A i \in 1 .. Len(jobs) : i \in 1 .. Len(jobs') /\ jobs'[i] = jobs[i]
    <3>1. \/ jobs' = jobs
          \/ \E job : jobs' = Append(jobs, job)
      BY <2>3 DEF GetImage, AddJob
    <3>2. \A i \in 1 .. Len(jobs) : i \in 1 .. Len(jobs') /\ jobs'[i] = jobs[i]
      <4>1. ASSUME NEW job, jobs' = Append(jobs, job)
            PROVE  \A i \in 1 .. Len(jobs) : i \in 1 .. Len(jobs') /\ jobs'[i] = jobs[i]
        BY <1>t, <4>1, AppendKeeps
      <4> QED BY <3>1, <4>1
    <3> QED BY <2>3, <3>2 DEF GetImage, AddJob
  <2>4. CASE Draw
    BY <2>3, <2>4 DEF Draw, SlowFollows
  <2> QED BY <2>1, <2>2, <2>4 DEF Next, ResizeThread
<1> QED BY <1>1, <1>2 DEF SlowFollows

\* What handling a message does to a picture that is kept
LEMMA TookPicture ==
  ASSUME TypeOK, Took, NEW n \in Names, NEW g \in Geoms, scaled'[<<n, g>>] # "absent"
  PROVE  /\ source'[n] = source[n]
         /\ \/ scaled'[<<n, g>>] = scaled[<<n, g>>]
            \/ \E q \in BOOLEAN :
                 /\ IsResult(Mail[1]) /\ Mail[1].job = Job(n, source[n], g, q)
                 /\ scaled'[<<n, g>>] = IF q THEN "quick" ELSE "slow"
<1>t. /\ source \in [Names -> Sources \cup {0}]
      /\ scaled \in [Names \X Geoms -> {"absent", "wanted", "quick", "slow"}]
      /\ Mail[1] = Head(batch) /\ Mail[1] \in Messages
  BY TookShift DEF TypeOK
<1>1. CASE HandleStore
  <2>1. Mail[1].name \in Names
    BY <1>1, <1>t, MessageFields DEF HandleStore, IsStore
  <2> QED BY <1>1, <1>t, <2>1 DEF HandleStore, ForgetScaled
<1>2. CASE HandleClear
  BY <1>2 DEF HandleClear, ForgetScaled
<1>3. CASE HandleResized
  <2> DEFINE job == Mail[1].job
  <2>1. IsResult(Mail[1]) /\ source' = source /\ UpdateFromResize(job)
    BY <1>3, <1>t DEF HandleResized, IsResult
  <2>2. /\ job.name \in Names /\ job.geom \in Geoms /\ job.quick \in BOOLEAN
        /\ job = Job(job.name, job.src, job.geom, job.quick)
    BY <1>t, <2>1, MessageFields DEF Jobs, Job
  <2> HIDE DEF job
  <2>3. CASE scaled' = scaled
    BY <2>1, <2>3
  <2>4. CASE /\ source[job.name] = job.src
             /\ scaled' = [scaled EXCEPT ![<<job.name, job.geom>>] =
                             IF job.quick THEN "quick" ELSE "slow"]
    <3>1. CASE n = job.name /\ g = job.geom
      <4>1. scaled'[<<n, g>>] = IF job.quick THEN "quick" ELSE "slow"
        BY <1>t, <2>4, <3>1
      <4>2. job = Job(n, source[n], g, job.quick)
        BY <2>2, <2>4, <3>1
      <4> QED BY <2>1, <2>2, <4>1, <4>2 DEF job
    <3>2. CASE ~ (n = job.name /\ g = job.geom)
      <4>1. <<n, g>> # <<job.name, job.geom>>
        BY <3>2
      <4> QED BY <1>t, <2>1, <2>4, <4>1
    <3> QED BY <3>1, <3>2
  <2> QED BY <2>1, <2>3, <2>4 DEF UpdateFromResize
<1> QED BY <1>1, <1>2, <1>3 DEF Took, HandleMessage

\* A result that is handled is the next quality of its picture, and what is
\* under way otherwise stays.
LEMMA NothingForgottenStep ==
  IInv /\ SlowFollows /\ NothingForgotten /\ [Next]_vars => NothingForgotten'
<1> SUFFICES ASSUME IInv, SlowFollows, NothingForgotten, [Next]_vars,
                    NEW n \in Names, NEW g \in Geoms, NEW k, k = <<n, g>>,
                    scaled'[k] \in {"wanted", "quick"}
             PROVE  \E job \in UnderWay' : Improves(job, n, g)'
  BY DEF NothingForgotten, Improves, Current, Kept
<1>t. /\ TypeOK /\ Todo \in Seq(Jobs) /\ Mail \in Seq(Messages) /\ UnderWay \subseteq Jobs
      /\ scaled \in [Names \X Geoms -> {"absent", "wanted", "quick", "slow"}]
      /\ k \in DOMAIN scaled
  BY FlowTypes DEF IInv, TypeOK
<1>1. ASSUME UnderWay \subseteq UnderWay', source' = source, scaled'[k] = scaled[k]
      PROVE  \E job \in UnderWay' : Improves(job, n, g)'
  <2>1. PICK job \in UnderWay : Improves(job, n, g)
    BY <1>1 DEF NothingForgotten
  <2>2. Improves(job, n, g)'
    BY <1>1, <2>1 DEF Improves, Current, Kept
  <2> QED BY <1>1, <2>1, <2>2
<1>2. CASE Quiet \/ Posted \/ (\E m \in Messages : Sent(m)) \/ \E job \in Jobs : SlowAdded(job)
  <2>1. UnderWay \subseteq UnderWay'
    BY <1>2, <1>t, UnderWayKept DEF SlowAdded
  <2>2. UNCHANGED <<source, scaled>>
    BY <1>2 DEF Quiet, Posted, Sent, SlowAdded
  <2> QED BY <1>1, <2>1, <2>2
<1>3. ASSUME NEW m \in Names, NEW h \in Geoms, Wanted(m, h)
      PROVE  \E job \in UnderWay' : Improves(job, n, g)'
  <2>1. PICK new : /\ new.name = m /\ new.src = source[m] /\ new.geom = h /\ new.quick
                   /\ Todo' = Append(Todo, new) /\ Mail' = Mail
    BY <1>3 DEF Wanted, Job
  <2>2. UnderWay \subseteq UnderWay' /\ new \in UnderWay'
    <3>1. Len(Todo) + 1 \in 1 .. Len(Todo') /\ Todo'[Len(Todo) + 1] = new
      BY <1>t, <2>1, AppendKeeps
    <3>2. new \in UnderWay'
      BY <3>1 DEF UnderWay
    <3> QED BY <1>t, <2>1, <3>2, UnderWayKept
  <2>3. source' = source /\ scaled' = [scaled EXCEPT ![<<m, h>>] = "wanted"]
    BY <1>3 DEF Wanted
  <2>4. CASE n = m /\ g = h
    <3>1. scaled'[k] = "wanted"
      BY <1>t, <2>3, <2>4
    <3>2. Improves(new, n, g)'
      BY <2>1, <2>3, <2>4, <3>1 DEF Improves, Current, Kept
    <3> QED BY <2>2, <3>2
  <2>5. CASE ~ (n = m /\ g = h)
    <3>1. k # <<m, h>>
      BY <2>5
    <3>2. scaled'[k] = scaled[k]
      BY <1>t, <2>3, <3>1
    <3> QED BY <1>1, <2>2, <2>3, <3>2
  <2> QED BY <2>4, <2>5
<1>4. CASE Took
  <2>1. /\ source'[n] = source[n]
        /\ \/ scaled'[k] = scaled[k]
           \/ \E q \in BOOLEAN :
                /\ IsResult(Mail[1]) /\ Mail[1].job = Job(n, source[n], g, q)
                /\ scaled'[k] = IF q THEN "quick" ELSE "slow"
    BY <1>4, <1>t, TookPicture
  <2>2. CASE scaled'[k] = scaled[k]
    <3>1. PICK job \in UnderWay : Improves(job, n, g)
      BY <2>2 DEF NothingForgotten
    <3>2. Improves(job, n, g)'
      BY <2>1, <2>2, <3>1 DEF Improves, Current, Kept
    <3>3. ~ (IsResult(Mail[1]) /\ Mail[1].job = job)
      <4> SUFFICES ASSUME IsResult(Mail[1]), Mail[1].job = job PROVE FALSE
        OBVIOUS
      <4>1. Kept(job) # "absent" /\ Current(job) /\ k = <<job.name, job.geom>>
        BY <3>1 DEF Improves
      <4>2. scaled' = [scaled EXCEPT ![k] = IF job.quick THEN "quick" ELSE "slow"]
        BY <1>4, <1>t, <4>1, ResultIsKept
      <4>3. scaled'[k] = IF job.quick THEN "quick" ELSE "slow"
        BY <1>t, <4>2
      <4>4. scaled[k] = IF job.quick THEN "wanted" ELSE "quick"
        BY <3>1, <4>1 DEF Improves, Kept
      <4> QED BY <2>2, <4>3, <4>4
    <3>4. job \in UnderWay'
      BY <1>4, <1>t, <3>1, <3>3, UnderWayKept
    <3> QED BY <3>2, <3>4
  <2>3. ASSUME NEW q \in BOOLEAN, IsResult(Mail[1]), Mail[1].job = Job(n, source[n], g, q),
               scaled'[k] = IF q THEN "quick" ELSE "slow"
        PROVE  \E job \in UnderWay' : Improves(job, n, g)'
    <3>1. scaled'[k] = "quick" /\ Mail[1].job.quick
      BY <2>3 DEF Job
    <3>2. PICK slow : slow = SlowOf(Mail[1].job)
      OBVIOUS
    <3>3. /\ slow.name = n /\ slow.src = source[n] /\ slow.geom = g /\ ~ slow.quick
          /\ slow # Mail[1].job
      BY <2>3, <3>1, <3>2 DEF SlowOf, Job
    <3>4. slow \in UnderWay
      <4>1. 1 \in 1 .. Len(Mail)
        BY <1>4, <1>t, TookShift
      <4> QED BY <2>3, <3>1, <3>2, <4>1 DEF SlowFollows
    <3>5. slow \in UnderWay'
      BY <1>4, <1>t, <3>3, <3>4, UnderWayKept
    <3>6. Improves(slow, n, g)'
      BY <2>1, <2>3, <3>1, <3>3 DEF Improves, Current, Kept
    <3> QED BY <3>5, <3>6
  <2> QED BY <2>1, <2>2, <2>3
<1> QED BY <1>2, <1>3, <1>4, <1>t, FlowStep

\* The safety half of EventuallySharp, for every set of images and sizes: as long
\* as a size is not there, or only quickly scaled, the resize that is missing
\* is queued, in work or on its way back, whatever was stored and cleared.
THEOREM AlwaysGettingSharper == Spec => []NothingForgotten
<1>1. Init => SlowFollows /\ NothingForgotten
  <2> SUFFICES ASSUME Init PROVE SlowFollows /\ NothingForgotten
    OBVIOUS
  <2>1. Len(Mail) = 0 /\ resizer = "looking"
    BY DEF Init, Mail
  <2>2. \A n \in Names, g \in Geoms : scaled[<<n, g>>] = "absent"
    BY DEF Init
  <2>3. SlowFollows
    BY <2>1 DEF SlowFollows
  <2>4. NothingForgotten
    BY <2>2 DEF NothingForgotten
  <2> QED BY <2>3, <2>4
<1>2. IInv /\ SlowFollows /\ NothingForgotten /\ [Next]_vars => SlowFollows' /\ NothingForgotten'
  BY SlowFollowsStep, NothingForgottenStep
<1> QED BY <1>1, <1>2, Invariance, PTL DEF Spec
===============================================================================
