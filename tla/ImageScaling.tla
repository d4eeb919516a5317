---------------------------- MODULE ImageScaling ----------------------------
(***************************************************************************)
(* Scaled copies of the stored images (imagescaling.cpp).  The draw thread *)
(* keeps, for each image, a map from sizes to scaled pixels.  A size that  *)
(* is wanted for the first time gets an empty entry and a quick resize is  *)
(* queued for the resize thread, which queues a slow one behind it and     *)
(* sends each result back as a message.  Images are stored and cleared by  *)
(* messages of the tally servers, so results can be late.                  *)
(*                                                                         *)
(* The steps are those between which the other threads can be seen: every  *)
(* critical section of the two queues, and every message handled.          *)
(***************************************************************************)
EXTENDS Integers, Sequences

CONSTANTS
  Names,      \* image names
  Geoms,      \* sizes the map tells apart (Magick::Geometry orders by area)
  MaxStores,  \* bound: STOREIMAGE messages
  MaxClears   \* bound: CLEARIMAGES messages

ASSUME ScalingAssumption == MaxStores \in Nat /\ MaxClears \in Nat

VARIABLES
  \* the draw thread: globalState.Images
  source,    \* name -> pSource, the number of the STOREIMAGE it came with, or
             \*   0: no image, or the empty one that operator[] makes
  content,   \* name -> pSourceBlob, as the number of the first STOREIMAGE
             \*   that had these bytes, or 0
  scaled,    \* <<name, size>> -> "absent" from Scaled, "wanted" (an entry
             \*   without a blob), or a blob of a "quick" or "slow" resize
  pixels,    \* <<name, size>> -> the source of the blob, or 0
  texture,   \* <<name, size>> -> the blob of the texture in use, or "none"
  batch,     \* messages taken from msgQueue and not handled yet
  \* the queues
  messages,  \* msgQueue
  jobs,      \* ResizeQueue::m_queue
  \* the resize thread
  resizer,   \* "looking" for a job, "sleepy" (it found none and still holds
             \*   the mutex), "waiting", "resizing", "posting" or "ended"
  work,      \* the job it has taken
  \* the tally servers
  stores, clears,  \* messages sent so far
  \* the end of the program
  quit       \* cleanup: "no", "begun" (bRunning is false), "aborted", "exited"

drawVars    == <<source, content, scaled, pixels, texture, batch>>
resizerVars == <<resizer, work>>
serverVars  == <<stores, clears>>
vars == <<drawVars, messages, jobs, resizerVars, serverVars, quit>>

Sources == 1 .. MaxStores

\* A ResizedImage.  pOutput is set by the time it is a message.
Job(n, s, g, q) == [name |-> n, src |-> s, geom |-> g, quick |-> q]
Jobs == [name : Names, src : Sources, geom : Geoms, quick : BOOLEAN]

Messages ==
  [kind : {"store"}, name : Names, src : Sources, content : Sources]
    \cup [kind : {"clear"}] \cup [kind : {"resized"}, job : Jobs]

Init ==
  /\ source = [n \in Names |-> 0] /\ content = [n \in Names |-> 0]
  /\ scaled  = [k \in Names \X Geoms |-> "absent"]
  /\ pixels  = [k \in Names \X Geoms |-> 0]
  /\ texture = [k \in Names \X Geoms |-> "none"]
  /\ batch = <<>> /\ messages = <<>> /\ jobs = <<>>
  /\ resizer = "looking" /\ work = <<>>
  /\ stores = 0 /\ clears = 0
  /\ quit = "no"

\* Scaled becomes empty for the images of S.
ForgetScaled(S) ==
  /\ scaled'  = [k \in Names \X Geoms |-> IF k[1] \in S THEN "absent" ELSE scaled[k]]
  /\ pixels'  = [k \in Names \X Geoms |-> IF k[1] \in S THEN 0 ELSE pixels[k]]
  /\ texture' = [k \in Names \X Geoms |-> IF k[1] \in S THEN "none" ELSE texture[k]]

------------------------------------------------------------------------------
(* ResizeQueue *)

\* Mutant of AddJob: the condition is not notified.
AddJobSilently(job) ==
  /\ resizer # "sleepy"
  /\ jobs' = Append(jobs, job) /\ UNCHANGED resizer

\* ResizeQueue::Add as the draw thread calls it: the mutex must be free.
AddJob(job) ==
  /\ resizer # "sleepy"
  /\ jobs' = Append(jobs, job)
  /\ resizer' = IF resizer = "waiting" THEN "looking" ELSE resizer

\* ResizeQueue::Get, whose wait is two steps: it finds the queue empty and the
\* program running, and then sleeps and lets the mutex go.
Look ==
  /\ resizer = "looking" /\ quit = "no"
  /\ \/ jobs = <<>> /\ resizer' = "sleepy" /\ UNCHANGED <<jobs, work>>
     \/ /\ jobs # <<>> /\ resizer' = "resizing"
        /\ work' = <<Head(jobs)>> /\ jobs' = Tail(jobs)
  /\ UNCHANGED <<drawVars, messages, serverVars, quit>>

\* Get returns nothing once bRunning is false, and the thread's loop is over.
EndLoop ==
  /\ resizer = "looking" /\ quit # "no" /\ resizer' = "ended"
  /\ UNCHANGED <<drawVars, messages, jobs, work, serverVars, quit>>

Wait ==
  /\ resizer = "sleepy" /\ resizer' = "waiting"
  /\ UNCHANGED <<drawVars, messages, jobs, work, serverVars, quit>>

\* Mutant of Resized: no slow resize is scheduled.
ResizedOnce ==
  /\ resizer = "resizing" /\ resizer' = "posting"
  /\ UNCHANGED <<jobs, drawVars, messages, work, serverVars, quit>>

\* DoResize is over: a quick resize queues the slow one.
Resized ==
  /\ resizer = "resizing" /\ resizer' = "posting"
  /\ LET job == work[1] IN
       jobs' = IF job.quick THEN Append(jobs, Job(job.name, job.src, job.geom, FALSE))
                            ELSE jobs
  /\ UNCHANGED <<drawVars, messages, work, serverVars, quit>>

\* Mutant of Post: the job stays with the resize thread.
PostAgain ==
  /\ resizer = "posting" /\ resizer' = "looking"
  /\ messages' = Append(messages, [kind |-> "resized", job |-> work[1]])
  /\ UNCHANGED <<work, drawVars, jobs, serverVars, quit>>

\* The result goes to the draw thread.
Post ==
  /\ resizer = "posting" /\ resizer' = "looking"
  /\ messages' = Append(messages, [kind |-> "resized", job |-> work[1]])
  /\ work' = <<>>
  /\ UNCHANGED <<drawVars, jobs, serverVars, quit>>

------------------------------------------------------------------------------
(* The draw thread *)

\* The start of a frame: MessageQueue::Get takes all there is.
TakeMessages ==
  /\ quit = "no" /\ batch = <<>> /\ messages # <<>>
  /\ batch' = messages /\ messages' = <<>>
  /\ UNCHANGED <<source, content, scaled, pixels, texture, jobs, resizerVars, serverVars, quit>>

\* Mutant of HandleStore: an image with the same bytes loses its scaled copies.
HandleStoreForgets ==
  /\ batch # <<>> /\ Head(batch).kind = "store" /\ batch' = Tail(batch)
  /\ LET m == Head(batch) IN
       /\ ForgetScaled({m.name})
       /\ IF source[m.name] # 0 /\ content[m.name] = m.content
            THEN UNCHANGED <<source, content>>
            ELSE /\ source'  = [source EXCEPT ![m.name] = m.src]
                 /\ content' = [content EXCEPT ![m.name] = m.content]
  /\ UNCHANGED <<messages, jobs, resizerVars, serverVars, quit>>

\* STOREIMAGE: an image with the same bytes stays as it is (IsSameSource).
HandleStore ==
  /\ batch # <<>> /\ Head(batch).kind = "store" /\ batch' = Tail(batch)
  /\ LET m == Head(batch) IN
       IF source[m.name] # 0 /\ content[m.name] = m.content
         THEN UNCHANGED <<source, content, scaled, pixels, texture>>
         ELSE /\ source'  = [source EXCEPT ![m.name] = m.src]
              /\ content' = [content EXCEPT ![m.name] = m.content]
              /\ ForgetScaled({m.name})
  /\ UNCHANGED <<messages, jobs, resizerVars, serverVars, quit>>

\* CLEARIMAGES
HandleClear ==
  /\ batch # <<>> /\ Head(batch).kind = "clear" /\ batch' = Tail(batch)
  /\ source' = [n \in Names |-> 0] /\ content' = [n \in Names |-> 0]
  /\ ForgetScaled(Names)
  /\ UNCHANGED <<messages, jobs, resizerVars, serverVars, quit>>

\* Mutant of UpdateFromResize: the image the result was made from is not
\* compared with the one that is stored now.
UpdateFromResizeAnySource(job) ==
  LET k == <<job.name, job.geom>> IN
    IF scaled[k] = "absent"
      THEN UNCHANGED <<scaled, pixels, texture>>
      ELSE /\ scaled'  = [scaled  EXCEPT ![k] = IF job.quick THEN "quick" ELSE "slow"]
           /\ pixels'  = [pixels  EXCEPT ![k] = job.src]
           /\ texture' = [texture EXCEPT ![k] = "none"]

\* UpdateFromResize.  A result for a size that is absent is dropped too.
UpdateFromResize(job) ==
  LET k == <<job.name, job.geom>> IN
    IF source[job.name] # job.src \/ scaled[k] = "absent"
      THEN UNCHANGED <<scaled, pixels, texture>>
      ELSE /\ scaled'  = [scaled  EXCEPT ![k] = IF job.quick THEN "quick" ELSE "slow"]
           /\ pixels'  = [pixels  EXCEPT ![k] = job.src]
           /\ texture' = [texture EXCEPT ![k] = "none"]

HandleResized ==
  /\ batch # <<>> /\ Head(batch).kind = "resized" /\ batch' = Tail(batch)
  /\ UpdateFromResize(Head(batch).job)
  /\ UNCHANGED <<source, content, messages, jobs, resizerVars, serverVars, quit>>

\* Mutant of GetImage: a resize is queued until there is a blob.
GetImageAgain(n, g) ==
  /\ quit = "no" /\ batch = <<>> /\ source[n] # 0
  /\ \/ /\ scaled[<<n, g>>] \in {"absent", "wanted"} /\ Len(jobs) < 4
        /\ scaled' = [scaled EXCEPT ![<<n, g>>] = "wanted"]
        /\ AddJob(Job(n, source[n], g, TRUE))
        /\ UNCHANGED texture
     \/ /\ scaled[<<n, g>>] \in {"quick", "slow"} /\ texture[<<n, g>>] = "none"
        /\ texture' = [texture EXCEPT ![<<n, g>>] = scaled[<<n, g>>]]
        /\ UNCHANGED <<scaled, jobs, resizer>>
  /\ UNCHANGED <<source, content, pixels, batch, messages, work, serverVars, quit>>

\* GetImage, after the messages of the frame: an image that is drawn at a new
\* size gets an entry and a job, and a blob gets its texture.  The calls that
\* find a texture, or an entry without a blob, change nothing.
GetImage(n, g) ==
  /\ quit = "no" /\ batch = <<>> /\ source[n] # 0
  /\ \/ /\ scaled[<<n, g>>] = "absent"
        /\ scaled' = [scaled EXCEPT ![<<n, g>>] = "wanted"]
        /\ AddJob(Job(n, source[n], g, TRUE))
        /\ UNCHANGED texture
     \/ /\ scaled[<<n, g>>] \in {"quick", "slow"} /\ texture[<<n, g>>] = "none"
        /\ texture' = [texture EXCEPT ![<<n, g>>] = scaled[<<n, g>>]]
        /\ UNCHANGED <<scaled, jobs, resizer>>
  /\ UNCHANGED <<source, content, pixels, batch, messages, work, serverVars, quit>>

------------------------------------------------------------------------------
(* cleanup, on the draw thread, when 'q' is pressed between two frames *)

\* bRunning is set to false, Abort notifies, without the mutex, and exit ends the
\* process.  No frame follows.  Nobody joins the resize thread: exit destroys
\* both queues whatever step it is in, so none of its steps counts after that.
Quit ==
  /\ batch = <<>>
  /\ \/ quit = "no" /\ quit' = "begun" /\ UNCHANGED resizer
     \/ /\ quit = "begun" /\ quit' = "aborted"
        /\ resizer' = IF resizer = "waiting" THEN "looking" ELSE resizer
     \/ quit = "aborted" /\ quit' = "exited" /\ UNCHANGED resizer
  /\ UNCHANGED <<drawVars, messages, jobs, work, serverVars>>

------------------------------------------------------------------------------
(* Messages of the tally servers, from their threads.  Those that come after *)
(* the last frame are left out: nobody takes them.                           *)

SendStore(n, c) ==
  /\ quit = "no" /\ stores < MaxStores /\ stores' = stores + 1
  /\ messages' = Append(messages, [kind |-> "store", name |-> n,
                                   src |-> stores + 1, content |-> c])
  /\ UNCHANGED <<drawVars, jobs, resizerVars, clears, quit>>

SendClear ==
  /\ quit = "no" /\ clears < MaxClears /\ clears' = clears + 1
  /\ messages' = Append(messages, [kind |-> "clear"])
  /\ UNCHANGED <<drawVars, jobs, resizerVars, stores, quit>>

HandleMessage == HandleStore \/ HandleClear \/ HandleResized
ResizeThread == quit # "exited" /\ (Look \/ EndLoop \/ Wait \/ Resized \/ Post)
Draw == \E n \in Names, g \in Geoms : GetImage(n, g)
Servers == (\E n \in Names, c \in 1 .. stores + 1 : SendStore(n, c)) \/ SendClear

Next == TakeMessages \/ HandleMessage \/ ResizeThread \/ Draw \/ Quit \/ Servers

Spec == Init /\ [][Next]_vars

\* The draw thread draws frame after frame and handles all its messages in
\* each; the resize thread runs whenever it is not waiting.  Nobody has to
\* press a key, and once somebody has, nothing is promised any more.
FairSpec ==
  Spec /\ WF_vars(TakeMessages) /\ WF_vars(HandleMessage) /\ WF_vars(ResizeThread)

------------------------------------------------------------------------------
(* Properties *)

\* Every variable has its type.
TypeOK ==
  /\ source \in [Names -> Sources \cup {0}]
  /\ content \in [Names -> Sources \cup {0}]
  /\ scaled \in [Names \X Geoms -> {"absent", "wanted", "quick", "slow"}]
  /\ pixels \in [Names \X Geoms -> Sources \cup {0}]
  /\ texture \in [Names \X Geoms -> {"none", "quick", "slow"}]
  /\ batch \in Seq(Messages) /\ messages \in Seq(Messages) /\ jobs \in Seq(Jobs)
  /\ resizer \in {"looking", "sleepy", "waiting", "resizing", "posting", "ended"}
  /\ work \in Seq(Jobs) /\ Len(work) <= 1
  /\ resizer \in {"resizing", "posting"} <=> work # <<>>
  /\ stores \in 0 .. MaxStores /\ clears \in 0 .. MaxClears
  /\ quit \in {"no", "begun", "aborted", "exited"}

InSeq(x, s) == \E i \in 1 .. Len(s) : s[i] = x

\* A job that has been queued and whose result has not been handled
Outstanding(job) ==
  \/ InSeq(job, jobs) \/ InSeq(job, work)
  \/ InSeq([kind |-> "resized", job |-> job], messages)
  \/ InSeq([kind |-> "resized", job |-> job], batch)

\* "Impossible happened, data is created before job is scheduled": a result
\* for the image that is stored now always finds its entry, however the image
\* was replaced, cleared and stored again while the resize ran.
JobHasEntry ==
  \A n \in Names, g \in Geoms, q \in BOOLEAN :
    source[n] # 0 /\ Outstanding(Job(n, source[n], g, q)) => scaled[<<n, g>>] # "absent"

\* "Refuse to do this if our image has changed since then": what is kept for
\* an image, at whatever size, was made from the image that is stored now, and
\* a texture in use was made from the blob that is kept.
PicturesAreCurrent ==
  \A k \in Names \X Geoms :
    /\ pixels[k] = IF scaled[k] \in {"quick", "slow"} THEN source[k[1]] ELSE 0
    /\ texture[k] # "none" => texture[k] = scaled[k]

\* The resize thread does not sleep on a queue that has work for it.
NoLostWakeup == resizer = "waiting" => jobs = <<>>

\* "When images are scaled to a given size they are first scaled using a quick
\* algorithm [...] Once an image has been scaled to a particular size, PiClock
\* will cache the scaled image until that image is replaced, CLEARIMAGES is
\* sent, or the program quits" (TallyProtocol.md): with its threads and both of
\* its queues, in which results cross with new images, the scaling of images
\* looks like a cache that changes in single steps (refinement of PictureCache).
Cache == INSTANCE PictureCache
           WITH Versions <- Sources, image <- source, quality <- scaled, madeFrom <- pixels

IsPictureCache == Cache!Spec

\* "They are then scheduled to be re-scaled slowly in the background": a size
\* that was asked for gets its slow pixels in the end, unless its image is
\* replaced or cleared or the program ends.
EventuallySharp ==
  \A n \in Names, g \in Geoms :
    scaled[<<n, g>>] # "absent" ~> scaled[<<n, g>>] \in {"slow", "absent"} \/ quit # "no"
=============================================================================
