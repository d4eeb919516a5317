# A verification of PiClock

PiClock is a studio clock: it draws clocks and tally indicators on a screen, and
takes what to draw from *tally servers* over TCP (`TallyProtocol.md`), from GPIs,
or from a file. This directory holds TLA+ models of the parts in which threads,
timers and messages meet, TLC configurations that check them on small instances,
and TLAPS proofs of the properties that matter most for every instance.

All references are to the repository's files.

## 1. The system

### Threads

| thread | code | what it does |
|---|---|---|
| draw thread | `nvg_main.c`, `piclock.cpp` `DrawFrame` | frame after frame: takes the queued messages, updates the display state, recalculates what has changed, tells the servers the GPIs, draws |
| one thread per tally server | `control_tcp.cpp` `tcp_thread` | makes a client, resolves, connects, runs its io_context until the session ends, waits, tries again |
| resize thread | `imagescaling.cpp` | scales images in the background, at the lowest priority |
| NTP thread | (a submodule that is not in this tree) | status of the time synchronisation |

### Components, their state and operations

| component | state | operations | what makes it correct |
|---|---|---|---|
| TCP client (`async_tcp_client.cpp`) | socket, input buffer, `queue_tx`, `tx_running`, two timers, `stopped_` | `start`, `stop`, `queue_write_line`, and the io_context's handlers | one write at a time; no line lost or reordered on a live connection; a dead connection is noticed; nothing starts after `stop` |
| server threads (`control_tcp.cpp`) | `conns`, `bComms`, `retryDelay`, `lastGpioValue` | `tcp_thread`, `handle_tcp_message`, `update_tcp_gpis` | bounded back-off; every server hears of the GPIs; the comms flags tell the truth |
| message queue and parser (`piclock_messages.cpp`) | `m_queue` | `Add`, `Get`, `ClockMsg_Parse` | every acknowledged command is handled once, in order |
| display state (`overallstate.cpp`, `regionstate.cpp`, `tallydisplays.h`) | `Regions`, `Images`, `FontData`, `TextSizes`; a region's place, clocks, boxes and indicators | one handler per command, `RecalcDimensions`, `RecalcTexts` | what is drawn with (boxes, text sizes) fits what is drawn |
| indicators (`tally.cpp`, `countdownclock.cpp`) | text, label, colours, target time | `SetLabel`, `Text`, `Invert` | a replacement keeps the label; digits and flashing tell the time that is left; the text keeps to its box |
| image scaling (`imagescaling.cpp`) | `Scaled` maps, `ResizeQueue` | `GetImage`, `UpdateFromResize`, `Add`, `Get` | pictures belong to the stored image and get sharp |
| text measuring (`nvg_helpers.cpp`) | heights of fonts, two generations of clipped texts | `MaxPointSize`, `TextHeight`, `TextClip`, `RotateTextClipCache` | the largest size that fits, found in the end; nothing remembered of a font that has gone |
| GPIO (`gpio.cpp`, `piclock.cpp`) | `gpis`, `old_gpis` | `read_gpi`, `write_gpo`, the commands of inputs and of the initial file | indicators follow the inputs, also from the first frame on |
| clock faces (`analogueclock.cpp`, `regionstate.cpp`) | none: drawn from the frame's time | `Draw`, `DrawFace_Vector` | hands, dashes and digits agree and never jump |
| settings, window, NTP thread, packaging | | | not modelled, see section 7 |

### Interactions

```
 tally server <--TCP--> client --handle_read--> handle_tcp_message
                          ^  ^                    |   |       |
              replies ----+  |       msgQueue.Add |   |       | *pbComms
              (queue_tx)     |                    v   |       v
                   GPI lines |   +---------- MessageQueue  bComms
                             |   | Get                |       |
                     update_tcp_gpis <--- DrawFrame --+-------+
                                            |    ^
                              ResizeQueue::Add   | msgQueue.Add
                                            v    |
                                        resize thread
```

What is hard about it: `queue_write_line` is called by two threads on a client
whose other operations belong to a third party, the io_context; completion
handlers, cancelled timers and aborted operations run in orders nobody wrote
down; GPI values are re-sent through two unsynchronised integers; messages
become visible to the draw thread before the flag that protects them; resizes
finish after their image has gone; recalculation is driven by flags that
some twenty handlers must remember to set; caches outlive the fonts they were
filled with; searches and roundings have boundaries that only a large text, a
midnight or the end of a countdown reaches.

## 2. The modules

| module | models | shape |
|---|---|---|
| `ReplyChannel` | what a connection promises about the lines queued on it | abstract specification |
| `TcpClient` | `class client`, the retry loop of `tcp_thread`, the replies of `handle_tcp_message` | one action per handler, plus the kernel, the clock, the server and the draw thread |
| `GpiFeedback` | `update_tcp_gpis` against the CRYPT handler and `conns` | one action per access to shared state |
| `CommsClear` | `bComms` and `msgQueue` against the frames; the clearing of tallies | one action per access; ages instead of clock readings |
| `PictureCache` | what `TallyProtocol.md` promises about the scaling of images | abstract specification |
| `ImageScaling` | `ScalingImage`, `ResizeQueue`, `MessageQueue` | one action per critical section and per message |
| `Regions` | `HandleClockMessages`, `RegionState`, `RecalcDimensions`, `RecalcTexts` | one action per command, and one for the rest of the frame |
| `PointSizes` | `RecalcTexts`' choice of sizes, `MaxPointSize` | one action per turn of a loop |
| `Fonts` | `FontData` and nanovg's fonts, `updateFont`, `TextHeight`, `TextClip` and its cache | one action per command, and two for the frame |
| `LocalCommands` | the initial file, and the commands of inputs (`tally_mode` 5) | one action per line, message, pin and command |
| `Clocks` | `CountdownClock`, `AnalogueClockState::Draw`, the digital clock | one action per frame; the times and angles are operators |
| `*Proofs` | the proofs about the module they are named after; `InputsProofs` is about `GpiFeedback` and `LocalCommands` | |
| `MC*` | values and bounds for TLC | |

The modules cut the system along its shared state, and each has all the threads
that touch its part. They overlap in a few operations: `tcp_thread`'s rounds are
sessions of `TcpClient`, `StoreClient` in `GpiFeedback`, and
`ResetFlag`/`Connect`/`Disconnect` in `CommsClear`; `queue_write_line` is an
action's part in `TcpClient`, and "the server is told" in `GpiFeedback`, which
`ReplyChannel` justifies as long as the client is alive. `Regions` says when
`RecalcTexts` runs and what it depends on, `PointSizes` what comes out of it;
`Regions` has stored fonts as one value, `Fonts` has them name by name.

### TcpClient

The io_context runs one handler at a time, so a handler, with all the functions it
calls, is one action: `HandleLine` is `handle_read`, `handle_tcp_message` and
`start_read`. An asynchronous operation is a variable that is `"none"`,
`"pending"`, or holds the result its handler is ready with; closing the socket
turns what is pending into an error (`Aborted`). A wait on a timer is a count:
moving the expiry or cancelling makes the waits ready. `write_deadline_`'s wait
is one variable because it is `check_write_deadline` only the first time, and
`check_deadline` after that. Ready handlers run in any order, which includes the
order of the io_context's queue.

A line is the kind of line (`PING`, `CRYPT`, a command that is understood, one
that is not, one that makes the parser throw). The transmit buffer of a write
that does not finish at once may be `Garbage` when it is sent: `start_write`
passes a temporary.

### GpiFeedback

`lastGpioValue` is a `volatile int` and `last_gpi_value` a plain one; both are
written by two threads. They are modelled as atomic, which is what the build
produces for an aligned int; the order of the accesses is the program's. A
client the draw thread still holds after it has been replaced is `stale`: what
becomes of it is not followed. `told` is the last GPI line since the last AUTH
line, since a server that has just authenticated the client knows nothing yet.

### CommsClear

Each server sets an indicator of its own, so that it can be told whose message was
lost; of its messages only the newest matters. A frame takes the time, then the
messages, then reads the flags one by one. Times are ages in whole seconds that
stop at `Ancient`, beyond every comparison; `tm_last_comms_good` starts at the
epoch, which is `Ancient`. Region 0, whose status box does the work, is assumed
to exist.

### ImageScaling

`scaled` is the map `Scaled` of each image: no entry, an entry without a blob, a
quick or a slow blob. Sources are numbered by the STOREIMAGE message they came
with, which is what comparing the shared pointers does. Sizes are the ones the
map tells apart.

`Quit` is `cleanup`, at any moment between two frames: `bRunning` becomes false,
`Abort` notifies, and `exit` ends the process. The resize thread's test and its going to
sleep are two steps (`Look`, `Wait`), because `Abort` does not take the mutex and can
come between them; `Add` takes it and cannot. `exit` waits for nobody, so the thread may be
at any of its steps then, and none of them counts afterwards.

`PictureCache` has neither queues nor threads: an image is stored or all are
cleared, and a size goes from absent to wanted, quick and slow, one at a time.
`ImageScaling` implements it with its own `source`, `scaled` and `pixels`; everything
else, from the asking to the result, is a stutter.

### Regions

A region keeps what the recalculations depend on. `laidOut` is the extent the
boxes were last computed from, `measured` the set of items the sizes of a zone
were last computed from; both stand for the numbers that come out, which are not
computed. `sizeChanged` joins `bSizeChanged` and `bRecalcTextsNext`. Both extents and items
contain the `Face` they were measured in, which is what the name of the font in use
stands for: the built-in one, or the contents stored under it now, or nothing after
CLEARFONTS. `faces` is a history variable, all that the name has stood for since it
came into use.
`HandleMessage` handles a message at any time; `Frame` is the end of
`DrawFrame`'s first half, after which `inFrame` is false until the next message.

### PointSizes

A text is the largest size at which it fits, and a search only ever asks whether
a text fits at a size (`TooLarge`). `Double`, `Overflow`, `Bisect` and `Found` are the turns
of `MaxPointSize`'s two loops and its return; `Found` includes what `RecalcTexts` does
with the size. The int has a width of `Top`; doubling beyond it is undefined, and
`Overflow` has the two outcomes that builds produce: the negative number of an
unoptimised build, and the 0 at which the build of the Makefile stays for ever.
A text whose font cannot be found (`Endless`) has no width and no height.

### Fonts

`nvg` is what `nvgFindFont` finds. A STOREFONT of a new name adds a font, one of a
stored name has nanovg forget all fonts and load the others again
(`ResetFonts`), since it can neither remove nor replace one. `heights` and the
two clip caches remember for which font an entry was made by its value; nothing
clears them when a font changes, so that `reused` names the fonts whose contents
have changed or gone, for which entries may be wrong.

`ClipLength` is `TextClip`'s two loops in closed form: the first length from the
guess upwards that is not too short, and the last one from there downwards that
is not too wide. Characters of a font are equally wide; the guess and both loops
then depend on nothing but length, width and room.

### LocalCommands

The only module about the time before the first frame: `HandleLine` is a line of
`initial_command_file`, and an exception ends the file but not the program.
`ReadPin` is one pin of `read_gpi`, between which inputs change; the pins come in any
order, since they are operands of `|`. `RunCommand` is a command of an input whose level
is not that of the last frame: it is parsed and queued, which the next frame's
`HandleMessage` applies. `NextPin` and `PinsDone` are the loop around it. The names of the
initial states and steps start with `Local`, because `InputsProofs` extends
`GpiFeedback` as well.

### Clocks

Times are counted in frames, of which `Ticks` make a second; an angle is a count of the
frames a hand takes from the top. `Text` and `Invert` are `CountdownClock`'s,
`SecondHand`, `MinuteHand`, `HourHand` and `Whiteness` are `AnalogueClockState::Draw`'s.
`measured` is the length for which the size of the countdown's text was found, by
SETCOUNTDOWN, when the number of characters differs, or at midnight; a number has a
digit more for each of `Powers` it reaches.

## 3. The runs

| run | bounds | shows |
|---|---|---|
| `MCTcpClient.cfg` | 2 endpoints, 2 lines of the server and 1 GPI line per session, sessions without bound, delays up to 4 | `TypeOK`, `OneWriteInFlight`, `NoStrandedLine`, `EveryWaitIsTimed`, `BackoffBounded`, `StoppedStartsNothing`, `QuickRetryAfterSuccess`; `LinesReachServerInOrder`, the refinement of `ReplyChannel`; under fairness, `SilentServerEndsSession` |
| `MCGpiFeedback.cfg` | 2 servers with 2 clients and 2 CRYPT lines each, 2 changes of the inputs | `TypeOK`, `SentIsTold` and, under fairness, `EventuallyTold` |
| `MCCommsClear.cfg` | 2 servers, 2 seconds of grace, frames of up to 2 seconds; sessions and messages without bound | `TypeOK`, `StaleTalliesGone`, `LaterIsKept` and, under fairness, `EventuallyCleared` |
| `MCImageScaling.cfg` | 1 image, 2 contents, 2 sizes, 2 stores, 1 clear, an end at any moment | `TypeOK`, `JobHasEntry`, `PicturesAreCurrent`, `NoLostWakeup`; `IsPictureCache`, the refinement of `PictureCache`; under fairness, `EventuallySharp` |
| `MCRegions.cfg` | 2 regions; the commands that change texts, zones and images, or (`sent`) those that change place, clocks and display, or those that store, clear and use fonts | `TypeOK`, `DimensionsFresh`, `TextSizesFresh` |
| `MCPointSizes.cfg` | an int of 5 bits; every sequence of up to 3 texts of 2 zones | `ZoneSizeIsCommon` and, under fairness, `RecalcReturns` |
| `MCFonts.cfg` | 2 names, 2 fonts and garbage, 2 labels; messages and frames without bound | `NanovgHasFontData`, `FontsInUseFound`, `HeightsFresh`, `LabelsFit` |
| `MCLocalCommands.cfg` | 3 inputs that change at any time, a file of 5 lines, with a wrong one, or of 2 | `FollowsInputs`, `FileCannotStop` and, under fairness, `SettledInputsShown` |
| `MCClocks.cfg` | 20 frames a second, 3 seconds around each of 9 turnovers, 10 countdowns | `HandsNeverJump`, `DashesFollowHand`, `DigitsAgree`, `FlashesFromLimit`, `FitsUntilTarget` |
| `MCSearchEnds.cfg`, `MCWireCarriesLines.cfg`, `MCKeptWhileConnected.cfg` | as small as the case allows | the disagreements of section 4 |

Why the bounds are enough. Two endpoints give a failed attempt followed by another;
two lines and a GPI line give a reply queued during a write and one from another
thread. Two slots of `conns` are what it takes for an update to be between them,
and two clients for one to be replaced while it is held. Two servers are needed
for one to go down as another comes up during the scan of the flags; the grace only has to
exceed one frame. Two stores and a clear are what it takes for a late result to
meet another image, no image, or the same one again. Two regions cover the
region of a command, another one, one to be created and one to be removed; the
three sets of commands meet only in `Frame`, and two contents of a font are one in use
and one that replaces it. Three
texts of two zones have a zone in which another's text comes between; five bits
have searches that end in doubling at each power of two, with one, two and three
bisections. Two names have one replaced while the other is in use; the labels
fit whole, cut with dots, cut without, and not at all, in one font or another.
Three inputs have an indicator of its own each, one that two of them set, and a
wrong command. The turnovers are the ends of a minute, an hour, a half and a
whole day, a countdown's target, and a day and a hundred hours (where its text
grows) on both sides of it; nothing happens in between but the same second again.

Where the theorems of section 5 cover a property, the bounds do not matter.

### Fairness

* `TcpClient`: the io_context runs every handler that stays ready, time reaches a
  deadline that stays set, `sleep` and `resolve` return. Nothing is assumed of
  the kernel or the server: connects and writes may hang for ever and lines
  never come, which is what the deadlines are for.
* `GpiFeedback`, `CommsClear`: a frame follows every frame, a line that was read is
  handled to its end, time passes.
* `ImageScaling`: the same of the frames; the resize thread runs whenever it is not
  waiting. It has the lowest priority (`SCHED_IDLE`), so this says that the
  machine is not busy for ever. Nobody has to press a key (`Quit`); once somebody has,
  nothing is promised, since `exit` comes at once.
* `PointSizes`: the draw thread goes on with the recalculation it is in.
* `LocalCommands`: main goes on to the frames, and a frame follows every frame.
  Inputs need never change nor settle.
* `Regions`, `Fonts` and `Clocks` have safety properties only.

`CHECK_DEADLOCK FALSE` stands in `MCImageScaling.cfg` and `MCGpiFeedback.cfg`: with
the bounded inputs used up, all threads are at rest, as they should be.

## 4. What disagrees with the code

Three runs check a statement of the documentation or of a comment that the code
does not keep; TLC's counterexamples are short.

* **`SearchEnds`.** "Can go <=0 by overflowing 32-bit int" is why the search for a
  size is to end for a text that never gets too large. With the Makefile's `-O4` it
  does not: the overflow is undefined, the compiler drops the test, and the draw
  thread stays in the loop. `FontsInUseFound` says when a text has no font: after
  CLEARFONTS, and for a font that was not one.
* **`WireCarriesLines`.** `async_write` gets the storage of a temporary string.
* **`KeptWhileConnected`.** The first command of a session is queued for the draw
  thread before the comms flag is set. A frame in between shows nothing of it: it
  clears the tallies, the new one with them, and the ACK is sent all the same.
  `LaterIsKept` is the part that does hold, and is proved.

Seen while modelling, and not checked by a run:

* *Client.* Writes have no deadline: a session's only `check_write_deadline` runs at
  once and does not wait again, and a server that keeps sending and does not
  read keeps the session, with the replies piling up in `queue_tx`. A GPI line
  queued while the client is connecting is written at once; when the endpoint
  fails, the aborted write stops the client although the next endpoint is
  being tried. The TCP threads start before the initial file is handled.
* *GPIs.* `update_tcp_gpis` gives up at the first empty slot of `conns`, although it
  has noted the value as sent (`control_tcp.cpp:149`; `cut` in `GpiFeedback` takes this
  out of its properties). Nobody catches the exception of a wrong `gpi_<n>` command
  (`piclock.cpp:313`), and one wrong line drops the rest of the initial file.
* *Fonts.* STOREFONT "stores (or updates) a font" (`TallyProtocol.md:158`), and "PiClock will
  find the maximum font size that can still display the text on all indicators"
  (line 330). But neither a STOREFONT of other contents under the name in use nor
  CLEARFONTS sets `m_bRecalcReqd` or `bSizeChanged` (`overallstate.cpp:196-221`): texts are
  drawn in the new font with the sizes of the old one, in boxes laid out with its
  heights, until another command or midnight has them computed again. With `Face` in
  place of `\E face \in faces`, `TextSizesFresh` and `DimensionsFresh` are false: TLC stores
  and uses a font, draws a text, and stores other contents. As they stand they say
  what does hold: all but the face is as it is now, and the face is one of `faces`.
* *Dashes.* They are white a fifth of a second into a minute (`analogueclock.cpp:65`),
  where the comments have them "fade over half a second" (line 64) or "slowly out over
  first second" (line 57). `DashesFollowHand` leaves the speed open.
* *Texts.* STOREIMAGE and CLEARIMAGES turn indicators into text or back without the
  text sizes being recalculated (`TextSizesFresh` speaks of texts that name no
  image). CLEARFONTS leaves the names of the fonts in use. `fontHeights` keeps the height
  of a name's first contents for ever (`reused` in `Fonts`). A countdown that has
  been over for a day or a hundred hours outgrows its box until midnight
  (`ranOut` in `Clocks`). A label whose room is negative has `TextClip` guess a length of
  almost 2^64; a label's first character is drawn whether it fits or not. The
  names of font size zones of regions 1 and 11 can coincide
  (`piclock_messages.cpp:260`).
* *Regions.* A command without a region number also resets the place of region 0
  (SETLOCATION's documentation speaks of the region count only). After
  SETREGIONCOUNT:0 and a command for region 1 there is no region 0 and thus no
  status line. An empty name of a zone in SETCLOCKS ends the parsing of the
  clocks (`piclock_messages.cpp:222`); the legacy `analogue_clock_local` never sets
  the analogue clock's zone (`regionstate.cpp:220`). The prefix of the digital
  clocks depends on all regions, but only the region that changed is laid out
  again (`piclock.cpp:238`). GPI_MODE 1 does not have its texts measured if the
  region has two rows already (`piclock.cpp:346`).
* *Images.* The copy assignment that replaces an image (`overallstate.cpp:203`) does not run
  the old one's destructor, so its textures are never deleted.
* *End.* `cleanup` aborts the resize thread and exits without joining it
  (`piclock.cpp:133`): `exit` destroys `msgQueue` and `ResizeQueue`'s queue, mutex and condition
  while the thread may be asleep, in `DoResize`, or about to `Add` its result. `Abort` notifies
  without the mutex, so that a join would not be enough: a thread between its test
  and its sleep would sleep on. Nothing is checked of what the thread meets then.

## 5. What is proved

TLAPS checks these for every value of the constants that satisfies the modules'
assumptions (`ClientAssumption`, `GpiAssumption`, `CommsAssumption`,
`SizesAssumption`, `FontsAssumption`, `ScalingAssumption`, `RegionsAssumption`,
`ClocksAssumption`, `LocalAssumption`: counts are natural numbers, there is at least one endpoint or
host where the code needs one, the unsent value is no input, built-in names are
not stored ones, the room of a label is not negative, commands have arguments of
their kinds, a text is not also a countdown, and a second has a multiple of 20
frames, which divides 1000). `MaxStores` and `MaxClears` bound only what is sent,
and the theorems hold for all of their values.

**TcpClientProofs.** `Invariance` is the inductive invariant: the types; that a
handler that is ready has its operand (`OpsInv`); that `txRunning` mirrors the one
write or its ready handler (`WriteInv`); that a live, running client has a
`check_deadline` waiting or ready (`TimerInv`); and that a stopped client has a
closed socket and nothing pending (`StoppedInv`). None of the properties is
inductive alone: that a queued line has a handler to come depends on what every
handler leaves behind, and that no second write starts depends on `txRunning`
being set exactly while one is in flight. From it follow `TypeCorrect`,
`WritesAreSingle`, `LinesAreSent`, `WaitsAreTimed`, `SuccessResetsDelay`,
`StopIsFinal`; `DelayIsBounded` has its own small induction.
`ClientIsReplyChannel` maps every step to one of `ReplyChannel`'s or to a stutter,
with the line being written and the queue as the lines owed.

**InputsProofs.** Of `GpiFeedback`, `SentStatesAreTold`. `SentIsTold` is about the moments between two
updates; the invariant follows an update slot by slot. Its heart is
`PassedKnows`: at a slot the update has passed, the client of an authenticated
server has the value that counts as sent, because a server becomes authenticated
only by a CRYPT handler whose last write makes nothing count as sent.
`KnownIsTold` ties the client's value to what its server was told, and
`StaleIsUnsent` covers the client that is replaced while it is held.

Of `LocalCommands`, `CommandsFollowInputs` and `OnlyInputsStop`, for any number of inputs,
any commands and any file. `FollowsInputs` is about the frames; the invariant
(`LocalInvariance`) follows a frame from pin to pin: what only one input sets will be
shown as that input was read now, for the pins passed (`PinsPassed`), as it was read
before, for those to come (`PinsToCome`), and for the one at hand as its commands so far
leave it, or as before while they have not touched it (`PinAtHand`). Three lemmas carry it:
of a queue and what is shown, the last message for a cell decides (`AddSets`,
`AddKeeps`), and handling the first message changes nothing of that (`HandleKeeps`).

**CommsClearProofs.** `StaleTalliesAreGone` from three facts about ages: a set flag
means the servers are not quiet, the draw thread's time of good comms is no
later than the truth, and a frame knows its own age. `LaterTalliesAreKept` from
`LaterIsSeen`: a message that found its flag set keeps it set while its session
lasts, so the scan of any frame that has it sees it. The proof found what the
runs did not say: the first fact needs at least one host, since with none
`bAnyComms` is true of nobody.

**PointSizesProofs.** `ZonesGetCommonSize`, for every sequence of texts and every
width of the int. `SearchInv` has what fits on one side of the search's bounds and
what does not on the other: it is what excludes an overflow for a text that can
be measured, and makes the search end with its largest size (`FoundIsLargest`).
`ZonesInv` says what a zone has of the texts so far; it needs that 0, which reads
as "no size yet", is never the size of such a text.

**FontsProofs.** `LibraryHasFontData`, `FontsAreFound`, `HeightsAreFresh` and
`LabelsAlwaysFit`. What the library finds is a function of what is stored
(`NanovgHasFontData`), hence replacing one font and loading the rest again changes
no other name; `GarbageIsReused` covers contents that are no font. The caches need a
fact their properties do not state: an entry was made with a font that was
there (`HeightsMeasured`, `CachesFresh`), since storing a new name would otherwise
change what its entry should be. `ClipLengthFits` is about `TextClip`'s arithmetic
alone, for every width, length and room: that the upward loop ends at most at
the text's length, and that the result fits while one more character would not
(or is one character).

**ImageScalingProofs.** `CurrentPictures`, `ResultsHaveEntries`, `WakesUp`, and with
`ScalingIsPictureCache` the refinement of `PictureCache`, for any number of images, sizes and messages. Four of the model's
sequences are views of two queues: `Mail`, what the draw thread has not handled,
and `Todo`, what the resize thread has not finished. `FlowStep` proves that every
step appends to one of them, takes the first of one, or moves the first of `Todo`
to the end of `Mail`; what follows speaks only of these moves. None of the
properties is inductive. That a result never updates a picture of another image
needs `SourcesAreOld` and `StoresAreNew`: a pending store's number is higher than
that of everything stored or under way, so that handling it makes all of that
out of date, and no job of the new image can be under way before its own entry
is made (`HasEntry`). That pictures get better one step at a time needs an order
over both threads: a slow resize is queued behind the quick one of the same
picture and stays behind it on the whole way back (`SlowIsLast`), hence no quick
result is left when the slow one has arrived (`SlowIsFinal`), and the quick one
was not lost before it (`QuickIsFirst`). A result is then one step of the cache
or none (`ResultImproves`). `WakesUp` is about `Add` and the
thread's sleep.

**RegionsProofs.** `FreshDimensions` and `FreshTextSizes`, for all regions, commands,
zones and images. The properties speak of the moment after a frame; the
invariant speaks of every moment in between. A region's boxes are up to date or
its `recalc` is set (`RegionsUpToDate`), which each handler keeps; the texts that
would be drawn now are the measured ones or `sizeChanged` is set (`TextsKnown`); and
after a frame neither flag is set (`NothingWaits`). What makes `TextsKnown` hard to
keep is that the texts of a zone are a function of all regions: `SameDrawn` says
that they stay when every region keeps what it shows (`SameText`), and the proof
of a handler shows that it does, or that it has reported the change. The region
0 that a frame creates when there is none (`CreateRegion`) reports nothing and
need not: `NewRegionFacts` says that a new region shows no text. STOREFONT and
CLEARFONTS report nothing although they should, which is why boxes and texts are
up to date for some face of `faces` (`Computed`, `FitIn`): those two commands only add to
it, and SETFONTS, which starts it anew, does report.

**ClocksProofs.** `HandsMoveOn`, `DashesFollowTheHand`, `DigitsTogether`, `FlashesWhenDue` and
`CountdownFits`, for every time since 1970, every countdown and every number of
frames, where TLC looks at three seconds around nine turnovers. What is shown is
computed with `/` and `%` by the number of frames, a product the solvers cannot
reason about; `DivUnique`, `DivGrows` and `Parts` replace it by a quotient and a rest with their
bounds. `EvenHands` then says that the angles, which the code adds up from hours,
minutes and seconds, are the time since the turn's start, and `RestingHand` how
a hand that rests and catches up differs from that. `ReadingOfText` inverts the
formatting of a countdown. `CountdownFits` alone needs an invariant: `Fits` is the
property up to the moment the countdown is over, which a frame keeps because a
text never gets longer before its target (`TextShrinks`), also when the days'
field disappears.

Every safety and action property of a run is thus stated by a theorem. Only
model-checked is all liveness (`SilentServerEndsSession`, `EventuallyTold`,
`EventuallyCleared`, `EventuallySharp`, `RecalcReturns`, `SettledInputsShown`): fairness speaks of which actions are enabled, which is beyond the
prover. What can be proved is that nothing stands in its way. `AlwaysGettingSharper`
and `SearchAdvances` are that half of `EventuallySharp` and `RecalcReturns`: the resize that
a picture lacks is always under way (`SlowFollows` is the invariant: a quick job leaves
the resize thread only when its slow one is queued), and each turn of the search
leaves less to do. `WaitsAreTimed`, `SentStatesAreTold`, `StaleTalliesAreGone` and
`CommandsFollowInputs` are that for the others.

## 6. Assumptions about the environment

* Boost.Asio: handlers of one io_context run one at a time, by `run()`; closing a
  socket completes its operations with an error; moving a timer's expiry cancels
  its waits; a cancelled wait's handler still runs. (A read on a closed socket whose
  buffer still has a line may end with the line in the model, and with an error in
  Boost.Asio; no property tells the two apart.) A ready
  `check_write_deadline` runs within five seconds (`WriteDeadlineExpires`).
* Mutexes and condition variables as in the C++ standard, with no spurious wake-up
  needed for progress.
* `bool` and `int` accesses of two threads are atomic (they are data races in the
  program's text).
* The drawing library and ImageMagick do what they are asked. nanovg finds the first
  font of a name, keeps a pointer to its contents, and takes none that is not one;
  the characters of a font are equally wide.
* The system's clock is not set while `Clocks` watches it, and the zone is UTC.

## 7. Not modelled

* The GPIO device's registers and `gpio_init`; the NTP thread, whose code is in a
  submodule; the window loop, the reading of options and the packaging: device
  or library calls without state that outlives a frame, or code that runs once,
  in order.
* Of the frame: the screen saver's offsets, the rotation of the display, the two
  fixed indicators of GPI_MODE 1, and drawing itself (boxes of hands and faces,
  the numbers on a face), which keeps nothing.
* Of the parser: the text of arguments (`get_arg`, the region prefix, base64,
  colours). The modules start from parsed commands, or from which outcome the parser has.
* Of the server threads: the digest of the AUTH line, MAC addresses, `host:port`.
* SETPROFILE, and the geometry of boxes.

PROJECT.json lists each part.

## 8. The plan

Done in this order: `TcpClient` with `ReplyChannel` (the most concurrent code, and
all else depends on it), `ImageScaling`, `Regions`, `GpiFeedback`, `CommsClear`; then
`PointSizes`, `Fonts`, `LocalCommands` and `Clocks`; proofs for all of them, with every
safety property of the runs among the theorems.

Next:

1. *Model.* Region 0's existence in `CommsClear` (a frame without a status box never
   notices the loss); the digital clocks' prefix in `Regions`' extent; the zones of the
   legacy SETCLOCKS; GPI_MODE 1; the parser's outcomes in one place, with
   `TcpClient`, `Regions` and `LocalCommands` using it. Each comes with the change to
   the proof about its module.
2. *Prove.* `GpiFeedback` and `CommsClear` against an abstract specification of the
   frame loop they share, in the way of `PictureCache`.
