# hyprtoolkit in TLA+

Specifications of the parts of hyprtoolkit whose correctness depends on the order in which things happen, the TLC configurations that check them on small instances, and theorems about them that TLAPS proves for every value of the constants.

Paths below are relative to the repository, `X.cpp:12` means line 12. In `PROJECT.json` the same paths start with `src/`.

## 1. The system

hyprtoolkit is a GUI toolkit. An application creates a *backend*, windows, and a tree of elements under each window's root. The native backend connects to a Wayland compositor and runs an event loop; the embedded backend has neither, a host calls it.

```
 application threads        resource worker            compositor            embedding host
     | addTimer, cancel,        | addIdle                 | configure, frame     | resize, render,
     | terminate                |                         | done, close, scale   | pointer, touch, keys
     v                          v                         v                      v
 +--------------- CBackend: event loop --------------+  IWaylandWindow      CEmbeddedBackend
 | m_loopStateMutex, m_timers, executor, generation  |  Window/Layer/Lock   CEmbeddedSurface
 +----------------------------------------------------+        \              /
     | timer callbacks, idle functions                     IToolkitWindow: m_needsFrame,
     v                                                     hover and keyboard focus, repositions
 deferred renders and close requests  ----------------->   |  damage
                                                           v
                              CDamageRing  <---- beginRendering/endRendering ----  COpenGLRenderer
                                                           |
                                         element tree, Positioner, images, text
```

### 1.1 Components

| Component | State | Operations | Talks to | Hard part | What makes it correct |
|---|---|---|---|---|---|
| **Event loop** `core/Backend.cpp`, `helpers/Timer.cpp` | `m_timers`, `m_terminate`, `m_loopRunning`, `m_cleaned`, executor, `m_pendingGeneration`, flags of each `CTimer` | `addTimer`, `cancel`, `updateTimeout`, `addIdle`, `cancelPending`, `enterLoop`, `terminate`, `cleanup` | every window (deferred frames, close requests), the resource gatherer's worker thread | several threads; the loop erases from `m_timers` without the mutex; teardown from any thread | no race on `m_timers`; a cancelled timer is silent; each timer is called at most once, not before its deadline, and is not lost before its call; teardown happens once, after the loop |
| **Damage ring** `helpers/DamageRing.cpp` | size, current damage, damage of the last two frames | `damage`, `damageEntire`, `setSize`, `getBufferDamage`, `rotate` | windows add, the renderer reads and rotates | buffers of different age; damage added while a frame is being made | what a frame repaints contains all that is out of date in its buffer |
| **Wayland windows** `window/IWaylandWindow.cpp`, `WaylandWindow.cpp`, `WaylandLayer.cpp`, `WaylandLockSurface.cpp` | role object, configured flag, size, buffers, frame callback, pending resize, deferred close | `open`, `close`, `setSize`, `configure`, `render`, `scheduleFrame`, event handlers | compositor, event loop (idle functions), damage ring | messages of an earlier opening; sizes both sides want to decide; frames needed while one is pending | protocol obeyed; no change of content stays off the screen; close reported exactly when asked |
| **Embedded backend and surfaces** `core/EmbeddedBackend.cpp`, `window/EmbeddedSurface.cpp` | `m_needsFrame`, frame nesting, `m_destroyRequested`, validity of surfaces | `createSurface`, `resize`, `render`, `destroy`, input entry points | host, OpenGL renderer, globals | re-entrance: a frame renders another surface, throws, or destroys the backend | globals outlive frames; a request is never lost; a destruction happens |
| **Input focus** `window/ToolkitWindow.cpp`, `window/EmbeddedSurface.cpp` | hover locks of elements, main hover element, keyboard focus, pressed flag, touches | motion, button, enter/leave, touch, focus, close, children added and removed | elements (`mouseEnter`, `mouseLeave`, `keyboardEnter`, ...) | long sequences of legal calls; elements that go while hovered, focused or touched | enters and leaves are balanced; one keyboard focus; press and release reach the same element |
| **Repositioning and layouts** `layout/Positioner.cpp`, `element/linearLayout`, `rowLayout`, `columnLayout`, `scrollArea` | position data of each element, `m_needsReposition` | `position`, `repositionNeeded`, growth, wrapping, scrolling | windows schedule, elements report sizes | requests merged while the tree changes; children hidden and shown again; limits of the last layout | every change is laid out; who asks for room and gets it is shown; content stays inside its view |
| **Popups and tooltips** `window/WaylandPopup.cpp`, `ToolkitWindow.cpp`, `element/combobox` | parent, grab, tooltip timer | open, close, configure, grab, dismiss, show | parent window, seat, timers | closed under the pointer, by four parties; a timer nobody refers to any more | pointer and popup list never name a closed popup |
| **Wayland platform and seat** `core/platforms/WaylandPlatform.cpp` | globals of the registry, focused windows, key repeat timer, text input | keyboard, pointer and text-input events, outputs | windows, event loop | a paste dispatches events inside a key handler; key repeat against release and leave | keys agree with the compositor; no repeat of a key that is up; events reach an open window |
| **Session lock** `sessionLock/WaylandSessionLock.cpp` | lock object, denied flag, surfaces | acquire, unlock, answers, output removal | outputs, lock surfaces | roundtrips that dispatch events of outputs inside one another | no lock surface is left without a close request |
| **Assets, images, text** `resource/assetCache`, `element/image`, `element/text` | weak cache, request generation, waiting flag | `paint`, `renderTex`, `postImageLoad`, `replaceData` | resource gatherer, event loop, windows | loads finish out of order and after their element | the newest request wins; every waiter is answered |
| **Text box, UTF-8** `element/textbox`, `helpers/UTF8.cpp` | text, cursor, selection | typing, moving, deleting, selecting | window focus, clipboard | offsets in bytes and in characters | offsets stay on character boundaries inside the text; every edit is reported |
| **Animation manager** `core/AnimationManager.cpp` | ticking variables | `tick`, `scheduleTick` | elements (damage), windows (frames) | an animation inside another, curves replaced on the way | no ghosts; the goal is reached on the screen |
| **Widgets** button, checkbox, slider, spinbox, progress bar, combobox, radio group | value, what the inner elements show, hover, pressed | press, release, drag, set, rebuild and commence | window input, popups | builders that commit old data; a dropdown's deferred close; handlers that change the group | what is shown is what is held; one radio button is on |
| **OpenGL renderer, GPU sync** `renderer/gl`, `renderer/sync` | bound buffer, damage, timelines | `beginRendering`, `endRendering`, draw calls | damage ring, compositor | buffer released while drawn | see damage ring |
| Palette, configuration, icons, outputs, logging, formats | files read once, copies of announcements, tables | - | - | none | - |

### 1.2 Threads and time

Only the event loop has several threads: `main` (which enters the loop), further application threads, and the worker of the resource gatherer. All window, element and focus code runs on the loop's thread; its difficulty is the order of handlers and of messages, and application code that runs inside a handler. Handlers run one at a time except where code makes a `wl_display_roundtrip`, which dispatches further events inside the handler. Real time appears as "a timer may expire at any moment".

Nothing is persisted, so there is no crash recovery. The Wayland connection is reliable and ordered; what can be lost is an event whose object the client destroyed.

The hazards found while reading, each at its line and with the properties that guard it, are listed in `PROJECT.json` (`hazards`).

## 2. The modules

| Module | Models | Checked by |
|---|---|---|
| `EventLoop` | the native event loop, its timers, idle functions, purge and teardown | `MCEventLoopTimers`, `MCEventLoopThreads` |
| `OneShotTimers` | abstract promise about timers; `EventLoop` implements it | through `EventLoop` |
| `WaylandSurface` | one toplevel, layer or lock surface together with its compositor | `MCWaylandSurface`, `MCWaylandSurfaceEarly` |
| `EmbeddedFrames` | frame requests, nested frames and destruction of the embedded backend | `MCPainting`, `MCEmbeddedFramesEarly` |
| `ImageLoading` | images, their loads and the textures they share | `MCImageLoading`, `MCImageBytes`, `MCImageSvg` |
| `InputFocus` | hover, keyboard focus, button state and touches of a surface | `MCWindow` |
| `Keyboard` | the seat's keyboard: focus, pressed keys, composition, repeat, pastes | `MCWindow` |
| `Popups` | pointer and input method over a window, its popups and its tooltip | `MCWindow` |
| `SessionLock` | outputs, the session lock and its surfaces | `MCWindow` |
| `BufferDamage` | damage ring, two Wayland buffers or the host's buffers, frames | `MCWindow` |
| `UTF8` | the walks of `UTF8.cpp` over byte strings | `MCWidgets` |
| `TextEditing` | the text box | `MCWidgets` |
| `LinearLayout` | how a row or column shares its length among its children | `MCWidgets` |
| `ScrollArea` | scroll offset, its limit and the scrollbar of one axis | `MCWidgets` |
| `ElementTree` | the tree, the layouts its changes ask for and their merging | `MCElements` |
| `ValueControls` | slider, progress bar and spinbox with their builders | `MCElements` |
| `Choices` | combobox with its dropdown, checkbox and radio group | `MCElements` |
| `Presentation` | animated boxes, opacity and colour, and what they damage | `MCPainting` |
| `TextRendering` | how a text comes by its texture, its colour and its links | `MCPainting` |
| `SeatProofs` | theorems about `Keyboard`, `Popups`, `SessionLock` | TLAPS |
| `PaintingProofs` | theorems about `BufferDamage`, `Presentation`, `TextRendering` | TLAPS |
| `WidgetProofs` | theorems about `ElementTree`, `TextEditing`, `LinearLayout`, `ScrollArea`, `Choices` with `ValueControls` | TLAPS |
| other `...Proofs` | the theorems about the module of that name | TLAPS |

Which modules are composed, and how: `EventLoop` is checked against `OneShotTimers`; `InputFocus` and `EmbeddedFrames` hold the two halves of an embedded surface; `WaylandSurface` contains the compositor and the idle functions of the event loop it depends on; `Keyboard` and `Popups` contain the compositor's side of the seat; `Choices` contains the idle functions that close a dropdown. `MCWindow`, `MCWidgets`, `MCElements` and `MCPainting` put modules side by side that share no state: each behaviour runs one of them (`part`) and the others keep their first state. This is a way to check them in one run, not a claim about their interaction.

Definitions commented "Seeded fault" are not part of a specification. Each is a plausible mistake in the definition that follows it, kept to show that a property notices it (`mutants` in `PROJECT.json`). `map` in `PROJECT.json` gives the lines every other definition stands for. Some type invariants and further properties are stated in the modules and proved but not checked by a run (section 4).

### 2.1 `EventLoop`

One step per lock of `m_loopStateMutex`, per access to `m_timers` and per load or exchange of an atomic, so that the interleavings are those of the program. `pc[t]` and `arg[t]` say where thread `t` is inside a toolkit call and on which timer or idle function; `phase` says where `main` is in `enterLoop()`.

- `addTimer`: `AddTimer` (lock, test `m_terminate`) then `PostTimer` off the loop thread, or `RegisterTimer` on it; `RunTimerClosure` is the posted closure.
- `CTimer::cancel`, `updateTimeout`: `Cancel`/`Rearm` set the timer's own fields, then `LockCancel`/`LockRearm` and `Erase`/`UpdateLoopTimer` are the backend's half.
- `addIdle`: `AddIdle`, `LoadGeneration`, `PostIdle`. `cancelPending`: `CancelPending`, `Purge`.
- `terminate`, `cleanup`: `Terminate`, `ReadRunning`, `PostStop`, `Cleanup`, `JoinGatherer`, `ClearTimers`, `ResetLoop`.
- `enterLoop`: `EnterLoop`, `StartLoop`, `RunClosure`, `FireLoopTimer`, `PostponeTimer`, `CallTimer`, `EndCallback`, `RemoveFired`, `LeaveLoop`, `FinishLoop`. Application code runs in the phases `entering` and `callback`.

`added`, `calls`, `silenced`, `rearmed`, `ran` and `purged` are history variables for the properties (`added` and `rearmed` also bound the instance: each timer is added, and re-armed, at most once).

`OneShotTimers` is the promise. It counts the calls of each timer (`calls`) and knows which deadlines are over (`expired`): `Fire` is the only step that calls a timer, and it takes a pending one whose present deadline is over. `Expire` and `Rearm` end a deadline and set a new one; `GiveUp` and `Drop`, a purge and the end of the backend are the reasons for not calling. `EventLoop` implements it with its own `calls`, with `passed` for `expired`, and with `Status` for what became of a timer. So a second call, a call before the deadline and a timer lost before its call are each a step the promise does not have. What it does not say, because the code does otherwise: a timer that is given a new deadline when its call has begun is not called again, since `removeTimer` follows the call (`Backend.cpp:311-312`). `passed()` and the call behind it are one step (`CallTimer`), so a deadline that another thread sets between the two counts as set after the call began.

### 2.2 `BufferDamage`

A window is a set of cells and so is a region. `stale[b]` is what buffer `b` shows wrongly, `shown` what the screen shows wrongly. `Frame` is a whole `render()`: repositions damage, the damaged part is painted, `late` is what changes while it is painted, the damage is sent and the ring rotates. `embedded` chooses the class at the start: the Wayland window alternates two buffers it takes to be two frames old, the embedded surface is told an age (or 0) by its host. A region of more than eight rectangles is replaced by its extents in the code; this repaints more and is left out.

### 2.3 `WaylandSurface`

The window's code and the compositor (`comp`, one record per role object, with the events under way in `queue`). A size is one number since both coordinates are treated alike. An event that belongs to an earlier opening (`role`) is dropped at dispatch, as its proxy is gone. The compositor owes a configure after the initial commit and whenever a pin (`min == max`) differs from the size it configured; it owes a frame-done for each committed callback; anything else it may volunteer. `Render`, `Configure`, `ScheduleFrame` are shared operators as the functions are shared in `IWaylandWindow`.

### 2.4 `EmbeddedFrames`

The host, the surfaces and the backend on one thread. `level[s]` is the nesting of the frame of `s`; the innermost frame is the one that takes a step, and while it does, application code may damage, create, render, destroy or throw. `requests[s]` counts `frameRequested` since the host last called `render()`.

### 2.5 `InputFocus`

Geometry is a choice: a hit test finds some topmost element and some of the elements that always get mouse input. `Relock` is the lock and unlock of all elements whose membership changes; `inside` and `typing` are what elements have been told. The host conditions (what it opened it closes, no input to closed surfaces, no leave while a button is held, no mouse during an emulated tap) are the guards of the host's actions.

### 2.6 `ImageLoading`

Image elements, the cache entries and the loads under way. `img[i]` holds the members of `SImageImpl` that decide what happens; `entries` is the list of all entries ever made, each with the request that loads it, so that `cacheEntry`, `oldCacheEntry`, `requestGeneration` and the listener are positions in it. The cache's weak references are `Held`: an entry exists while an image or a load that is not over refers to it. `RenderTex` is the function of that name in its three ways out (`Reuse`, `GiveUp`, `Request`); the handlers that reach it are `Paint` and `ReplaceData`. `RunLoadIdle` is everything from the worker to the end of `postImageLoad`: the listeners of the entry first, then the image that asked. A square of b pixels is the number b; the fit mode is part of the source; whether an image is synchronous is fixed when it is made, because `rebuild()` copies it. There are three sizes, as in the code: that in the cache string (`KeySize`, of icons and `.svg` paths), that in which the resource is made (`LoadedSize`, of scalable icons only; all else has the size `Natural` of its file), and that which `paint` compares with the texture (`WantedSize`, of what `scalable()` says is scalable). For an `.svg` path they disagree (section 3.3).

### 2.7 `Keyboard`, `Popups`, `SessionLock`

The three parts of `WaylandPlatform.cpp` and what hangs on them. Each holds what the compositor knows (`seat`, `comp`, `plugged` and `grants`), the queue of its undispatched events, and the client's state.

- `Keyboard`: a key handler of a window may paste, and `readClipboard` makes a roundtrip that dispatches queued events inside the handler. `handlers` is the stack of calls of `keyboardKey` that have not returned: `PressHeard` ends where the window is called, `ReturnPress` is the rest of `onKey`; `Fire` and `ReturnFire` are the two halves of `onRepeatTimerFire`. `orphans` counts repeat timers that are pending while `repeatTimer` refers to another one. Keys are told apart by what a press does (`Arrows`, `Letters`, `DeadKeys`, `Modifiers`).
- `Popups`: `ClosePopup` is `CWaylandPopup::close`, reached from the compositor's dismissal (`PopupDone`), a press on the parent (`ClosePopups`), the tooltip's own `mouseLeave` (in `SurfaceLeave`), and the application (`CloseMenu`). Events about a surface that was destroyed while they were queued arrive without it (`Orphaned`), as the protocol library does. `tip` and `strays` are the tooltip's timer and the timers whose handle was overwritten. A second grab is a protocol error; from then on the compositor sends nothing (`Running`).
- `SessionLock`: `calls` is the stack of roundtrips under way: the start of the platform, a new output, an acquire, an unlock. `surface[o]` is the lock surface of an output, `closing` once its `closeRequest` was emitted.

### 2.8 `UTF8`, `TextEditing`

A string is a sequence of bytes of which only the class matters. The walks of `UTF8.cpp` are recursive functions over offsets. `edit` is `data.text` and `inputState`; each key of the key handler is an action, with the moves by character, word and line, shifted or not; `Seat` holds clicks (a click may land on any offset the layout can return, `VecToOffset`), the input method and the clipboard, `Application` the calls. `strayed` records that the position came from one of the three places of the code that ignore character boundaries (a click, a text cut short, an input-method text applied over a selection).

### 2.9 `LinearLayout`, `ScrollArea`, `ElementTree`

`LinearLayout` is `positionElements` and `preferredSize` of `LinearLayout.hpp` along the axis of the flow, with the size rules of its two users: `Shrink`, `DropChild` and `SizeChild` are the branches of its loop, in order, and `Layout` is the loop with the placing behind it. `ScrollArea` is one axis of `ScrollArea.cpp`: `Reposition` includes the second pass after a clamp, `LayoutScrollbar` and `ScrollFromThumb` are the two directions between offset and thumb. `Rebuild` copies the offset into a builder (`draft`), and `ReplaceAreaData` puts that copy back when the builder is committed, at any later time: the offset may then be one of long ago, and past the limit until the next layout clamps it. One builder is held at a time. In `ElementTree` a box is either there or not (`placed`), and an element is `stale` until a layout ran that has to look at it. `PreRender` is the first three steps of `onPreRender` (expand, keep the outermost, one per parent), `RepositionNext` its loop, between whose steps the application's callbacks run.

### 2.10 `ValueControls`, `Choices`

One record per control: its data, what its inner elements were last told to show, and `draft`, the data a builder copied (`rebuild()`) and may hand back at any later time (`commence()`). Slider values are hundredths of the track. In `Choices` a dropdown has a number, so that the idle function a choice posts can close a later one, as in the code.

### 2.11 `Presentation`, `TextRendering`

`Presentation` has two nested elements on a row of cells. `p` is what the frame code reads: the layout's position, the animated variables (those of hyprutils as `AnimatedVariable.hpp` uses them), the box each element was last seen to cover, the damage. `RenderFrame` ticks every active variable by any step its curve may take, lays out what is pending, and paints only what is damaged; `Shown` is what a full repaint would give. `TextRendering` represents a texture by the request it was made from, so that a text is shown right when the texture's request is the one of now.

## 3. What TLC checks

Every run ends without error unless it is listed under 3.3.

### 3.1 Runs

| Run | Instance | Shows |
|---|---|---|
| `event_loop_timers` | main, worker, one more thread; two timers | a cancelled timer stays silent even when posted, listed or due; the loop implements `OneShotTimers`: a timer is called at most once, never before the deadline it has, and is not lost before its call |
| `event_loop_threads` | main, worker, one more thread; a timer and an idle function; one purge | the worker never posts to a reset executor; a purged idle function never runs, one that was not runs; a timer that waits is called, whatever new deadline it is given, unless it is cancelled or purged or the backend ends; a termination completes |
| `wayland_surface` | all three kinds; two openings; two sizes the parties may want plus content and preferred sizes | no buffer before an ack; a changed window has a frame coming and its damage reaches the screen; the first close request of each opening is reported |
| `image_loading` | two images; a file that cannot be loaded, an `.svg` path, a scalable icon; sizes 0 to 2; two loads | an image never takes a load of older data; an image that does not show its data has a frame or a load coming |
| `windows` | five parts, below | a tap clicks the element it began on or none, a drag ends where it began; keys agree with the compositor, no repeat of a key that is up; the pointer's window is open, the popup list holds the open popups; no lock surface stays unasked; frames repaint what is out of date, nothing stays out of date without a frame due |
| `widgets` | three parts, below | cursor and selection stay in the text and between characters, the anchor of a selection stays, every edit is reported, the walks of `UTF8.cpp` count what there is; a row with room shows every child; a scroll area never scrolls past its content, its thumb follows the pointer |
| `elements` | six parts, below | every change of a subtree has a layout coming that covers it, and gets it; controls show what they hold; the choice made is the one taken; the clicked radio button is the one that is on |
| `painting` | three parts, below | no ghosts, animations reach their goal on the screen; the newest text is shown in the end; two embedded surfaces: globals outlive frames, however nested and however ended, and changes are shown |

### 3.2 Bounds

- `EventLoop`: three threads give all pairs of concurrent calls, and a teardown or a cancellation against the loop and the worker. Two timers are needed for "the other timer is erased meanwhile". `MaxPurges = 1` limits `gen`; `cleanup()` adds one more. Each timer is added once and re-armed once. The queue is bounded by these.
- `WaylandSurface`: `MaxOpens = 2` lets messages and idle functions of a first opening meet a second; `MaxCloses = 1` because `deferCloseRequest` remembers only one per opening; `MaxQueue = 1` limits only events the compositor volunteers, those it owes are always sent, so up to three are queued together. Modes `free` and `fullscreen` stand for "may autosize" and "may not".
- `EmbeddedFrames`: two surfaces give a frame inside a frame; more only nest deeper.
- `ImageLoading`: two images are an image that starts a load and one that listens to it; two loads under way are one that is overtaken and the one that overtakes it, of the same image or of both. For every number of images and loads the two properties are proved (section 4). Sizes 0, 1 and 2 are none and two to change between; in size 1 an icon and a file have the same size. Icons that are not scalable add states (a million in all) and no new question: they are known by a size that they neither have nor want. The proofs cover them. Images are interchangeable (symmetry; there is no liveness property).
- `InputFocus`: one element of each sort (always hovered, typing, touchable), two fingers so that one is captured or ignored while the other taps. Elements return after removal. One mouse button, see 3.3.
- `Keyboard`: a letter, a dead key and a modifier, two of them down at once; arrows behave as letters except that they skip composition, and are left out. Two queued events and two nested handlers let a release, a leave or another press be dispatched inside a handler, and one more inside that. The repeat rate changes only while nothing repeats; windows are destroyed only outside of handlers.
- `Popups`: one menu and the tooltip are the two popups that may overlap; two queued events are an enter or a leave and the motion or button behind it. `SessionLock`: two outputs, two queued events, three nested roundtrips, so that an output can come and go inside the roundtrip of another inside an acquire. The application unlocks only what is locked, and drops a lock surface only when it was asked to or denied.
- `BufferDamage`: the state is finite without bounds (ages end at "older than the ring remembers"). The cells are independent of one another, so two suffice to tell a region from its complement; three host buffers reach every age the ring distinguishes.
- `TextEditing`: three bytes hold a narrow and a wide character in both orders, or three narrow ones with a line break. Longer texts add characters, not new kinds of positions. Typed is a wide character, the application sets a space or a wide character, the clipboard holds a text that ends in a line break; what is left of it, and the empty text, come from deleting.
- `LinearLayout`: three children of four sorts (fixed, automatic and focusable, relative, growing), in a row that is too narrow for them and one that has room, or as wide as they ask. `ScrollArea`: views and contents smaller and larger than one another; one builder, whose copy of the offset may be of any earlier time; pixels are whole, and a thumb is followed to the pixel that two roundings cost.
- `ElementTree`: a root, two children, one of them sized by its own child: the smallest tree with an expansion, an ancestor, and siblings. `Followed = {"c"}` limits only the liveness property, to the element whose changes have the longest way.
- `ValueControls`, `Choices`: numbers below, inside and above the limits; item lists of none, two and three; two dropdowns, so that a deferred close can meet the next one; three boxes of which two are radios.
- `Presentation`: two nested elements are the case of interest (an animation inside another); five cells let them move apart; animations of up to two ticks have one value on the way. Three calls of the application: an animation starts, its curve is replaced, its parent moves. `TextRendering`: two texts, colours, scales and widths, two changes, which overtake one texture in flight.

Deadlock checking is off where the system may legitimately stop: the backend is torn down, the last opening is closed, the embedded backend is destroyed, the last image is gone, a second grab was answered by a disconnection (`windows`), or the bounded changes are used up (`painting`). It is on in `widgets` and `elements`.

### 3.3 Disagreements found

Each of these runs checks one property that the repository states and ends with a counterexample. `findings` in `PROJECT.json` quotes the statements.

| Run | The code | The statement |
|---|---|---|
| `layer_early_resize` | `setSize` before the first configure makes the size equal to the configured one; the handler returns before the ack (`WaylandLayer.cpp:110`) and a buffer is committed unacknowledged | the layer-shell protocol in `protocols/` |
| `embedded_early_render` | a request answered before the first resize returns before `m_needsFrame` is cleared; no request is emitted ever after (`EmbeddedSurface.cpp:73`) | the comment at `ToolkitWindow.hpp:32` |
| `image_bytes_reused` | bytes go into the cache by their address (`Image.cpp:200`), which `replaceData` reuses for new bytes while the old texture is held: the image keeps the old picture | the comment at `Image.cpp:199`: "uncacheable" |
| `image_svg_resolution` | the size of the element is in the cache string of an `.svg` path (`Image.cpp:203`) and in `paint`'s comparison (`:45`), but the resource is made without a size (`:104`): the texture known by a size has another, the image never gets it, and every frame calls `renderTex` and damages the element again | the comment at `AssetCache.hpp:22`: "svg / icon entries are keyed per-resolution by the caller" |

The passing runs and the proofs about these modules exclude exactly the first three of these histories: `EarlyResize = FALSE`, `EarlyRender = FALSE` and `Memory = {}`. `.svg` paths are part of the passing run and of the proofs: `ImageIsComing` then says of an image that does not show its file in its size that a frame is due, and for an `.svg` path that is a frame without end.

More behaviours were met while the models were written. The properties leave the first group out by name; the second follows from the code as modelled and is stated by no property, because no document of the repository says otherwise or because the case is outside a model.

Left out by name:

- An image that shares the load of another one keeps waiting when that one is destroyed (`Image.cpp:80`); `ImageIsComing` exempts it (`Orphaned`).
- An image that is given an icon before its element has a size gives up its load but may go on waiting for it (`Image.cpp:113`); `EarlyIcons = FALSE` excludes that.
- Releasing one of two held buttons unlocks the focus although the other is down (`ToolkitWindow.cpp:250`, against the comment at `:177`); `DragEnds` is about one button (`Buttons = {left}`).
- A release or a leave that a paste dispatches inside the key handler comes before `onKey` stores the press as the key to repeat (`WaylandPlatform.cpp:755`): it repeats although it is up. `RepeatIsHeld` exempts it (`lateRelease`). Timers lost on the same way go on and double the rate (`orphans`).
- Two popups open at once: a press on the parent walks over `m_popups` while `close()` erases from it (`IWaylandWindow.cpp:256`), a grab under a grab is a protocol error. `BlockedWhilePopupOpen` exempts it (`overlapped`).
- A click on the right half of a wide character (`Text.cpp:405`), a text cut under the cursor (`Textbox.cpp:438`, `:784`), and an input-method text applied under a selection (`Textbox.cpp:536`) leave character boundaries (`strayed`).
- A running animation whose parent is moved by a layout, or comes to its end in the same tick, is seen moving without its damage being known (`Element.cpp:385`): a ghost stays until the next damage there. `NoGhosts` and `ScreenSettles` exempt it (`carried`). The exemption is wide: once such a move happened, the two properties, and the theorems about them, claim nothing for the rest of that behaviour.

Not stated by a property:

- Timers: one that is given a new deadline in its callback, or by another thread while it is called, is taken off the list all the same and is not called again (`Backend.cpp:311-312`).
- Windows: a layer that is opened again makes its role object while the previous buffer is still committed (`WaylandLayer.cpp:70`). `setSize` of a toplevel to the size it already has pins it until the next configure, if one comes (`WaylandWindow.cpp:216`).
- Text: a text made with `async(false)` paints nothing in the frame that renders it anew, its damage being spent (`Text.cpp:150`). Toggling `animateColor` while a texture is in flight shows it white until the next one (`Text.cpp:508`). The reposition of a mere move renders the texture again (`Text.cpp:183`).
- Text box: Backspace and Delete at the ends of the text ignore a selection (`Textbox.cpp:129`, `:152`); Home with the cursor before a line break moves behind it (`:713`).
- Layouts: every `ScrollArea::reposition` asks for another (`ScrollArea.cpp:295`), so that frames never cease; `clearChildren` asks for neither layout nor damage (`Element.cpp:236`); `setMargin` and `setGrow` schedule nothing; an element added to two parents is in both lists (`Element.cpp:228`); the child that is enlarged to cover a hidden one may be hidden itself, and the room left may be below zero (`LinearLayout.hpp:99`, `:116`), where the comment at `:57-59` says "the layout stays sane".
- Controls: a stale builder reverts what the user did in between; two radios may be on after `setState` or `add` (`RadioGroup.hpp:13` speaks of one); an idle function of one dropdown closes the next (`Combobox.cpp:179`); any mouse button primes a checkbox.
- Seat: a press of a key without text starts the repetition of the event before it (`WaylandPlatform.cpp:708`); a release of any key stops the repetition of another; a modifier pressed after a composition delivers its text again (`:684`); the text of an input method goes to the window under the pointer (`:252`, comment at `:359`), and its preedit is kept until a commit; the pointer's capability may go while it is over a window (`:427`).
- Session lock: an output that comes and goes within its own roundtrip is announced after its removal (`WaylandPlatform.cpp:104-110`); `m_sessionLocked` is read by nobody; a second acquire returns a state that was unlocked.

### 3.4 Fairness

- `EventLoop`: weak fairness for a thread inside a toolkit call (the scheduler runs it; the mutex is held for a bounded time) and for `main`'s steps inside an iteration. Strong fairness for `RunClosure` and for each timer's `FireLoopTimer`, because other events and closures interrupt the polling phase in which they are enabled, and an iteration of the loop drains its executor and looks at every due timer. A stopped loop returns (`stopped /\ LeaveLoop`). Time passes (`Expire`, `ComeDue`); nothing more is needed for `TimerSettles`, which says of a timer that waits while the loop runs that it is called, cancelled, purged or overtaken by the termination. Nothing is assumed about what the application calls, nor that callbacks stop calling.
- `WaylandSurface`: the event loop runs idle functions and dispatches; the compositor answers what it owes. Weak fairness suffices since none of these is disabled by anything but its own execution or a closing.
- `EmbeddedFrames`: code called by a frame returns or throws, and a host answers requests. Strong fairness, since a frame inside the frame disables the outer one's steps for a while. A frame takes some next step, be it only to throw: nothing is assumed about which.
- `ElementTree` (`TreeFairness`): a frame that is scheduled is rendered, and a pass over the list of layouts goes on; both run on one thread that the application's callbacks return to.
- `Presentation` (`PresentationFairness`): a scheduled frame is rendered; `parity` flips at every frame because a frame may leave all else as it was. Nothing is assumed about the curves but that an animation takes a bounded number of ticks.
- `TextRendering` (`TextFairness`): the gatherer's worker ends a load, the idle function runs, a scheduled frame is rendered.
- The other modules: safety only. That something is *coming* (`ScreenCatchesUp`, `FrameIsComing`, `ImageIsComing`, `ChangeIsCovered`) is stated as an invariant, with no assumption about who runs when.

The four modules that put parts side by side state these conditions for the part they belong to. The specification of one part that a theorem speaks of (`KeyboardSpec`, `PopupsSpec`, `LockSpec`, `TreeSpec`, `EditSpec`, `RowSpec`, `ScrollSpec`, `ControlsSpec`, `PresentationSpec`, `TextSpec`) has the same initial states and steps as that part in its run.

## 4. What is proved

The theorems hold for every value of the constants that satisfies the assumptions of the modules: any number of threads, windows, outputs, cells and images, texts and item lists of any length, any finite tree. In each module an inductive invariant strengthens the properties; three lemmas (`Init => IInv`, `IInv /\ [Next]_vars => IInv'`, `IInv => Inv`) give the theorems.

| Module | Theorems | Inductive invariant, and why the parts are needed |
|---|---|---|
| `EventLoopProofs` | `TypeCorrect`, `TimerListRaceFree`, `CleanupIsExclusive`, `WorkerIsSafe`, `CancellationWins`, `PurgeIsFinal`, `TimersKeepPromise` | `ArgsFit` (a step works on the kind of object it expects), `MutexInv` (who is inside a locked step holds the mutex), `LoopInv` (the loop's phase against `running` and `executorUp`), `CleanupInv` (at most one thread passed the exchange of `m_cleaned`, and only with the loop out), `WorkerInv` (the gatherer is joined before the executor goes). Unlocked accesses to `m_timers` are safe because `LoopInv` makes other threads post instead. The two action properties add `HistoryInv`: what was silenced carries its flag, what was purged carries an older generation. The refinement (`TimersKeepPromise`) adds `PlaceInv`: an accepted timer waits in one place, in the hands of one thread, in one posted closure or in `m_timers`, and is not yet called, except for the one the loop is just calling or taking out; and `HandledInv`: the timer in the loop's hands is listed, called or cancelled as its phase says. As the promise counts calls, a step that calls has to find the timer uncalled, which is what the two give. With them every step of the loop is one step of `OneShotTimers` or none |
| `PaintingProofs`, damage ring | `TypeCorrect`, `RepaintIsComplete`, `NothingStaysOutOfDate` | `InsideWindow`: damage and stale cells lie in the window, so that a full repaint covers them |
| `PaintingProofs`, animations | `WrongCellsArePaintedNext`, `NothingIsLeftBehind`, both except in a behaviour in which a layout has moved a parent without the running animation of its child: from then on (`carried`) they claim nothing, and the code does leave cells that are wrong, undamaged and not promised | `AnimationIInv`. That nothing is left behind is not inductive; the invariant says of the time between frames that every cell shown wrongly is damaged or promised: it lies where an element whose animation runs was seen last, and the next tick damages that (`Accounted`, given up once `carried`). This takes more about the elements: a box that no animation moves is where the layout put it, the child lies in its parent (`ChildFits`), a parent that moves is where it was last seen (`LastCovers`), the variables in the list are those that run (`Listed`). A frame is followed through its phases, one tick of one variable at a time, since the damage of each depends on those before it |
| `PaintingProofs`, text | `ClicksOpenLinksOfNow` | `LinksFit`: the parsed links are those of the text of now, which the hovered one has to be chosen from; `SameLinks` says once that rendering, colouring, laying out and painting a text leave them alone |
| `WaylandSurfaceProofs` | `TypeCorrect`, `BuffersFollowAcks`, `NoFrameIsLost`, `CloseReports`, `PinsArePending`, assuming `NoEarlyResize` | `RoleInv` (opening, role object and queue agree; a size or a configured flag implies an ack), `FrameInv` (buffers, size and callback), `CloseInv` (reports and the deferred request against close events) |
| `EmbeddedFramesProofs` | `TypeCorrect`, `GlobalsAreSafe`, `DestroyIsKept`, `NoFrameIsLost`, assuming `ResizesFirst` | `LevelInv` (frames nest: levels are distinct and fill `1..activeFrames`), `DestroyInv`, `RequestInv` (`m_needsFrame` against unanswered requests) |
| `InputFocusProofs` | `TypeCorrect`, `HoverIsBalanced`, `KeyboardIsBalanced`, `HoverEnds`, `TapsAreCaptured`, `FingersFree`, and `DragsEnd` assuming `OneButton` | `HoverInv` (locks against what elements were told), `PointerInv` (tap, pointer and button flag), `FingerInv`; `HoldInv` for drags |
| `ImageLoadingProofs` | `TypeCorrect`; `NewestIsShown` assuming `Memory = {}`; `NoImageIsLost`, `AssetsAreShared` assuming also `~EarlyIcons` | `BytesAreStored`; `NameInv` (the entry an image has, asked for last or listens to is one, and of its data), `EntryInv` (an entry is pending as long as its load is under way), `Waits` (who waits has a pending entry that will tell it, who does not has its texture or an icon in another size), `Shows`. `RenderTexDoes` and `DeliveredCases` say once what the two long functions may do; the invariants use them instead of the definitions. `AssetsAreShared` adds that no step brings an entry back that was not held |
| `SeatProofs`, keyboard | `KeysAgreeWithSeat`, `RepeatedKeyIsHeld` | `SeatIInv`: what the client would hold after each prefix of the queued events (`run`, led by one event from state to state, `Leads`) ends in agreement with the compositor, in the middle of a handler too; an invariant about the empty queue alone is not inductive. `RepeatIsHeld` is inductive itself |
| `SeatProofs`, popups | `PointerStaysOnOpenWindow`, `PopupsBlockRoot` | `ListedInv`: the list has no duplicates, so that erasing one entry of a popup takes it out; it names open popups, and as long as no two overlapped it is empty or the one open popup; a listed tooltip is one that its element shows. `TipInv` types the tooltip |
| `SeatProofs`, lock | `LockScreenLeaves` | `LockedInv`: there are surfaces only of a lock the platform knows, that lock is alive, and one that was unlocked is not held; so what removes an output, or gives up the lock, finds every surface it has to ask, or the call that will is on the stack of roundtrips |
| `WidgetProofs`, tree | `ChangesAreCovered` | `TreeIInv`: `TreeTypes` (also: no element is above itself), `WindowIsTree` (the elements with a window are those below its root), `RootIsCovered` and `RestIsCovered` (the request, or the entry of the pass, that a changed element is covered by). That parents end somewhere is used through the least closed set above an element (`AllAbove`), as `Outermost` and `AutoParent` walk up without a bound |
| `WidgetProofs`, text box | `EditsStayInBounds`, `EditsStayOnCharacters`, `EditsReachApplication`, `SelectionKeepsAnchor`, `WalksAreRight` | `EditIInv`: bounds (`InText`) for every state; unless `strayed`, well-formed text with cursor and selection between characters and at one end of the selection (`Sound`), which is what lets a cut or an insertion keep all of it; well-formed input-method text. `WalksAreRight` needs of the state only that the text is a sequence of bytes: the work is about `UTF8`, that the characters before a boundary are counted by the walk to it, whatever the text |
| `WidgetProofs`, row | `RoomIsUsed` | `RowIInv`: the children are of the known kinds. The work is in `ChildFits` (each turn of the loop finds room, because the ends of the children only grow) and `LayoutWithRoom` (so the whole pass is the one that grants everything) |
| `WidgetProofs`, scroll area | `ContentStaysInView`, `ThumbFollows` | `AreaIInv`: as long as nothing changed since the last layout, the offset is within the limit, and the limit is that of the content. At other times neither need hold: the limit may be stale and a builder may have put the offset past it; the layout works from any offset. For the thumb `BarIsLaid`: as long as nothing changed since, the bar is the one the layout makes of view, limit and offset. `ThereAndBack` bounds what is lost from the thumb to the offset and back, two quotients rounded down; the solver takes its products one inequality at a time (`QuotientIs`, `ProductsOrder`) |
| `WidgetProofs`, controls | `ControlsAgree`, `ChoicesAreTaken`, `RadioIsAlone` | `ControlsIInv`: one invariant per control (`SliderAgrees`, `ProgressAgrees`, `SpinboxAgrees`, `ComboAgrees`, `BoxesAgree`): what it shows is its value, which is within its limits, and the buttons of an open dropdown are the items of now, so that the index a button captured fits. The data that builders kept is typed only: that any of it may come back is why values are settled when they are set |

Where a proof needs induction, over the elements of a tree, the offsets of a text or the children of a row, it takes a least counterexample from the well-foundedness of finite subsets or intervals (`SomeElementIsUppermost`, `LastExists`, `FirstExists`). Recursive functions are handled in the same way: that a function with the equation exists is proved (`RunningSum`, `RecursionExists` for a walk over offsets, `StepsExist` for a chain of steps over a list), and so is that there is only one (`SameRecursion`). `Presentation` writes the filter and the tick over the list of running animations as recursive functions for this reason.

`NoEarlyResize` is `EarlyResize = FALSE`, `ResizesFirst` is `EarlyRender = FALSE`, `OneButton` is `Buttons = {Left}`: section 3.3 shows that the theorems fail without them. `Memory = {}` (no images from bytes) is needed for the same reason. `.svg` paths need no such assumption, but for them `NoImageIsLost` says less than one would like: that a frame is due, not that it helps (`image_svg_resolution`).

Proved and no longer checked by a run, since the proof covers every instance: the type invariants of these modules, `TimerListExclusive`, `CleanupExclusive`, `CloseReportedOnlyWhenAsked`, `PinnedOnlyWhilePending`, `DestroyIsNotForgotten`, `EntersBalanced`, `KeyboardBalanced`, `HoverNeedsPointer`, `FingersAreFreed`, `OneLoadPerAsset`, `HoverIsOfThisText`, and `FrameIsComing`, which only the run of the finding still checks.

Model-checked only:

- Liveness (`IdleSettles`, `TimerSettles`, `TerminationCompletes`, `DamageReachesScreen`, `FirstCloseReported`, `ChangesAreShown`, `ChangeIsLaidOut`, `ScreenSettles`, `TextSettles`): the prover has no reasoning about fairness.

Every other property of a passing run is a theorem. No module here declares a recursive operator.

## 5. What is not modelled, and why

- **Event loop**: descriptors (`addFd`, `doOnReadable`, `removeFd`) and the reading of the Wayland socket. They add no thread; what a stale descriptor's closure does depends on objects outside of the loop.
- **Wayland windows**: interactive resize and move, which are single requests; theme changes, which repaint; the opaque region.
- **Damage ring**: the replacement of many rectangles by their extents, which only repaints more.
- **Input**: pointer shapes, and handlers that call back into the input code of the same window. Each handler is one step, so a hazard inside one (`EmbeddedSurface.cpp:266`) is out of reach.
- **Seat**: the keymap and the state of modifiers, clipboard offers, the binding of globals, pointer shapes. How the compositor places a popup.
- **Layouts**: alignment and margins across the axis of the flow, absolute positions, the stacking of plain children: they compute a box from boxes and keep no state.
- **Assets**: `cancelPending` between a load and its idle function, a backend that is replaced while an image lives; Pango.
- **Widgets**: buttons, and the appearance of all of them.
- **OpenGL, textures, shaders, pixel formats**: drawing has no state that outlives a frame but the damage ring.
- **Palette, configuration, icons, outputs, logging**: read once or copied; nothing happens in an order.
- **Dependencies** (hyprutils, hyprgraphics, the compositor, the host) appear only as `src/` uses them.

## 6. Plan

The models stand for somewhat less than a third of the lines, those in which order and stale state matter most. Their safety is proved; the liveness properties stay with TLC.

Still worth modelling: `SyncTimeline` (the release of buffers to the compositor), and one abstract promise of "what changed is shown, or a frame is due" that `BufferDamage`, `WaylandSurface` and `EmbeddedFrames` implement.
