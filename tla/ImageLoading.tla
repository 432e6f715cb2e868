----------------------------- MODULE ImageLoading -----------------------------
(***************************************************************************)
(* Images and the textures they share: CImageElement                       *)
(* (src/element/image/Image.cpp), CAssetCache and CAssetCacheEntry         *)
(* (src/resource/assetCache).  An image asks for its texture when it is    *)
(* painted or given new data; a worker loads it and an idle function hands *)
(* it over.  Images with the same cache string share one entry, and those  *)
(* that did not start its load listen to it.  The cache only knows entries *)
(* that an image or a load still holds.                                    *)
(*                                                                         *)
(* Everything but the worker runs on one thread.  A square of b pixels is  *)
(* the number b.  What is not loaded in a given size has its own, Natural; *)
(* an .svg path is loaded so although the cache knows it by the size of    *)
(* the element.  fitMode is part of the source.  The backend is not        *)
(* replaced and cancelPending() is not called.                             *)
(***************************************************************************)
EXTENDS Naturals, Sequences

CONSTANTS
  Images,      \* image elements
  Files,       \* raster files
  Vectors,     \* .svg files
  Icons,       \* icons
  SvgIcons,    \* those that are rendered in the size of the element
  Memory,      \* contents passed as bytes
  Broken,      \* sources that cannot be loaded
  Buffers,     \* addresses a vector of bytes may have
  NoBuffer,    \* of a vector that never held bytes
  MaxSize,     \* bound: sizes of an element
  MaxRequests, \* bound: loads that are started
  EarlyIcons   \* whether an element without a size is given an icon instead of what it had

Sources  == Files \cup Vectors \cup Icons \cup Memory
Keyed    == Icons \cup Vectors      \* the size is part of the cache string
Scalable == SvgIcons \cup Vectors
Natural  == 1   \* size of what is not loaded in a given one

ASSUME ImageLoadingAssumption ==
  /\ Broken \subseteq Sources
  /\ Memory \cap (Files \cup Vectors \cup Icons) = {}
  /\ Files \cap (Icons \cup Vectors) = {} /\ Icons \cap Vectors = {}
  /\ SvgIcons \subseteq Icons
  /\ NoBuffer \notin Buffers /\ Buffers \cap Sources = {}
  /\ MaxSize \in Nat /\ MaxRequests \in Nat
  /\ EarlyIcons \in BOOLEAN

VARIABLES
  alive,    \* images that are not destroyed
  img,      \* their state
  entries   \* the cache entries made so far, with the request each was made for

vars == <<alive, img, entries>>

(***************************************************************************)
(* src, sync   SImageImpl::data: the source, and whether to wait for it    *)
(* buf         where bytes were stored last                                *)
(* px          what preferredSvgSize returns                               *)
(* entry, old  cacheEntry and oldCacheEntry, 0 for none                    *)
(* latest      the request of generation requestGeneration, 0 for none     *)
(* listens     the entry cacheEntryDone listens to, 0 for none             *)
(* dirty       a frame that will paint the image is due                    *)
(***************************************************************************)
Ids    == 0 .. MaxRequests
Pixels == 0 .. MaxSize \cup {Natural}
States == [src : Sources, sync : BOOLEAN, buf : Buffers \cup {NoBuffer}, px : 0 .. MaxSize, size : Pixels,
           entry : Ids, old : Ids, latest : Ids, listens : Ids,
           waiting : BOOLEAN, failed : BOOLEAN, dirty : BOOLEAN]
Entries == [at : Sources \cup Buffers, px : 0 .. MaxSize, source : Sources, size : Pixels,
            owner : Images, status : {"pending", "done", "failed"}, over : BOOLEAN]

TypeOK ==
  /\ alive \subseteq Images
  /\ img \in [Images -> States]
  /\ entries \in Seq(Entries)
  /\ Len(entries) <= MaxRequests
  /\ \A i \in Images :
       {img[i].entry, img[i].old, img[i].latest, img[i].listens} \subseteq 0 .. Len(entries)

\* A new image of source s, synchronous if y.
New(s, y) ==
  [src |-> s, sync |-> y, buf |-> NoBuffer, px |-> 0, size |-> 0, entry |-> 0, old |-> 0, latest |-> 0,
   listens |-> 0, waiting |-> FALSE, failed |-> FALSE, dirty |-> TRUE]

Init ==
  /\ alive = Images
  /\ img \in [Images -> {New(s, y) : s \in Files \cup Vectors \cup Icons, y \in BOOLEAN}]
  /\ entries = <<>>
-----------------------------------------------------------------------------
(* The cache. *)

HasTex(es, e) == e # 0 /\ es[e].status = "done"

\* getCacheString: bytes go by their address, icons and .svg paths by the size of
\* the element too.
At(m)      == IF m.src \in Memory THEN m.buf ELSE m.src
KeySize(m) == IF m.src \in Keyed THEN m.px ELSE 0

\* The size a load is asked for, and the size paint() wants to see.
LoadedSize(m) == IF m.src \in SvgIcons THEN m.px ELSE Natural
WantedSize(m) == IF m.src \in Scalable THEN m.px ELSE Natural

\* An entry lives as long as an image or a load that is not over holds it.
Held(ms, es, e) ==
  \/ \E i \in alive : e \in {ms[i].entry, ms[i].old}
  \/ es[e].owner \in alive /\ ~es[e].over

\* The entries CAssetCache::get may return for m.
Cached(ms, es, m) ==
  {e \in 1 .. Len(es) :
    Held(ms, es, e) /\ es[e].at = At(m) /\ es[e].px = KeySize(m) /\ es[e].status # "failed"}
-----------------------------------------------------------------------------
(* Loads. *)

\* postImageScheduleRecalc of image state m.
Recalc(es, m) ==
  [m EXCEPT !.waiting = FALSE,
            !.size    = IF ~m.failed /\ HasTex(es, m.entry) THEN es[m.entry].size ELSE @,
            !.dirty   = @ \/ ~m.failed]

\* Seeded fault: the image takes whatever load of its own ends.
DeliveredUnasked(ms, es, r) ==
  LET broken == es[r].status = "failed"
      heard  == [i \in Images |->
                   IF i \in alive /\ ms[i].listens = r
                   THEN Recalc(es, [ms[i] EXCEPT !.failed = broken, !.listens = 0])
                   ELSE ms[i]]
  IN  [i \in Images |->
        IF i = es[r].owner
        THEN Recalc(es, [heard[i] EXCEPT !.entry = r, !.failed = broken, !.old = 0])
        ELSE heard[i]]

\* What the end of load r makes of the images ms: those that listen to its entry
\* are told, then the image that asked for it, if it has asked for nothing since.
Delivered(ms, es, r) ==
  LET broken == es[r].status = "failed"
      heard  == [i \in Images |->
                   IF i \in alive /\ ms[i].listens = r
                   THEN Recalc(es, [ms[i] EXCEPT !.failed = broken, !.listens = 0])
                   ELSE ms[i]]
  IN  [i \in Images |->
        IF i = es[r].owner /\ ms[i].latest = r
        THEN Recalc(es, [heard[i] EXCEPT !.entry = r, !.failed = broken, !.old = 0])
        ELSE heard[i]]

Over(es, r) ==
  [es EXCEPT ![r].over = TRUE, ![r].status = IF es[r].source \in Broken THEN "failed" ELSE "done"]

\* postImageLoad of request r.
PostImageLoad(ms, es, r) ==
  /\ entries' = Over(es, r)
  /\ img' = Delivered(ms, Over(es, r), r)

\* The first lines of renderTex: a texture is kept to be shown until the next one
\* is there, what was asked for before is not waited for any more.
Restart(m) ==
  [m EXCEPT !.latest = 0, !.listens = 0, !.failed = FALSE, !.entry = 0,
            !.old = IF HasTex(entries, m.entry) THEN m.entry ELSE @]

\* Seeded fault: an entry that is still loading is not listened to.
ReuseSilently(i, m, e) ==
  /\ img' = [img EXCEPT ![i] =
       IF entries[e].status = "done" THEN Recalc(entries, [m EXCEPT !.entry = e])
       ELSE [m EXCEPT !.entry = e, !.waiting = TRUE]]
  /\ UNCHANGED entries

\* renderTex finds an entry.
Reuse(i, m, e) ==
  /\ img' = [img EXCEPT ![i] =
       IF entries[e].status = "done" THEN Recalc(entries, [m EXCEPT !.entry = e])
       ELSE [m EXCEPT !.entry = e, !.waiting = TRUE, !.listens = e]]
  /\ UNCHANGED entries

\* renderTex of an icon without a size gives up; the entry it made is never loaded
\* and not in the cache, which is as good as none.
GiveUp(i, m) == img' = [img EXCEPT ![i] = m] /\ UNCHANGED entries

\* The entry image i, in state m, asks a load for.
NewEntry(i, m) ==
  [at |-> At(m), px |-> KeySize(m), source |-> m.src, size |-> LoadedSize(m), owner |-> i,
   status |-> "pending", over |-> FALSE]

\* renderTex starts a load; a synchronous one ends at once.
Request(i, m) ==
  LET r   == Len(entries) + 1
      es  == Append(entries, NewEntry(i, m))
      ms  == [img EXCEPT ![i] = [m EXCEPT !.entry = r, !.latest = r, !.waiting = TRUE]]
  IN  /\ r <= MaxRequests
      /\ IF m.sync THEN PostImageLoad(ms, es, r) ELSE img' = ms /\ entries' = es

\* renderTex of image i in state old.  The cache takes the first hit; there is only
\* one (OneLoadPerAsset).
RenderTex(i, old) ==
  LET m    == Restart(old)
      hits == Cached([img EXCEPT ![i] = m], entries, m)
  IN  \/ \E e \in hits : Reuse(i, m, e)
      \/ hits = {} /\ m.src \in Icons /\ m.px = 0 /\ GiveUp(i, m)
      \/ hits = {} /\ ~(m.src \in Icons /\ m.px = 0) /\ Request(i, m)
-----------------------------------------------------------------------------
(* What happens to an image. *)

\* paint(), in any frame of its window.
Paint(i) ==
  LET m     == [img[i] EXCEPT !.dirty = FALSE]
      shown == IF HasTex(entries, m.entry) THEN m.entry ELSE m.old
      wants == \/ ~HasTex(entries, shown)
               \/ m.src \in Scalable /\ m.px # m.size
  IN  /\ i \in alive
      /\ IF ~m.failed /\ ~m.waiting /\ wants THEN RenderTex(i, m)
         ELSE img' = [img EXCEPT ![i] = m] /\ UNCHANGED entries
      /\ UNCHANGED alive

\* replaceData() of what rebuild() copied, which leaves sync as it is: the bytes go
\* to the buffer of those before, or to a free one.
ReplaceData(i, s, b) ==
  /\ i \in alive
  /\ EarlyIcons \/ s \notin Icons \/ img[i].px > 0
  /\ IF s \in Memory THEN \/ b = img[i].buf /\ b # NoBuffer
                          \/ b \in Buffers \ {img[j].buf : j \in alive}
                     ELSE b = img[i].buf
  /\ RenderTex(i, [img[i] EXCEPT !.src = s, !.buf = b, !.dirty = TRUE])
  /\ UNCHANGED alive

\* reposition() gives the element another size, or the window another scale.
Reposition(i, px) ==
  /\ i \in alive /\ px # img[i].px
  /\ img' = [img EXCEPT ![i].px = px, ![i].dirty = TRUE]
  /\ UNCHANGED <<alive, entries>>

\* The element is destroyed; its loads end without effect.
Destroy(i) ==
  /\ i \in alive
  /\ alive' = alive \ {i}
  /\ img' = [img EXCEPT ![i] = New(img[i].src, FALSE)]
  /\ UNCHANGED entries

\* The worker has loaded the resource of request r, its listener has posted the
\* idle function, which runs.
RunLoadIdle(r) ==
  /\ r \in 1 .. Len(entries)
  /\ ~entries[r].over /\ entries[r].owner \in alive
  /\ PostImageLoad(img, entries, r)
  /\ UNCHANGED alive

Next ==
  \/ \E i \in Images :
       \/ Paint(i) \/ Destroy(i)
       \/ \E s \in Sources, b \in Buffers \cup {NoBuffer} : ReplaceData(i, s, b)
       \/ \E px \in 0 .. MaxSize : Reposition(i, px)
  \/ \E r \in 1 .. MaxRequests : RunLoadIdle(r)

Spec == Init /\ [][Next]_vars
-----------------------------------------------------------------------------
\* The texture an image has, or waits for, is of the data it was given last,
\* however many loads are under way and in whatever order they finish
\* (requestGeneration).
OnlyNewestShown ==
  \A i \in alive : img[i].entry # 0 => entries[img[i].entry].source = img[i].src

\* The same asset is not loaded again while a load or a texture of it is there
\* (AssetCache.hpp), although the cache itself keeps nothing alive.
OneLoadPerAsset ==
  \A d, e \in 1 .. Len(entries) :
    LET live(x) == Held(img, entries, x) /\ entries[x].status # "failed"
    IN  live(d) /\ live(e) /\ entries[d].at = entries[e].at /\ entries[d].px = entries[e].px
          => d = e

\* The image shows its data, in its size.
Fresh(i) ==
  LET m     == img[i]
      shown == IF HasTex(entries, m.entry) THEN m.entry ELSE m.old
  IN  HasTex(entries, shown) /\ entries[shown].source = m.src /\ entries[shown].size = WantedSize(m)

\* The load of the entry an image waits for was started by an image that is gone.
Orphaned(i) ==
  img[i].waiting /\ img[i].entry # 0 /\ entries[img[i].entry].owner \notin alive

\* A load that will end the waiting of image i is under way.
Served(i) ==
  LET m == img[i]
  IN  /\ m.waiting /\ m.entry # 0
      /\ entries[m.entry].status = "pending"
      /\ ~entries[m.entry].over /\ entries[m.entry].owner \in alive
      /\ m.entry \in {m.listens, m.latest}

\* An image with a size that does not show its data has a frame coming that will
\* ask for it, or a load that will make it one, unless its data cannot be loaded:
\* no load that ends, and no change of size or data while one is under way, leaves
\* it waiting for nothing.  An image that shares the load of another one is left
\* so when that one is destroyed (Orphaned).  For an .svg path of another natural
\* size the frame never ends coming: each one asks again and gets the same texture.
ImageIsComing ==
  \A i \in alive :
    img[i].px > 0 /\ ~Fresh(i) => img[i].dirty \/ Served(i) \/ img[i].failed \/ Orphaned(i)

\* What is scalable is kept once per resolution: the texture known by a size has
\* that size (AssetCache.hpp).  That of an .svg path has not: its size is in the
\* cache string, not in the request.
KeptPerResolution ==
  \A e \in 1 .. Len(entries) :
    entries[e].status = "done" /\ entries[e].source \in Scalable /\ entries[e].px > 0
      => entries[e].size = entries[e].px
=============================================================================
