-------------------------- MODULE ImageLoadingProofs --------------------------
(***************************************************************************)
(* Proofs about ImageLoading, for any images, sources, sizes and number of *)
(* loads.  Which data an image shows is proved for sources that the cache  *)
(* knows by their name, not bytes (Memory = {}), and that no image is lost *)
(* for elements that are not given an icon before they have a size.        *)
(***************************************************************************)
EXTENDS ImageLoading, TLAPS

(* What every image state satisfies by itself. *)
Refs(es, m) == {m.entry, m.old, m.latest, m.listens} \subseteq 0 .. Len(es)

\* Bytes are somewhere, and what is stored there is asked for there.
BytesAreStored == \A i \in alive : img[i].src \in Memory => img[i].buf \in Buffers

TypeInv == TypeOK /\ BytesAreStored
-----------------------------------------------------------------------------
(* The operators. *)

LEMMA RecalcType ==
  ASSUME NEW es \in Seq(Entries), NEW m \in States, Refs(es, m)
  PROVE  Recalc(es, m) \in States /\ Refs(es, Recalc(es, m))
<1>1. m.entry \in 0 .. Len(es)
  BY DEF Refs
<1>2. HasTex(es, m.entry) => es[m.entry].size \in Pixels
  <2>1. SUFFICES ASSUME HasTex(es, m.entry) PROVE es[m.entry].size \in Pixels
    OBVIOUS
  <2>2. m.entry \in 1 .. Len(es)
    BY <1>1, <2>1 DEF HasTex
  <2>3. es[m.entry] \in Entries
    BY <2>2
  <2> QED BY <2>3 DEF Entries
<1>3. Recalc(es, m) \in States
  BY <1>2 DEF Recalc, States
<1>4. Refs(es, Recalc(es, m))
  BY DEF Refs, Recalc, States
<1> QED BY <1>3, <1>4

\* Recalculating keeps what an image asked for.
LEMMA RecalcKeeps ==
  ASSUME NEW es, NEW m \in States
  PROVE  LET n == Recalc(es, m)
         IN  /\ n.src = m.src /\ n.px = m.px /\ n.buf = m.buf /\ n.sync = m.sync
             /\ n.entry = m.entry /\ n.old = m.old /\ n.latest = m.latest /\ n.listens = m.listens
             /\ ~n.waiting
             /\ n.failed = m.failed
             /\ m.failed \/ n.dirty
             /\ ~m.failed /\ HasTex(es, m.entry) => n.size = es[m.entry].size
BY DEF Recalc, States

\* What the end of load r makes of the image j: one of three.
LEMMA DeliveredCases ==
  ASSUME NEW ms \in [Images -> States], NEW es \in Seq(Entries), NEW r \in 1 .. Len(es),
         NEW j \in Images, Refs(es, ms[j]), Len(es) <= MaxRequests,
         NEW d, d = Delivered(ms, es, r)[j]
  PROVE  /\ d \in States /\ Refs(es, d)
         /\ d.src = ms[j].src /\ d.px = ms[j].px /\ d.buf = ms[j].buf /\ d.latest = ms[j].latest
         /\ \/ /\ j = es[r].owner /\ ms[j].latest = r
               /\ d.entry = r /\ d.old = 0 /\ d.listens \in {0, ms[j].listens}
               /\ j \in alive => d.listens # r
               /\ ~d.waiting
               /\ d.failed = (es[r].status = "failed")
               /\ d.failed \/ d.dirty
               /\ es[r].status = "done" => d.size = es[r].size
            \/ /\ ms[j].listens = r
               /\ d.entry = ms[j].entry /\ d.old = ms[j].old /\ d.listens = 0
               /\ ~d.waiting
               /\ d.failed = (es[r].status = "failed")
               /\ d.failed \/ d.dirty
               /\ es[r].status = "done" /\ HasTex(es, d.entry) => d.size = es[d.entry].size
            \/ /\ d = ms[j]
               /\ ~(j = es[r].owner /\ ms[j].latest = r)
               /\ ~(j \in alive /\ ms[j].listens = r)
<1> DEFINE broken == es[r].status = "failed"
           m == ms[j]
           hears == j \in alive /\ m.listens = r
           asked == j = es[r].owner /\ m.latest = r
           x == [m EXCEPT !.failed = broken, !.listens = 0]
           h == IF hears THEN Recalc(es, x) ELSE m
           y == [h EXCEPT !.entry = r, !.failed = broken, !.old = 0]
<1>1. d = IF asked THEN Recalc(es, y) ELSE h
  BY DEF Delivered
<1>2. m \in States /\ Refs(es, m) /\ Len(es) \in Nat /\ broken \in BOOLEAN
      /\ 0 \in Ids /\ r \in Ids
  BY ImageLoadingAssumption DEF Ids
<1>3. /\ x \in States /\ Refs(es, x)
      /\ x.src = m.src /\ x.px = m.px /\ x.buf = m.buf /\ x.latest = m.latest
      /\ x.entry = m.entry /\ x.old = m.old /\ x.listens = 0
      /\ x.failed = broken
  <2> HIDE DEF m, broken
  <2>1. x \in States /\ x.listens = 0
    BY <1>2 DEF States
  <2>2. /\ x.src = m.src /\ x.px = m.px /\ x.buf = m.buf /\ x.latest = m.latest
        /\ x.entry = m.entry /\ x.old = m.old
    BY <1>2 DEF States
  <2>3. Refs(es, x)
    BY <1>2, <2>1, <2>2 DEF Refs
  <2>4. x.failed = broken
    BY <1>2 DEF States
  <2> QED BY <2>1, <2>2, <2>3, <2>4
<1>4. /\ h \in States /\ Refs(es, h)
      /\ h.src = m.src /\ h.px = m.px /\ h.buf = m.buf /\ h.latest = m.latest
      /\ h.listens \in {0, m.listens}
      /\ j \in alive => h.listens # r
  <2> HIDE DEF m, x
  <2>1. CASE hears
    BY <1>2, <1>3, <2>1, RecalcType, RecalcKeeps
  <2>2. CASE ~hears
    BY <1>2, <2>2
  <2> QED BY <2>1, <2>2
<1>5. /\ y \in States /\ Refs(es, y)
      /\ y.src = h.src /\ y.px = h.px /\ y.buf = h.buf /\ y.latest = h.latest
      /\ y.entry = r /\ y.old = 0 /\ y.listens = h.listens
      /\ y.failed = broken
  <2> HIDE DEF h, broken
  <2>1. y \in States /\ y.entry = r /\ y.old = 0
    BY <1>2, <1>4 DEF States, Refs
  <2>2. /\ y.src = h.src /\ y.px = h.px /\ y.buf = h.buf /\ y.latest = h.latest
        /\ y.listens = h.listens
    BY <1>4 DEF States
  <2>3. Refs(es, y)
    BY <1>2, <1>4, <2>1, <2>2 DEF Refs
  <2>4. y.failed = broken
    BY <1>2, <1>4 DEF States
  <2> QED BY <2>1, <2>2, <2>3, <2>4
<1>6. CASE asked
  <2> HIDE DEF h, y, x, asked, hears
  <2>1. d = Recalc(es, y)
    BY <1>1, <1>6
  <2>2. HasTex(es, r) <=> es[r].status = "done"
    BY DEF HasTex
  <2>3. /\ d \in States /\ Refs(es, d)
        /\ d.src = y.src /\ d.px = y.px /\ d.buf = y.buf /\ d.latest = y.latest
        /\ d.entry = r /\ d.old = 0 /\ d.listens = y.listens
        /\ ~d.waiting /\ d.failed = y.failed
        /\ y.failed \/ d.dirty
        /\ ~y.failed /\ HasTex(es, r) => d.size = es[r].size
    BY <1>5, <2>1, RecalcType, RecalcKeeps
  <2> QED BY <1>4, <1>5, <1>6, <2>2, <2>3 DEF asked
<1>7. CASE ~asked /\ hears
  <2> HIDE DEF x, asked
  <2>1. d = Recalc(es, x)
    BY <1>1, <1>7
  <2>2. /\ d \in States /\ Refs(es, d)
        /\ d.src = x.src /\ d.px = x.px /\ d.buf = x.buf /\ d.latest = x.latest
        /\ d.entry = x.entry /\ d.old = x.old /\ d.listens = x.listens
        /\ ~d.waiting /\ d.failed = x.failed
        /\ x.failed \/ d.dirty
        /\ ~x.failed /\ HasTex(es, d.entry) => d.size = es[d.entry].size
    BY <1>3, <2>1, RecalcType, RecalcKeeps
  <2> QED BY <1>3, <1>7, <2>2
<1>8. CASE ~asked /\ ~hears
  BY <1>1, <1>8
<1> QED BY <1>6, <1>7, <1>8

\* What an image is after renderTex has forgotten what it asked for before.
LEMMA RestartFields ==
  ASSUME TypeOK, NEW old \in States, Refs(entries, old), NEW m, m = Restart(old)
  PROVE  /\ m \in States /\ Refs(entries, m)
         /\ m.src = old.src /\ m.px = old.px /\ m.buf = old.buf /\ m.sync = old.sync
         /\ m.size = old.size /\ m.dirty = old.dirty /\ m.waiting = old.waiting
         /\ m.entry = 0 /\ m.latest = 0 /\ m.listens = 0 /\ ~m.failed
         /\ m.old = IF HasTex(entries, old.entry) THEN old.entry ELSE old.old
<1>1. 0 \in Ids /\ Len(entries) \in Nat
  BY ImageLoadingAssumption DEF Ids, TypeOK
<1>2. (IF HasTex(entries, old.entry) THEN old.entry ELSE old.old) \in Ids \cap 0 .. Len(entries)
  BY DEF States, Refs
<1>3. m \in States
  BY <1>1, <1>2 DEF Restart, States
<1>4. /\ m.src = old.src /\ m.px = old.px /\ m.buf = old.buf
      /\ m.size = old.size
      /\ m.entry = 0 /\ m.latest = 0 /\ m.listens = 0
      /\ m.old = IF HasTex(entries, old.entry) THEN old.entry ELSE old.old
  BY DEF Restart, States
<1>5. m.sync = old.sync /\ m.dirty = old.dirty /\ m.waiting = old.waiting /\ ~m.failed
  BY DEF Restart, States
<1>6. Refs(entries, m)
  BY <1>1, <1>2, <1>4 DEF Refs
<1> QED BY <1>3, <1>4, <1>5, <1>6

\* A load makes an entry for what the image is.
LEMMA RequestEntry ==
  ASSUME TypeOK, NEW i \in Images, NEW m \in States, m.src \in Memory => m.buf \in Buffers,
         Len(entries) + 1 <= MaxRequests,
         NEW es, es = Append(entries, NewEntry(i, m))
  PROVE  /\ es \in Seq(Entries) /\ Len(es) = Len(entries) + 1
         /\ es[Len(entries) + 1] = NewEntry(i, m)
         /\ \A k \in 1 .. Len(entries) : es[k] = entries[k]
<1>1. /\ At(m) \in Sources \cup Buffers /\ LoadedSize(m) \in Pixels
      /\ KeySize(m) \in 0 .. MaxSize
  BY ImageLoadingAssumption DEF At, KeySize, LoadedSize, States, Pixels, Sources
<1>2. NewEntry(i, m) \in Entries
  BY <1>1 DEF NewEntry, Entries, States
<1> QED BY <1>2 DEF TypeOK

\* A load that is over leaves the other entries alone.
LEMMA OverFields ==
  ASSUME NEW es \in Seq(Entries), NEW r \in 1 .. Len(es), NEW o, o = Over(es, r)
  PROVE  /\ o \in Seq(Entries) /\ Len(o) = Len(es)
         /\ o[r].at = es[r].at /\ o[r].source = es[r].source /\ o[r].size = es[r].size
         /\ o[r].owner = es[r].owner /\ o[r].px = es[r].px
         /\ o[r].over /\ o[r].status \in {"done", "failed"}
         /\ \A k \in 1 .. Len(es) : k # r => o[k] = es[k]
<1>1. es[r] \in Entries
  OBVIOUS
<1>2. PICK n : n = [es[r] EXCEPT !.over = TRUE, !.status = IF es[r].source \in Broken THEN "failed" ELSE "done"]
  OBVIOUS
<1>3. /\ n \in Entries
      /\ n.at = es[r].at /\ n.source = es[r].source /\ n.size = es[r].size
      /\ n.owner = es[r].owner /\ n.px = es[r].px /\ n.status \in {"done", "failed"}
  BY <1>1, <1>2 DEF Entries
<1>4. n.over
  BY <1>1, <1>2 DEF Entries
<1>5. o = [es EXCEPT ![r] = n]
  BY <1>1, <1>2 DEF Over, Entries
<1> QED BY <1>3, <1>4, <1>5
-----------------------------------------------------------------------------
(* What renderTex makes of image i, which was old, and of the entries: it takes an *)
(* entry, gives up, or starts a load, which may be over at once.                   *)

\* The images when image i, which was old, has forgotten what it asked for before.
Restarted(i, old) == [img EXCEPT ![i] = Restart(old)]

TakesEntry(i, old, n, es) ==
  /\ es = entries
  /\ \E e \in 1 .. Len(entries) :
       /\ Held(Restarted(i, old), entries, e)
       /\ es[e].at = At(old) /\ es[e].px = KeySize(old)
       /\ n.entry = e /\ n.latest = 0 /\ ~n.failed
       /\ \/ es[e].status = "done" /\ n.listens = 0 /\ ~n.waiting /\ n.dirty /\ n.size = es[e].size
          \/ es[e].status = "pending" /\ n.listens = e /\ n.waiting

GivesUp(old, n, es) ==
  es = entries /\ old.src \in Icons /\ old.px = 0 /\ n = Restart(old)

StartsLoad(i, old, n, es) ==
  LET r == Len(entries) + 1
  IN  /\ Cached(Restarted(i, old), entries, Restart(old)) = {}
      /\ Len(es) = r
      /\ \A k \in 1 .. Len(entries) : es[k] = entries[k]
      /\ es[r].at = At(old) /\ es[r].px = KeySize(old) /\ es[r].source = old.src
      /\ es[r].size = LoadedSize(old) /\ es[r].owner = i
      /\ n.entry = r /\ n.latest = r /\ n.listens = 0
      /\ \/ es[r].status = "pending" /\ ~es[r].over /\ n.waiting /\ ~n.failed
         \/ /\ es[r].status \in {"done", "failed"} /\ es[r].over
            /\ ~n.waiting /\ n.failed = (es[r].status = "failed")
            /\ n.failed \/ n.dirty
            /\ es[r].status = "done" => n.size = es[r].size

Rendered(i, old, n, es) ==
  /\ n.src = old.src /\ n.px = old.px /\ n.buf = old.buf
  /\ n.old \in {0, Restart(old).old}
  /\ TakesEntry(i, old, n, es) \/ GivesUp(old, n, es) \/ StartsLoad(i, old, n, es)

LEMMA RenderTexDoes ==
  ASSUME TypeOK, NEW i \in alive, NEW old \in States, Refs(entries, old),
         old.src \in Memory => old.buf \in Buffers, RenderTex(i, old)
  PROVE  /\ img' \in [Images -> States]
         /\ entries' \in Seq(Entries) /\ Len(entries) <= Len(entries') /\ Len(entries') <= MaxRequests
         /\ Refs(entries', img'[i])
         /\ \A j \in Images \ {i} : img'[j] = img[j]
         /\ Rendered(i, old, img'[i], entries')
<1> DEFINE r == Len(entries) + 1
<1>1. PICK m : m = Restart(old)
  OBVIOUS
<1>2. /\ m \in States /\ Refs(entries, m)
      /\ m.src = old.src /\ m.px = old.px /\ m.buf = old.buf /\ m.sync = old.sync
      /\ m.entry = 0 /\ m.latest = 0 /\ m.listens = 0 /\ ~m.failed
      /\ m.old = Restart(old).old
  BY <1>1, RestartFields
<1>3. At(m) = At(old) /\ KeySize(m) = KeySize(old) /\ LoadedSize(m) = LoadedSize(old)
  BY <1>2 DEF At, KeySize, LoadedSize
<1>4. i \in Images /\ img \in [Images -> States] /\ entries \in Seq(Entries) /\ Len(entries) \in Nat
      /\ Len(entries) <= MaxRequests /\ MaxRequests \in Nat
  BY ImageLoadingAssumption DEF TypeOK
<1>5. CASE \E e \in Cached([img EXCEPT ![i] = m], entries, m) : Reuse(i, m, e)
  <2>1. PICK e \in Cached([img EXCEPT ![i] = m], entries, m) : Reuse(i, m, e)
    BY <1>5
  <2>2. /\ e \in 1 .. Len(entries) /\ entries[e].at = At(old) /\ entries[e].px = KeySize(old)
        /\ entries[e].status # "failed"
        /\ Held(Restarted(i, old), entries, e)
    BY <1>1, <1>3 DEF Cached, Restarted
  <2>3. e \in Ids /\ e # 0 /\ e \in 0 .. Len(entries)
    BY <1>4, <2>2 DEF Ids
  <2>4. entries[e] \in Entries
    BY <1>4, <2>2
  <2>5. entries' = entries
    BY <2>1 DEF Reuse
  <2>6. CASE entries[e].status = "done"
    <3>1. PICK x : x = [m EXCEPT !.entry = e]
      OBVIOUS
    <3>2. x \in States
      BY <1>2, <2>3, <3>1 DEF States
    <3>3. /\ x.src = m.src /\ x.px = m.px /\ x.buf = m.buf /\ x.old = m.old
          /\ x.entry = e /\ x.latest = 0 /\ x.listens = 0 /\ ~x.failed
      BY <1>2, <3>1 DEF States
    <3>4. Refs(entries, x)
      BY <1>2, <2>3, <3>3 DEF Refs
    <3>5. PICK n : n = Recalc(entries, x)
      OBVIOUS
    <3>6. img' = [img EXCEPT ![i] = n]
      BY <2>1, <2>6, <3>1, <3>5 DEF Reuse
    <3>7. n \in States /\ Refs(entries, n)
      BY <1>4, <3>2, <3>4, <3>5, RecalcType
    <3>8. HasTex(entries, e)
      BY <2>3, <2>6 DEF HasTex
    <3>9. /\ n.src = x.src /\ n.px = x.px /\ n.buf = x.buf /\ n.old = x.old
          /\ n.entry = e /\ n.latest = 0 /\ n.listens = 0
          /\ ~n.waiting /\ ~n.failed /\ n.dirty
          /\ n.size = entries[e].size
      BY <3>2, <3>3, <3>5, <3>8, RecalcKeeps
    <3>10. TakesEntry(i, old, n, entries')
      BY <2>2, <2>5, <2>6, <3>9 DEF TakesEntry
    <3>11. Rendered(i, old, n, entries')
      BY <1>2, <3>3, <3>9, <3>10 DEF Rendered
    <3> QED BY <1>4, <2>5, <3>6, <3>7, <3>11
  <2>7. CASE entries[e].status # "done"
    <3>1. PICK n : n = [m EXCEPT !.entry = e, !.waiting = TRUE, !.listens = e]
      OBVIOUS
    <3>2. n \in States
      BY <1>2, <2>3, <3>1 DEF States
    <3>3. /\ n.src = m.src /\ n.px = m.px /\ n.buf = m.buf /\ n.old = m.old
          /\ n.entry = e /\ n.latest = 0 /\ n.listens = e
      BY <1>2, <3>1 DEF States
    <3>4. n.waiting /\ ~n.failed
      BY <1>2, <3>1 DEF States
    <3>5. Refs(entries, n)
      BY <1>2, <2>3, <3>3 DEF Refs
    <3>6. img' = [img EXCEPT ![i] = n]
      BY <2>1, <2>7, <3>1 DEF Reuse
    <3>7. entries[e].status = "pending"
      BY <2>2, <2>4, <2>7 DEF Entries
    <3>8. TakesEntry(i, old, n, entries')
      BY <2>2, <2>5, <3>3, <3>4, <3>7 DEF TakesEntry
    <3>9. Rendered(i, old, n, entries')
      BY <1>2, <3>3, <3>8 DEF Rendered
    <3> QED BY <1>4, <2>5, <3>2, <3>5, <3>6, <3>9
  <2> QED BY <2>6, <2>7
<1>6. CASE m.src \in Icons /\ m.px = 0 /\ GiveUp(i, m)
  <2>1. img' = [img EXCEPT ![i] = m] /\ entries' = entries
    BY <1>6 DEF GiveUp
  <2>2. GivesUp(old, m, entries')
    BY <1>1, <1>2, <1>6, <2>1 DEF GivesUp
  <2>3. Rendered(i, old, m, entries')
    BY <1>2, <2>2 DEF Rendered
  <2> QED BY <1>2, <1>4, <2>1, <2>3
<1>7. CASE Cached([img EXCEPT ![i] = m], entries, m) = {} /\ Request(i, m)
  <2>1. PICK n : n = NewEntry(i, m)
    OBVIOUS
  <2>2. PICK es : es = Append(entries, n)
    OBVIOUS
  <2>3. PICK x : x = [m EXCEPT !.entry = r, !.latest = r, !.waiting = TRUE]
    OBVIOUS
  <2>4. PICK ms : ms = [img EXCEPT ![i] = x]
    OBVIOUS
  <2>5. /\ r <= MaxRequests
        /\ IF m.sync THEN PostImageLoad(ms, es, r) ELSE img' = ms /\ entries' = es
    BY <1>7, <2>1, <2>2, <2>3, <2>4 DEF Request
  <2>6. /\ es \in Seq(Entries) /\ Len(es) = r /\ es[r] = n
        /\ \A k \in 1 .. Len(entries) : es[k] = entries[k]
    <3>1. (m.src \in Memory => m.buf \in Buffers) /\ Len(entries) + 1 <= MaxRequests
      BY <1>2, <2>5
    <3>2. /\ es \in Seq(Entries) /\ Len(es) = Len(entries) + 1
          /\ es[Len(entries) + 1] = n
          /\ \A k \in 1 .. Len(entries) : es[k] = entries[k]
      BY <1>2, <1>4, <2>1, <2>2, <3>1, RequestEntry
    <3> QED BY <3>2
  <2>7. r \in Ids /\ r \in 1 .. Len(es) /\ r \in 0 .. Len(es)
    BY <1>4, <2>5, <2>6 DEF Ids
  <2>8. /\ x \in States
        /\ x.src = m.src /\ x.px = m.px /\ x.buf = m.buf /\ x.old = m.old
        /\ x.entry = r /\ x.latest = r /\ x.listens = 0
    <3> HIDE DEF r
    <3>1. x \in States
      BY <1>2, <2>3, <2>7 DEF States
    <3>2. x.entry = r /\ x.latest = r /\ x.listens = 0
      BY <1>2, <2>3 DEF States
    <3>3. x.src = m.src /\ x.px = m.px /\ x.buf = m.buf /\ x.old = m.old
      BY <1>2, <2>3 DEF States
    <3> QED BY <3>1, <3>2, <3>3
  <2>9. x.waiting /\ ~x.failed
    BY <1>2, <2>3 DEF States
  <2>10. Refs(es, x)
    BY <1>2, <1>4, <2>6, <2>7, <2>8 DEF Refs
  <2>11. ms \in [Images -> States] /\ ms[i] = x /\ \A j \in Images \ {i} : ms[j] = img[j]
    BY <1>4, <2>4, <2>8
  <2>12. /\ n.at = At(old) /\ n.px = KeySize(old) /\ n.source = old.src
         /\ n.size = LoadedSize(old) /\ n.owner = i
         /\ n.status = "pending" /\ ~n.over
    BY <1>2, <1>3, <2>1 DEF NewEntry
  <2>13. Cached(Restarted(i, old), entries, Restart(old)) = {}
    BY <1>1, <1>7 DEF Restarted
  <2>14. CASE ~m.sync
    <3>1. img' = ms /\ entries' = es
      BY <2>5, <2>14
    <3>2. StartsLoad(i, old, x, entries')
      BY <2>6, <2>8, <2>9, <2>12, <2>13, <3>1 DEF StartsLoad
    <3>3. Rendered(i, old, x, entries')
      BY <1>2, <2>8, <3>2 DEF Rendered
    <3> QED BY <1>4, <2>5, <2>6, <2>10, <2>11, <3>1, <3>3
  <2>15. CASE m.sync
    <3>1. PICK o : o = Over(es, r)
      OBVIOUS
    <3>2. entries' = o /\ img' = Delivered(ms, o, r)
      BY <2>5, <2>15, <3>1 DEF PostImageLoad
    <3>3. /\ o \in Seq(Entries) /\ Len(o) = r
          /\ o[r].at = n.at /\ o[r].px = n.px /\ o[r].source = n.source
          /\ o[r].size = n.size /\ o[r].owner = i
          /\ o[r].over /\ o[r].status \in {"done", "failed"}
          /\ \A k \in 1 .. Len(entries) : o[k] = entries[k]
      <4>1. es \in Seq(Entries) /\ r \in 1 .. Len(es)
        BY <2>6, <2>7
      <4>2. /\ o \in Seq(Entries) /\ Len(o) = Len(es)
            /\ o[r].at = es[r].at /\ o[r].source = es[r].source /\ o[r].size = es[r].size
            /\ o[r].owner = es[r].owner /\ o[r].px = es[r].px
            /\ o[r].over /\ o[r].status \in {"done", "failed"}
            /\ \A k \in 1 .. Len(es) : k # r => o[k] = es[k]
        BY <3>1, <4>1, OverFields
      <4>3. \A k \in 1 .. Len(entries) : k \in 1 .. Len(es) /\ k # r
        BY <1>4, <2>6
      <4> QED BY <2>6, <2>12, <4>2, <4>3
    <3>4. \A j \in Images : Refs(o, ms[j])
      <4>1. Refs(o, ms[i])
        BY <2>6, <2>10, <2>11, <3>3 DEF Refs
      <4>2. ASSUME NEW j \in Images \ {i} PROVE Refs(o, ms[j])
        BY <1>4, <2>11, <3>3 DEF Refs, TypeOK
      <4> QED BY <4>1, <4>2
    <3>5. \A j \in Images : img'[j] \in States
      <4>1. TAKE j \in Images
      <4>2. PICK d : d = Delivered(ms, o, r)[j]
        OBVIOUS
      <4>3. d \in States
        BY <2>5, <2>7, <2>6, <2>11, <3>3, <3>4, <4>2, DeliveredCases
      <4> QED BY <3>2, <4>2, <4>3
    <3>6. img' = [j \in Images |-> img'[j]]
      BY <3>2 DEF Delivered
    <3>7. \A j \in Images \ {i} : img'[j] = img[j]
      <4>1. TAKE j \in Images \ {i}
      <4>2. PICK d : d = Delivered(ms, o, r)[j]
        OBVIOUS
      <4>3. ms[j].listens # r
        BY <1>4, <2>11 DEF TypeOK
      <4>4. d = ms[j]
        BY <2>5, <2>7, <2>6, <2>11, <3>3, <3>4, <4>2, <4>3, DeliveredCases
      <4> QED BY <2>11, <3>2, <4>2, <4>4
    <3>8. PICK d : d = Delivered(ms, o, r)[i]
      OBVIOUS
    <3>9. /\ d \in States /\ Refs(o, d)
          /\ d.src = x.src /\ d.px = x.px /\ d.buf = x.buf /\ d.latest = r
          /\ d.entry = r /\ d.old = 0 /\ d.listens = 0
          /\ ~d.waiting
          /\ d.failed = (o[r].status = "failed")
          /\ d.failed \/ d.dirty
          /\ o[r].status = "done" => d.size = o[r].size
      <4>1. o \in Seq(Entries) /\ r \in 1 .. Len(o) /\ Len(o) <= MaxRequests /\ Refs(o, ms[i])
        BY <1>4, <2>5, <2>7, <2>6, <3>3, <3>4
      <4>2. ms[i].latest = r /\ o[r].owner = i /\ ms[i].listens = 0
        BY <2>8, <2>11, <3>3
      <4> HIDE DEF r
      <4> QED BY <1>4, <2>8, <2>11, <3>8, <4>1, <4>2, DeliveredCases
    <3>10. StartsLoad(i, old, d, entries')
      BY <2>12, <2>13, <3>2, <3>3, <3>9 DEF StartsLoad
    <3>11. Rendered(i, old, d, entries')
      BY <1>2, <2>8, <3>2, <3>9, <3>10 DEF Rendered
    <3> QED BY <1>4, <2>5, <3>2, <3>3, <3>5, <3>6, <3>7, <3>8, <3>9, <3>11
  <2> QED BY <2>14, <2>15
<1> QED BY <1>1, <1>5, <1>6, <1>7 DEF RenderTex
\* What paint() does to an image in state m, in a frame that is due no more.
PaintedEntry(m) == IF HasTex(entries, m.entry) THEN m.entry ELSE m.old

Wants(m) == ~HasTex(entries, PaintedEntry(m)) \/ (m.src \in Scalable /\ m.px # m.size)

LEMMA PaintCases ==
  ASSUME NEW i \in Images, Paint(i), NEW m, m = [img[i] EXCEPT !.dirty = FALSE]
  PROVE  /\ i \in alive /\ alive' = alive
         /\ \/ ~m.failed /\ ~m.waiting /\ Wants(m) /\ RenderTex(i, m)
            \/ /\ m.failed \/ m.waiting \/ ~Wants(m)
               /\ img' = [img EXCEPT ![i] = m] /\ entries' = entries
<1>1. /\ i \in alive /\ alive' = alive
      /\ IF ~m.failed /\ ~m.waiting /\ Wants(m) THEN RenderTex(i, m)
         ELSE img' = [img EXCEPT ![i] = m] /\ UNCHANGED entries
  BY Zenon DEF Paint, Wants, PaintedEntry
<1> QED BY <1>1
-----------------------------------------------------------------------------
(* Type correctness. *)

LEMMA TypeInit == Init => TypeInv
<1> SUFFICES ASSUME Init PROVE TypeInv
  OBVIOUS
<1>1. 0 \in Ids /\ 0 \in Pixels /\ 0 \in 0 .. MaxSize
  BY ImageLoadingAssumption DEF Ids, Pixels
<1>2. ASSUME NEW s \in Files \cup Vectors \cup Icons, NEW y \in BOOLEAN PROVE New(s, y) \in States
  BY <1>1 DEF New, States, Sources
<1>3. img \in [Images -> States]
  BY <1>2 DEF Init
<1>4. entries \in Seq(Entries) /\ Len(entries) = 0
  BY DEF Init
<1>5. ASSUME NEW i \in Images
      PROVE  /\ {img[i].entry, img[i].old, img[i].latest, img[i].listens} \subseteq 0 .. Len(entries)
             /\ img[i].src \notin Memory
  <2>1. PICK s \in Files \cup Vectors \cup Icons, y \in BOOLEAN : img[i] = New(s, y)
    BY DEF Init
  <2> QED BY <1>4, <2>1, ImageLoadingAssumption DEF New
<1> QED BY <1>3, <1>4, <1>5, ImageLoadingAssumption DEF Init, TypeInv, TypeOK, BytesAreStored

\* An image painted or given other data, with what renderTex makes of it.
LEMMA TypeRender ==
  ASSUME TypeInv, NEW i \in alive, NEW old \in States, Refs(entries, old),
         old.src \in Memory => old.buf \in Buffers, RenderTex(i, old), alive' = alive
  PROVE  TypeInv'
<1> USE DEF TypeInv
<1>1. /\ img' \in [Images -> States]
      /\ entries' \in Seq(Entries) /\ Len(entries) <= Len(entries') /\ Len(entries') <= MaxRequests
      /\ Refs(entries', img'[i])
      /\ \A j \in Images \ {i} : img'[j] = img[j]
      /\ img'[i].src = old.src /\ img'[i].buf = old.buf
  BY RenderTexDoes DEF Rendered
<1>2. ASSUME NEW j \in Images
      PROVE  {img'[j].entry, img'[j].old, img'[j].latest, img'[j].listens} \subseteq 0 .. Len(entries')
  <2>1. CASE j = i
    BY <1>1, <2>1 DEF Refs
  <2>2. CASE j # i
    <3>1. Len(entries) \in Nat /\ Len(entries') \in Nat
      BY <1>1 DEF TypeOK
    <3> QED BY <1>1, <2>2, <3>1 DEF TypeOK
  <2> QED BY <2>1, <2>2
<1>3. TypeOK'
  BY <1>1, <1>2 DEF TypeOK
<1>4. BytesAreStored'
  BY <1>1 DEF BytesAreStored, TypeOK
<1> QED BY <1>3, <1>4

LEMMA TypeNext == TypeInv /\ [Next]_vars => TypeInv'
<1> SUFFICES ASSUME TypeInv, [Next]_vars PROVE TypeInv'
  OBVIOUS
<1> USE DEF TypeInv
<1>1. /\ alive \subseteq Images /\ img \in [Images -> States]
      /\ entries \in Seq(Entries) /\ Len(entries) \in Nat /\ Len(entries) <= MaxRequests
      /\ \A j \in Images : img[j] \in States /\ Refs(entries, img[j])
  BY DEF TypeOK, Refs
<1>2. ASSUME NEW i \in Images, NEW n \in States, Refs(entries, n),
             i \in alive' /\ n.src \in Memory => n.buf \in Buffers,
             img' = [img EXCEPT ![i] = n], entries' = entries, alive' \subseteq alive
      PROVE  TypeInv'
  <2>1. \A j \in Images : Refs(entries', img'[j])
    BY <1>1, <1>2
  <2>2. TypeOK'
    BY <1>1, <1>2, <2>1 DEF TypeOK, Refs
  <2>3. BytesAreStored'
    BY <1>1, <1>2 DEF BytesAreStored
  <2> QED BY <2>2, <2>3
<1>3. ASSUME NEW i \in Images, Paint(i) PROVE TypeInv'
  <2>1. PICK m : m = [img[i] EXCEPT !.dirty = FALSE]
    OBVIOUS
  <2>2. m \in States
    BY <1>1, <2>1 DEF States
  <2>3. /\ m.src = img[i].src /\ m.buf = img[i].buf /\ m.entry = img[i].entry /\ m.old = img[i].old
        /\ m.latest = img[i].latest /\ m.listens = img[i].listens
    BY <1>1, <2>1 DEF States
  <2>4. i \in alive /\ alive' = alive
    BY <1>3 DEF Paint
  <2>5. Refs(entries, m) /\ (m.src \in Memory => m.buf \in Buffers)
    BY <1>1, <2>3, <2>4 DEF Refs, BytesAreStored
  <2>6. RenderTex(i, m) \/ (img' = [img EXCEPT ![i] = m] /\ entries' = entries)
    BY <1>3, <2>1, PaintCases
  <2> QED BY <1>2, <2>2, <2>4, <2>5, <2>6, TypeRender
<1>4. ASSUME NEW i \in Images, NEW s \in Sources, NEW b \in Buffers \cup {NoBuffer},
             ReplaceData(i, s, b)
      PROVE  TypeInv'
  <2>1. PICK m : m = [img[i] EXCEPT !.src = s, !.buf = b, !.dirty = TRUE]
    OBVIOUS
  <2>2. m \in States
    BY <1>1, <2>1 DEF States
  <2>3. /\ m.src = s /\ m.buf = b /\ m.entry = img[i].entry /\ m.old = img[i].old
        /\ m.latest = img[i].latest /\ m.listens = img[i].listens
    BY <1>1, <2>1 DEF States
  <2>4. i \in alive /\ alive' = alive /\ RenderTex(i, m)
    BY <1>4, <2>1 DEF ReplaceData
  <2>5. Refs(entries, m)
    BY <1>1, <2>3 DEF Refs
  <2>6. m.src \in Memory => m.buf \in Buffers
    BY <1>4, <2>3 DEF ReplaceData
  <2> QED BY <2>2, <2>4, <2>5, <2>6, TypeRender
<1>5. ASSUME NEW i \in Images, NEW px \in 0 .. MaxSize, Reposition(i, px) PROVE TypeInv'
  <2>1. PICK n : n = [img[i] EXCEPT !.px = px, !.dirty = TRUE]
    OBVIOUS
  <2>2. n \in States
    BY <1>1, <2>1 DEF States
  <2>3. /\ n.src = img[i].src /\ n.buf = img[i].buf /\ n.entry = img[i].entry /\ n.old = img[i].old
        /\ n.latest = img[i].latest /\ n.listens = img[i].listens
    BY <1>1, <2>1 DEF States
  <2>4. /\ i \in alive /\ alive' = alive /\ entries' = entries
        /\ img' = [img EXCEPT ![i] = n]
    BY <1>5, <2>1 DEF Reposition
  <2>5. Refs(entries, n) /\ (n.src \in Memory => n.buf \in Buffers)
    BY <1>1, <2>3, <2>4 DEF Refs, BytesAreStored
  <2> QED BY <1>2, <2>2, <2>4, <2>5
<1>6. ASSUME NEW i \in Images, Destroy(i) PROVE TypeInv'
  <2>1. PICK n : n = New(img[i].src, FALSE)
    OBVIOUS
  <2>2. 0 \in Ids /\ 0 \in Pixels /\ 0 \in 0 .. MaxSize
    BY ImageLoadingAssumption DEF Ids, Pixels
  <2>3. img[i].src \in Sources
    BY <1>1 DEF States
  <2>4. n \in States
    BY <2>1, <2>2, <2>3 DEF New, States
  <2>5. Refs(entries, n)
    BY <1>1, <2>1 DEF Refs, New
  <2>6. /\ i \notin alive' /\ alive' \subseteq alive /\ entries' = entries
        /\ img' = [img EXCEPT ![i] = n]
    BY <1>6, <2>1 DEF Destroy
  <2> QED BY <1>2, <2>4, <2>5, <2>6
<1>7. ASSUME NEW r \in 1 .. MaxRequests, RunLoadIdle(r) PROVE TypeInv'
  <2>1. PICK o : o = Over(entries, r)
    OBVIOUS
  <2>2. r \in 1 .. Len(entries) /\ alive' = alive /\ entries' = o /\ img' = Delivered(img, o, r)
    BY <1>7, <2>1 DEF RunLoadIdle, PostImageLoad
  <2>3. o \in Seq(Entries) /\ Len(o) = Len(entries)
    BY <1>1, <2>1, <2>2, OverFields
  <2>4. ASSUME NEW j \in Images
        PROVE  img'[j] \in States /\ Refs(o, img'[j]) /\ img'[j].src = img[j].src /\ img'[j].buf = img[j].buf
    <3>1. PICK d : d = Delivered(img, o, r)[j]
      OBVIOUS
    <3>2. Refs(o, img[j]) /\ r \in 1 .. Len(o) /\ Len(o) <= MaxRequests
      BY <1>1, <2>2, <2>3 DEF Refs
    <3>3. d \in States /\ Refs(o, d) /\ d.src = img[j].src /\ d.buf = img[j].buf
      BY <1>1, <2>3, <3>1, <3>2, DeliveredCases
    <3> QED BY <2>2, <3>1, <3>3
  <2>5. img' = [j \in Images |-> img'[j]]
    BY <2>2 DEF Delivered
  <2>6. img' \in [Images -> States]
    BY <2>4, <2>5
  <2>7. TypeOK'
    BY <1>1, <2>2, <2>3, <2>4, <2>6 DEF TypeOK, Refs
  <2>8. BytesAreStored'
    BY <1>1, <2>2, <2>4 DEF BytesAreStored
  <2> QED BY <2>7, <2>8
<1>8. CASE UNCHANGED vars
  BY <1>8 DEF vars, TypeOK, BytesAreStored
<1> QED BY <1>3, <1>4, <1>5, <1>6, <1>7, <1>8 DEF Next

\* The state of images and entries is what the code can hold, and no image refers to
\* an entry that was never made, for any images, sources and number of loads.
THEOREM TypeCorrect == Spec => []TypeOK
<1>1. TypeInv => TypeOK
  BY DEF TypeInv
<1> QED BY <1>1, TypeInit, TypeNext, PTL DEF Spec

\* The strengthened form the other proofs start from.
LEMMA TypesHold == Spec => []TypeInv
BY TypeInit, TypeNext, PTL DEF Spec
-----------------------------------------------------------------------------
(* An image never takes a load of other data. *)

\* The entry an image has is of its data, and it is the one it waits for.
Named(es, i, m) ==
  /\ m.entry # 0 => es[m.entry].source = m.src
  /\ m.latest # 0 => m.entry = m.latest /\ es[m.latest].owner = i
  /\ m.listens # 0 => m.entry = m.listens

\* Without bytes, an entry is in the cache by the name of its data.
NameInv ==
  /\ \A k \in 1 .. Len(entries) : entries[k].at = entries[k].source
  /\ \A i \in alive : Named(entries, i, img[i])

\* What is known of an image that renderTex leaves alone stays so.
LEMMA NamedStays ==
  ASSUME NEW es, NEW i, NEW m \in States, Refs(entries, m), Len(entries) \in Nat,
         \A k \in 1 .. Len(entries) : es[k] = entries[k], Named(entries, i, m)
  PROVE  Named(es, i, m)
<1>1. \A k \in 0 .. Len(entries) : k # 0 => es[k] = entries[k]
  OBVIOUS
<1> QED BY <1>1 DEF Named, Refs

LEMMA NamedRender ==
  ASSUME Memory = {}, TypeInv, NameInv,
         NEW i \in alive, NEW old \in States, Refs(entries, old), RenderTex(i, old), alive' = alive
  PROVE  NameInv'
<1> USE DEF TypeInv
<1>1. old.src \notin Memory
  OBVIOUS
<1>2. /\ img' \in [Images -> States]
      /\ entries' \in Seq(Entries) /\ Len(entries) <= Len(entries')
      /\ \A j \in Images \ {i} : img'[j] = img[j]
      /\ Rendered(i, old, img'[i], entries')
  BY <1>1, RenderTexDoes
<1>3. Len(entries) \in Nat /\ alive \subseteq Images
  BY DEF TypeOK
<1>4. PICK n : n = img'[i]
  OBVIOUS
<1>5. Rendered(i, old, n, entries') /\ n.src = old.src
  BY <1>2, <1>4 DEF Rendered
<1>6. At(old) = old.src
  BY DEF At
<1>7. /\ Named(entries', i, n)
      /\ \A k \in 1 .. Len(entries) : entries'[k] = entries[k]
      /\ \A k \in 1 .. Len(entries') : entries'[k].at = entries'[k].source
  <2>1. CASE TakesEntry(i, old, n, entries')
    BY <1>5, <1>6, <2>1 DEF TakesEntry, Named, NameInv
  <2>2. CASE GivesUp(old, n, entries')
    <3>1. n.entry = 0 /\ n.latest = 0 /\ n.listens = 0
      BY <2>2, RestartFields DEF GivesUp
    <3> QED BY <2>2, <3>1 DEF GivesUp, Named, NameInv
  <2>3. CASE StartsLoad(i, old, n, entries')
    <3>1. PICK r : r = Len(entries) + 1
      OBVIOUS
    <3>2. /\ Len(entries') = r
          /\ \A k \in 1 .. Len(entries) : entries'[k] = entries[k]
          /\ entries'[r].at = old.src /\ entries'[r].source = old.src /\ entries'[r].owner = i
          /\ n.entry = r /\ n.latest = r /\ n.listens = 0
      BY <1>6, <2>3, <3>1 DEF StartsLoad
    <3>3. \A k \in 1 .. r : k = r \/ k \in 1 .. Len(entries)
      BY <1>3, <3>1
    <3>4. \A k \in 1 .. Len(entries') : entries'[k].at = entries'[k].source
      BY <3>2, <3>3 DEF NameInv
    <3>5. Named(entries', i, n)
      BY <1>5, <3>2 DEF Named
    <3> QED BY <3>2, <3>4, <3>5
  <2> QED BY <1>5, <2>1, <2>2, <2>3 DEF Rendered
<1>8. ASSUME NEW j \in alive PROVE Named(entries', j, img'[j])
  <2>1. CASE j = i
    BY <1>4, <1>7, <2>1
  <2>2. CASE j # i
    <3>1. img'[j] = img[j] /\ img[j] \in States /\ Refs(entries, img[j]) /\ Named(entries, j, img[j])
      BY <1>2, <1>3, <2>2 DEF TypeOK, Refs, NameInv
    <3> QED BY <1>3, <1>7, <3>1, NamedStays
  <2> QED BY <2>1, <2>2
<1> QED BY <1>7, <1>8 DEF NameInv

\* Painting and repositioning change nothing that names are about.
LEMMA NamedSame ==
  ASSUME NEW es, NEW i, NEW m, NEW n, Named(es, i, m),
         n.src = m.src, n.entry = m.entry, n.latest = m.latest, n.listens = m.listens
  PROVE  Named(es, i, n)
BY DEF Named

LEMMA NamedNext ==
  ASSUME Memory = {}, TypeInv, NameInv, [Next]_vars
  PROVE  NameInv'
<1>1. /\ alive \subseteq Images /\ img \in [Images -> States]
      /\ entries \in Seq(Entries) /\ Len(entries) \in Nat /\ Len(entries) <= MaxRequests
      /\ \A j \in Images : img[j] \in States /\ Refs(entries, img[j])
  BY DEF TypeInv, TypeOK, Refs
<1>2. ASSUME NEW i \in Images, NEW n, img' = [img EXCEPT ![i] = n], entries' = entries,
             alive' \subseteq alive, i \in alive' => Named(entries, i, n)
      PROVE  NameInv'
  BY <1>1, <1>2 DEF NameInv
<1>3. ASSUME NEW i \in Images, Paint(i) PROVE NameInv'
  <2>1. PICK m : m = [img[i] EXCEPT !.dirty = FALSE]
    OBVIOUS
  <2>2. m \in States
    BY <1>1, <2>1 DEF States
  <2>3. /\ m.src = img[i].src /\ m.entry = img[i].entry /\ m.old = img[i].old
        /\ m.latest = img[i].latest /\ m.listens = img[i].listens
    BY <1>1, <2>1 DEF States
  <2>4. /\ i \in alive /\ alive' = alive
        /\ RenderTex(i, m) \/ (img' = [img EXCEPT ![i] = m] /\ entries' = entries)
    BY <1>3, <2>1, PaintCases
  <2>5. Refs(entries, m) /\ Named(entries, i, img[i])
    BY <1>1, <2>3, <2>4 DEF Refs, NameInv
  <2>6. Named(entries, i, m)
    BY <2>3, <2>5, NamedSame
  <2> QED BY <1>2, <2>2, <2>4, <2>5, <2>6, NamedRender
<1>4. ASSUME NEW i \in Images, NEW s \in Sources, NEW b \in Buffers \cup {NoBuffer},
             ReplaceData(i, s, b)
      PROVE  NameInv'
  <2>1. PICK m : m = [img[i] EXCEPT !.src = s, !.buf = b, !.dirty = TRUE]
    OBVIOUS
  <2>2. m \in States
    BY <1>1, <2>1 DEF States
  <2>3. /\ m.entry = img[i].entry /\ m.old = img[i].old
        /\ m.latest = img[i].latest /\ m.listens = img[i].listens
    BY <1>1, <2>1 DEF States
  <2>4. i \in alive /\ alive' = alive /\ RenderTex(i, m)
    BY <1>4, <2>1 DEF ReplaceData
  <2>5. Refs(entries, m)
    BY <1>1, <2>3 DEF Refs
  <2> QED BY <2>2, <2>4, <2>5, NamedRender
<1>5. ASSUME NEW i \in Images, NEW px \in 0 .. MaxSize, Reposition(i, px) PROVE NameInv'
  <2>1. PICK n : n = [img[i] EXCEPT !.px = px, !.dirty = TRUE]
    OBVIOUS
  <2>2. /\ n.src = img[i].src /\ n.entry = img[i].entry
        /\ n.latest = img[i].latest /\ n.listens = img[i].listens
    BY <1>1, <2>1 DEF States
  <2>3. /\ i \in alive /\ alive' = alive /\ entries' = entries
        /\ img' = [img EXCEPT ![i] = n]
    BY <1>5, <2>1 DEF Reposition
  <2>4. Named(entries, i, img[i])
    BY <2>3 DEF NameInv
  <2>5. Named(entries, i, n)
    BY <2>2, <2>4, NamedSame
  <2> QED BY <1>2, <2>3, <2>5
<1>6. ASSUME NEW i \in Images, Destroy(i) PROVE NameInv'
  BY <1>2, <1>6 DEF Destroy
<1>7. ASSUME NEW r \in 1 .. MaxRequests, RunLoadIdle(r) PROVE NameInv'
  <2>1. PICK o : o = Over(entries, r)
    OBVIOUS
  <2>2. r \in 1 .. Len(entries) /\ alive' = alive /\ entries' = o /\ img' = Delivered(img, o, r)
    BY <1>7, <2>1 DEF RunLoadIdle, PostImageLoad
  <2>3. /\ o \in Seq(Entries) /\ Len(o) = Len(entries)
        /\ \A k \in 1 .. Len(entries) :
             o[k].at = entries[k].at /\ o[k].source = entries[k].source /\ o[k].owner = entries[k].owner
    <3>1. /\ o \in Seq(Entries) /\ Len(o) = Len(entries)
          /\ o[r].at = entries[r].at /\ o[r].source = entries[r].source /\ o[r].owner = entries[r].owner
          /\ \A k \in 1 .. Len(entries) : k # r => o[k] = entries[k]
      BY <1>1, <2>1, <2>2, OverFields
    <3> QED BY <3>1
  <2>4. ASSUME NEW j \in alive PROVE Named(o, j, img'[j])
    <3>1. PICK d : d = Delivered(img, o, r)[j]
      OBVIOUS
    <3>2. PICK m : m = img[j]
      OBVIOUS
    <3>3. m \in States /\ Refs(o, m) /\ r \in 1 .. Len(o) /\ Len(o) <= MaxRequests /\ j \in Images
      BY <1>1, <2>2, <2>3, <3>2 DEF Refs
    <3>4. Named(o, j, m)
      <4>1. Named(entries, j, m) /\ Refs(entries, m)
        BY <1>1, <3>2 DEF NameInv
      <4>2. \A k \in 0 .. Len(entries) : k # 0 =>
              o[k].source = entries[k].source /\ o[k].owner = entries[k].owner
        BY <2>3
      <4> QED BY <4>1, <4>2 DEF Named, Refs
    <3>5. /\ d.src = m.src /\ d.latest = m.latest /\ d.entry = m.entry
          /\ d.listens \in {0, m.listens}
      <4>1. m.latest = r => m.entry = r
        BY <3>3, <3>4 DEF Named
      <4> QED BY <1>1, <2>3, <3>1, <3>2, <3>3, <4>1, DeliveredCases
    <3>6. Named(o, j, d)
      BY <3>4, <3>5 DEF Named
    <3> QED BY <2>2, <3>1, <3>6
  <2>5. \A k \in 1 .. Len(o) : o[k].at = o[k].source
    BY <2>3 DEF NameInv
  <2> QED BY <2>2, <2>4, <2>5 DEF NameInv
<1>8. CASE UNCHANGED vars
  BY <1>8 DEF vars, NameInv
<1> QED BY <1>3, <1>4, <1>5, <1>6, <1>7, <1>8 DEF Next

LEMMA NamedInit == Init => NameInv
<1> SUFFICES ASSUME Init PROVE NameInv
  OBVIOUS
<1>1. ASSUME NEW i \in Images PROVE img[i].entry = 0 /\ img[i].latest = 0 /\ img[i].listens = 0
  BY DEF Init, New
<1> QED BY <1>1 DEF Init, NameInv, Named

\* However loads overlap and in whatever order they end, the texture an image has or
\* waits for is of the data it was given last, if the data is not bytes.
THEOREM NewestIsShown ==
  ASSUME Memory = {}
  PROVE  Spec => []OnlyNewestShown
<1>1. NameInv => OnlyNewestShown
  BY DEF NameInv, Named, OnlyNewestShown
<1>2. Init => TypeInv /\ NameInv
  BY TypeInit, NamedInit
<1>3. TypeInv /\ NameInv /\ [Next]_vars => (TypeInv /\ NameInv)'
  BY TypeNext, NamedNext
<1> QED BY <1>1, <1>2, <1>3, PTL DEF Spec
-----------------------------------------------------------------------------
(* No image waits for nothing. *)

\* Only a scalable icon has another size than its own; an entry is pending as long as its load is.
EntryInv ==
  \A k \in 1 .. Len(entries) :
    /\ entries[k].source \notin SvgIcons => entries[k].size = Natural
    /\ (entries[k].status = "pending") <=> ~entries[k].over

\* An image that waits has a load that tells it; one that does not and did not fail
\* has its texture, or shows that of its icon until it has a size again.
Waits(es, m) ==
  /\ m.old # 0 => es[m.old].status = "done"
  /\ m.waiting => ~m.failed /\ m.entry # 0 /\ es[m.entry].status = "pending" /\ m.entry \in {m.listens, m.latest}
  /\ ~m.waiting /\ m.failed => m.entry # 0 /\ es[m.entry].status = "failed"
  /\ ~m.waiting /\ ~m.failed =>
       \/ m.entry # 0 /\ es[m.entry].status = "done" /\ m.size = es[m.entry].size
       \/ /\ m.entry = 0
          /\ \/ m.old = 0
             \/ m.src \in Icons /\ es[m.old].source = m.src /\ m.size = es[m.old].size

\* Fresh, of image state m.
ShowsNow(es, m) ==
  LET shown == IF HasTex(es, m.entry) THEN m.entry ELSE m.old
  IN  HasTex(es, shown) /\ es[shown].source = m.src /\ es[shown].size = WantedSize(m)

\* Without a frame coming, an image that waits for nothing shows its data.
Shows(es, m) ==
  m.px > 0 /\ ~m.dirty /\ ~m.failed /\ ~m.waiting => ShowsNow(es, m)

LoadInv == EntryInv /\ \A i \in alive : Waits(entries, img[i]) /\ Shows(entries, img[i])

LostInv == TypeInv /\ NameInv /\ LoadInv

LEMMA LoadInvSuffices == LostInv => ImageIsComing
<1> SUFFICES ASSUME LostInv, NEW i \in alive, img[i].px > 0, ~Fresh(i),
                    ~img[i].dirty, ~img[i].failed, ~Orphaned(i)
             PROVE  Served(i)
  BY DEF ImageIsComing
<1> DEFINE m == img[i]
<1>1. ~ShowsNow(entries, m)
  BY DEF Fresh, ShowsNow
<1>2. Waits(entries, m) /\ Shows(entries, m)
  BY DEF LostInv, LoadInv
<1>3. m.waiting
  BY <1>1, <1>2 DEF Shows
<1>4. m.entry # 0 /\ entries[m.entry].status = "pending" /\ m.entry \in {m.listens, m.latest}
  BY <1>2, <1>3 DEF Waits
<1>5. m.entry \in 1 .. Len(entries)
  BY <1>4 DEF LostInv, TypeInv, TypeOK
<1>6. ~entries[m.entry].over
  BY <1>4, <1>5 DEF LostInv, LoadInv, EntryInv
<1> QED BY <1>3, <1>4, <1>6 DEF Served, Orphaned

\* Loads that are started change nothing for an image that is left alone.
LEMMA WaitsStays ==
  ASSUME NEW es, NEW m \in States, Refs(entries, m), Len(entries) \in Nat,
         \A k \in {m.entry, m.old} : k # 0 => es[k] = entries[k],
         Waits(entries, m), Shows(entries, m)
  PROVE  Waits(es, m) /\ Shows(es, m)
BY DEF Waits, Shows, ShowsNow, HasTex

\* renderTex leaves an image that has its texture, waits, or has a frame coming; it
\* gives up only on an image that shows its icon in another size, or nothing.
LEMMA WaitsRender ==
  ASSUME TypeInv, EntryInv, NEW i \in alive, NEW old \in States, Refs(entries, old),
         NEW n \in States, NEW es \in Seq(Entries), Rendered(i, old, n, es),
         old.old # 0 => entries[old.old].status = "done",
         old.src \in Icons /\ old.px = 0 =>
           ~old.waiting /\ ~old.failed /\ Waits(entries, old) /\ Named(entries, i, old)
  PROVE  /\ Waits(es, n) /\ Shows(es, n)
         /\ \A k \in 1 .. Len(es) :
              /\ es[k].source \notin SvgIcons => es[k].size = Natural
              /\ (es[k].status = "pending") <=> ~es[k].over
<1>1. PICK m : m = Restart(old)
  OBVIOUS
<1>2. /\ m.src = old.src /\ m.px = old.px /\ m.size = old.size /\ m.waiting = old.waiting
      /\ m.entry = 0 /\ m.latest = 0 /\ m.listens = 0 /\ ~m.failed
      /\ m.old = IF HasTex(entries, old.entry) THEN old.entry ELSE old.old
  BY <1>1, RestartFields DEF TypeInv
<1>3. m.old # 0 => entries[m.old].status = "done"
  BY <1>2 DEF HasTex
<1>4. n.src = old.src /\ n.px = old.px /\ n.old \in {0, m.old}
  BY <1>1 DEF Rendered
<1>5. Len(entries) \in Nat
  BY DEF TypeInv, TypeOK
<1>6. m.old \in 0 .. Len(entries)
  BY <1>2 DEF Refs
<1>7. CASE TakesEntry(i, old, n, es)
  <2>1. PICK e \in 1 .. Len(entries) :
          /\ es = entries
          /\ n.entry = e /\ n.latest = 0 /\ ~n.failed
          /\ \/ es[e].status = "done" /\ n.listens = 0 /\ ~n.waiting /\ n.dirty /\ n.size = es[e].size
             \/ es[e].status = "pending" /\ n.listens = e /\ n.waiting
    BY <1>7 DEF TakesEntry
  <2>2. Waits(es, n)
    BY <1>3, <1>4, <2>1 DEF Waits
  <2>3. Shows(es, n)
    BY <2>1 DEF Shows
  <2> QED BY <2>1, <2>2, <2>3 DEF EntryInv
<1>8. CASE GivesUp(old, n, es)
  <2>1. es = entries /\ old.src \in Icons /\ old.px = 0 /\ n = m
    BY <1>1, <1>8 DEF GivesUp
  <2>2. ~old.waiting /\ ~old.failed /\ Waits(entries, old) /\ Named(entries, i, old)
    BY <2>1
  <2>3. CASE HasTex(entries, old.entry)
    <3>1. /\ m.old = old.entry /\ entries[old.entry].source = old.src
          /\ old.size = entries[old.entry].size
      BY <1>2, <2>2, <2>3 DEF HasTex, Waits, Named
    <3> QED BY <1>2, <1>3, <2>1, <2>2, <3>1 DEF Waits, Shows, EntryInv
  <2>4. CASE ~HasTex(entries, old.entry)
    <3>1. m.old = old.old /\ old.entry = 0
      BY <1>2, <2>2, <2>4 DEF HasTex, Waits
    <3> QED BY <1>2, <1>3, <2>1, <2>2, <3>1 DEF Waits, Shows, EntryInv
  <2> QED BY <2>3, <2>4
<1>9. CASE StartsLoad(i, old, n, es)
  <2>1. PICK r : r = Len(entries) + 1
    OBVIOUS
  <2>2. /\ Len(es) = r /\ \A k \in 1 .. Len(entries) : es[k] = entries[k]
        /\ es[r].source = old.src /\ es[r].size = LoadedSize(old)
        /\ n.entry = r /\ n.latest = r
        /\ \/ es[r].status = "pending" /\ ~es[r].over /\ n.waiting /\ ~n.failed
           \/ /\ es[r].status \in {"done", "failed"} /\ es[r].over
              /\ ~n.waiting /\ n.failed = (es[r].status = "failed")
              /\ n.failed \/ n.dirty
              /\ es[r].status = "done" => n.size = es[r].size
    BY <1>9, <2>1 DEF StartsLoad
  <2>3. r # 0 /\ \A k \in 1 .. r : k = r \/ k \in 1 .. Len(entries)
    BY <1>5, <2>1
  <2>4. n.old # 0 => es[n.old].status = "done"
    BY <1>3, <1>4, <1>5, <1>6, <2>2
  <2>5. Waits(es, n)
    BY <2>2, <2>3, <2>4 DEF Waits
  <2>6. Shows(es, n)
    BY <2>2 DEF Shows
  <2>7. ASSUME NEW k \in 1 .. Len(es)
        PROVE  /\ es[k].source \notin SvgIcons => es[k].size = Natural
               /\ (es[k].status = "pending") <=> ~es[k].over
    <3>1. CASE k = r
      BY <2>2, <3>1 DEF LoadedSize
    <3>2. CASE k # r
      BY <2>2, <2>3, <3>2 DEF EntryInv
    <3> QED BY <3>1, <3>2
  <2> QED BY <2>5, <2>6, <2>7
<1> QED BY <1>7, <1>8, <1>9 DEF Rendered

LEMMA LoadRender ==
  ASSUME LostInv, NEW i \in alive, NEW old \in States, Refs(entries, old),
         old.src \in Memory => old.buf \in Buffers, RenderTex(i, old), alive' = alive,
         old.old # 0 => entries[old.old].status = "done",
         old.src \in Icons /\ old.px = 0 =>
           ~old.waiting /\ ~old.failed /\ Waits(entries, old) /\ Named(entries, i, old)
  PROVE  LoadInv'
<1> USE DEF LostInv
<1>1. /\ img' \in [Images -> States]
      /\ entries' \in Seq(Entries) /\ Len(entries) <= Len(entries')
      /\ \A j \in Images \ {i} : img'[j] = img[j]
      /\ Rendered(i, old, img'[i], entries')
  BY RenderTexDoes DEF TypeInv
<1>2. alive \subseteq Images /\ i \in Images /\ Len(entries) \in Nat
  BY DEF TypeInv, TypeOK
<1>3. PICK n : n = img'[i]
  OBVIOUS
<1>4. n \in States /\ Rendered(i, old, n, entries')
  BY <1>1, <1>2, <1>3
<1>5. /\ Waits(entries', n) /\ Shows(entries', n)
      /\ \A k \in 1 .. Len(entries') :
           /\ entries'[k].source \notin SvgIcons => entries'[k].size = Natural
           /\ (entries'[k].status = "pending") <=> ~entries'[k].over
  BY <1>1, <1>4, WaitsRender DEF LoadInv
<1>6. \A k \in 1 .. Len(entries) : entries'[k] = entries[k]
  BY <1>1, <1>2 DEF Rendered, TakesEntry, GivesUp, StartsLoad
<1>7. ASSUME NEW j \in alive, j # i
      PROVE  Waits(entries', img'[j]) /\ Shows(entries', img'[j])
  <2>1. /\ img'[j] = img[j] /\ img[j] \in States /\ Refs(entries, img[j])
        /\ Waits(entries, img[j]) /\ Shows(entries, img[j])
    BY <1>1, <1>2, <1>7 DEF TypeInv, TypeOK, Refs, LoadInv
  <2>2. \A k \in {img[j].entry, img[j].old} : k # 0 => entries'[k] = entries[k]
    BY <1>2, <1>6, <2>1 DEF Refs
  <2> QED BY <1>2, <2>1, <2>2, WaitsStays
<1> QED BY <1>3, <1>5, <1>7 DEF LoadInv, EntryInv

\* An image that paint() only paints shows its data, if it waits for nothing.
LEMMA PaintedShows ==
  ASSUME LostInv, NEW i \in alive, NEW m \in States, Refs(entries, m),
         Waits(entries, m), Named(entries, i, m),
         m.failed \/ m.waiting \/ ~Wants(m)
  PROVE  Shows(entries, m)
<1> SUFFICES ASSUME ~m.failed, ~m.waiting PROVE ShowsNow(entries, m)
  BY DEF Shows
<1>1. /\ HasTex(entries, PaintedEntry(m))
      /\ m.src \in Scalable => m.px = m.size
  BY DEF Wants
<1>2. EntryInv
  BY DEF LostInv, LoadInv
<1>3. CASE HasTex(entries, m.entry)
  <2>1. /\ m.entry \in 1 .. Len(entries) /\ entries[m.entry].source = m.src
        /\ m.size = entries[m.entry].size
    BY <1>3 DEF HasTex, Waits, Named, Refs
  <2>2. entries[m.entry].size = WantedSize(m)
    BY <1>1, <1>2, <2>1 DEF WantedSize, EntryInv, Scalable
  <2> QED BY <1>3, <2>1, <2>2 DEF ShowsNow
<1>4. CASE ~HasTex(entries, m.entry)
  <2>1. HasTex(entries, m.old) /\ m.old # 0
    BY <1>1, <1>4 DEF PaintedEntry, HasTex
  <2>2. m.src \in Icons /\ entries[m.old].source = m.src /\ m.size = entries[m.old].size
    BY <1>4, <2>1 DEF HasTex, Waits
  <2>3. m.old \in 1 .. Len(entries)
    BY <2>1 DEF Refs
  <2>4. entries[m.old].size = WantedSize(m)
    BY <1>1, <1>2, <2>2, <2>3 DEF WantedSize, EntryInv, Scalable
  <2> QED BY <1>4, <2>1, <2>2, <2>4 DEF ShowsNow
<1> QED BY <1>3, <1>4

\* The end of load r leaves nobody waiting for it.
LEMMA WaitsDelivered ==
  ASSUME LostInv, NEW r \in 1 .. Len(entries), ~entries[r].over, NEW o, o = Over(entries, r),
         NEW j \in alive, NEW d, d = Delivered(img, o, r)[j]
  PROVE  Waits(o, d) /\ Shows(o, d)
<1> USE DEF LostInv
<1>1. PICK m : m = img[j]
  OBVIOUS
<1>2. /\ j \in Images /\ img \in [Images -> States] /\ entries \in Seq(Entries)
      /\ Len(entries) \in Nat /\ Len(entries) <= MaxRequests
      /\ m \in States /\ Refs(entries, m)
  BY <1>1 DEF TypeInv, TypeOK, Refs
<1>3. /\ o \in Seq(Entries) /\ Len(o) = Len(entries)
      /\ o[r].source = entries[r].source /\ o[r].size = entries[r].size
      /\ o[r].owner = entries[r].owner /\ o[r].status \in {"done", "failed"}
      /\ \A k \in 1 .. Len(entries) : k # r => o[k] = entries[k]
  BY <1>2, OverFields
<1>4. Waits(entries, m) /\ Shows(entries, m) /\ Named(entries, j, m)
  BY <1>1 DEF LoadInv, NameInv
<1>5. entries[r].status = "pending"
  BY DEF LoadInv, EntryInv
<1>6. m.old # r
  BY <1>4, <1>5 DEF Waits
<1>7. m.old # 0 => o[m.old].status = "done"
  BY <1>2, <1>3, <1>4, <1>6 DEF Waits, Refs
<1>8. Refs(o, m) /\ r \in 1 .. Len(o) /\ Len(o) <= MaxRequests
  BY <1>2, <1>3 DEF Refs
<1>9. CASE (j = o[r].owner /\ m.latest = r) \/ m.listens = r
  <2>1. m.entry = r
    BY <1>4, <1>9 DEF Named
  <2>2. /\ d.entry = r /\ d.old \in {0, m.old} /\ ~d.waiting
        /\ d.failed = (o[r].status = "failed")
        /\ d.failed \/ d.dirty
        /\ o[r].status = "done" => d.size = o[r].size
    <3>1. HasTex(o, r) <=> o[r].status = "done"
      BY DEF HasTex
    <3> QED BY <1>1, <1>2, <1>3, <1>8, <1>9, <2>1, <3>1, DeliveredCases
  <2>3. Waits(o, d)
    <3>1. r # 0
      OBVIOUS
    <3>2. d.old # 0 => o[d.old].status = "done"
      BY <1>7, <2>2
    <3>3. d.failed <=> o[r].status = "failed"
      BY <2>2
    <3>4. ~d.failed => o[r].status = "done"
      BY <1>3, <3>3
    <3> QED BY <2>2, <3>1, <3>2, <3>3, <3>4 DEF Waits
  <2>4. Shows(o, d)
    BY <2>2 DEF Shows
  <2> QED BY <2>3, <2>4
<1>10. CASE ~(j = o[r].owner /\ m.latest = r) /\ m.listens # r
  <2>1. d = m
    BY <1>1, <1>2, <1>3, <1>8, <1>10, DeliveredCases
  <2>2. m.entry # r
    BY <1>3, <1>4, <1>5, <1>10 DEF Waits, Named
  <2>3. \A k \in {m.entry, m.old} : k # 0 => o[k] = entries[k]
    BY <1>2, <1>3, <1>6, <2>2 DEF Refs
  <2> QED BY <1>2, <1>4, <2>1, <2>3, WaitsStays
<1> QED BY <1>9, <1>10

\* What a frame or a change of size leaves alone keeps the image waiting as it was.
LEMMA WaitsSame ==
  ASSUME NEW es, NEW m, NEW n, Waits(es, m),
         n.src = m.src, n.size = m.size, n.entry = m.entry, n.old = m.old,
         n.latest = m.latest, n.listens = m.listens, n.waiting = m.waiting, n.failed = m.failed
  PROVE  Waits(es, n)
BY DEF Waits

LEMMA LoadNext ==
  ASSUME Memory = {}, ~EarlyIcons, LostInv, [Next]_vars
  PROVE  LoadInv'
<1> USE DEF LostInv
<1>1. /\ alive \subseteq Images /\ img \in [Images -> States]
      /\ entries \in Seq(Entries) /\ Len(entries) \in Nat /\ Len(entries) <= MaxRequests
      /\ \A j \in Images : img[j] \in States /\ Refs(entries, img[j])
      /\ EntryInv
      /\ \A j \in alive : Waits(entries, img[j]) /\ Shows(entries, img[j]) /\ Named(entries, j, img[j])
  BY DEF TypeInv, TypeOK, Refs, LoadInv, NameInv
<1>2. ASSUME NEW i \in Images, NEW n, img' = [img EXCEPT ![i] = n], entries' = entries,
             alive' \subseteq alive, i \in alive' => Waits(entries, n) /\ Shows(entries, n)
      PROVE  LoadInv'
  BY <1>1, <1>2 DEF LoadInv, EntryInv
<1>3. ASSUME NEW i \in Images, Paint(i) PROVE LoadInv'
  <2>1. PICK m : m = [img[i] EXCEPT !.dirty = FALSE]
    OBVIOUS
  <2>2. m \in States
    BY <1>1, <2>1 DEF States
  <2>3. /\ m.src = img[i].src /\ m.entry = img[i].entry /\ m.old = img[i].old
        /\ m.latest = img[i].latest /\ m.listens = img[i].listens /\ m.size = img[i].size
    BY <1>1, <2>1 DEF States
  <2>4. m.waiting = img[i].waiting /\ m.failed = img[i].failed
    BY <1>1, <2>1 DEF States
  <2>5. /\ i \in alive /\ alive' = alive
        /\ \/ ~m.failed /\ ~m.waiting /\ Wants(m) /\ RenderTex(i, m)
           \/ /\ m.failed \/ m.waiting \/ ~Wants(m)
              /\ img' = [img EXCEPT ![i] = m] /\ entries' = entries
    BY <1>3, <2>1, PaintCases
  <2>6. Refs(entries, m)
    BY <1>1, <2>3 DEF Refs
  <2>7. Waits(entries, m)
    BY <1>1, <2>3, <2>4, <2>5, WaitsSame
  <2>8. Named(entries, i, m)
    BY <1>1, <2>3, <2>5, NamedSame
  <2>9. CASE ~m.failed /\ ~m.waiting /\ RenderTex(i, m)
    <3>1. m.old # 0 => entries[m.old].status = "done"
      BY <2>7 DEF Waits
    <3> QED BY <2>2, <2>5, <2>6, <2>7, <2>8, <2>9, <3>1, LoadRender
  <2>10. CASE /\ m.failed \/ m.waiting \/ ~Wants(m)
              /\ img' = [img EXCEPT ![i] = m] /\ entries' = entries
    <3>1. Shows(entries, m)
      BY <2>2, <2>5, <2>6, <2>7, <2>8, <2>10, PaintedShows
    <3> QED BY <1>2, <2>5, <2>7, <2>10, <3>1
  <2> QED BY <2>5, <2>9, <2>10
<1>4. ASSUME NEW i \in Images, NEW s \in Sources, NEW b \in Buffers \cup {NoBuffer},
             ReplaceData(i, s, b)
      PROVE  LoadInv'
  <2>1. PICK m : m = [img[i] EXCEPT !.src = s, !.buf = b, !.dirty = TRUE]
    OBVIOUS
  <2>2. m \in States
    BY <1>1, <2>1 DEF States
  <2>3. /\ m.src = s /\ m.px = img[i].px /\ m.entry = img[i].entry /\ m.old = img[i].old
        /\ m.latest = img[i].latest /\ m.listens = img[i].listens
    BY <1>1, <2>1 DEF States
  <2>4. i \in alive /\ alive' = alive /\ RenderTex(i, m) /\ (s \notin Icons \/ img[i].px > 0)
    BY <1>4, <2>1 DEF ReplaceData
  <2>5. Refs(entries, m)
    BY <1>1, <2>3 DEF Refs
  <2>6. m.old # 0 => entries[m.old].status = "done"
    BY <1>1, <2>3, <2>4 DEF Waits
  <2>7. ~(m.src \in Icons /\ m.px = 0)
    BY <2>3, <2>4
  <2> QED BY <2>2, <2>4, <2>5, <2>6, <2>7, LoadRender
<1>5. ASSUME NEW i \in Images, NEW px \in 0 .. MaxSize, Reposition(i, px) PROVE LoadInv'
  <2>1. PICK n : n = [img[i] EXCEPT !.px = px, !.dirty = TRUE]
    OBVIOUS
  <2>2. /\ n.src = img[i].src /\ n.entry = img[i].entry /\ n.old = img[i].old
        /\ n.latest = img[i].latest /\ n.listens = img[i].listens /\ n.size = img[i].size
    BY <1>1, <2>1 DEF States
  <2>3. n.waiting = img[i].waiting /\ n.failed = img[i].failed /\ n.dirty
    BY <1>1, <2>1 DEF States
  <2>4. /\ i \in alive /\ alive' = alive /\ entries' = entries
        /\ img' = [img EXCEPT ![i] = n]
    BY <1>5, <2>1 DEF Reposition
  <2>5. Waits(entries, n)
    BY <1>1, <2>2, <2>3, <2>4, WaitsSame
  <2>6. Shows(entries, n)
    BY <2>3 DEF Shows
  <2> QED BY <1>2, <2>4, <2>5, <2>6
<1>6. ASSUME NEW i \in Images, Destroy(i) PROVE LoadInv'
  BY <1>2, <1>6 DEF Destroy
<1>7. ASSUME NEW r \in 1 .. MaxRequests, RunLoadIdle(r) PROVE LoadInv'
  <2>1. PICK o : o = Over(entries, r)
    OBVIOUS
  <2>2. /\ r \in 1 .. Len(entries) /\ ~entries[r].over
        /\ alive' = alive /\ entries' = o /\ img' = Delivered(img, o, r)
    BY <1>7, <2>1 DEF RunLoadIdle, PostImageLoad
  <2>3. ASSUME NEW j \in alive PROVE Waits(o, img'[j]) /\ Shows(o, img'[j])
    <3>1. PICK d : d = Delivered(img, o, r)[j]
      OBVIOUS
    <3>2. Waits(o, d) /\ Shows(o, d)
      BY <2>1, <2>2, <3>1, WaitsDelivered
    <3> QED BY <2>2, <3>1, <3>2
  <2>4. /\ Len(o) = Len(entries)
        /\ o[r].source = entries[r].source /\ o[r].size = entries[r].size
        /\ o[r].over /\ o[r].status \in {"done", "failed"}
        /\ \A k \in 1 .. Len(entries) : k # r => o[k] = entries[k]
    BY <1>1, <2>1, <2>2, OverFields
  <2>5. ASSUME NEW k \in 1 .. Len(o)
        PROVE  /\ o[k].source \notin SvgIcons => o[k].size = Natural
               /\ (o[k].status = "pending") <=> ~o[k].over
    <3>1. CASE k = r
      BY <1>1, <2>2, <2>4, <3>1 DEF EntryInv
    <3>2. CASE k # r
      BY <1>1, <2>4, <3>2 DEF EntryInv
    <3> QED BY <3>1, <3>2
  <2> QED BY <2>2, <2>3, <2>5 DEF LoadInv, EntryInv
<1>8. CASE UNCHANGED vars
  BY <1>8 DEF vars, LoadInv, EntryInv
<1> QED BY <1>3, <1>4, <1>5, <1>6, <1>7, <1>8 DEF Next

LEMMA LoadInit == Init => LoadInv
<1> SUFFICES ASSUME Init PROVE LoadInv
  OBVIOUS
<1>1. ASSUME NEW i \in Images
      PROVE  img[i].entry = 0 /\ img[i].old = 0 /\ ~img[i].waiting /\ ~img[i].failed /\ img[i].dirty
  BY DEF Init, New
<1> QED BY <1>1 DEF Init, LoadInv, EntryInv, Waits, Shows

\* An image with a size is shown, has a frame or a load coming, could not be loaded, or
\* shared the load of an image that is gone: nothing else leaves it waiting, if data is
\* not bytes and no element is given an icon before it has a size.  What comes need not
\* bring the size: the texture of an .svg path keeps its natural one (LoadedSize), so
\* one of another size has a frame coming, and asks again in it, for ever.
THEOREM NoImageIsLost ==
  ASSUME Memory = {}, ~EarlyIcons
  PROVE  Spec => []ImageIsComing
<1>1. Init => LostInv
  BY TypeInit, NamedInit, LoadInit DEF LostInv
<1>2. LostInv /\ [Next]_vars => LostInv'
  BY TypeNext, NamedNext, LoadNext DEF LostInv
<1> QED BY <1>1, <1>2, LoadInvSuffices, PTL DEF Spec
-----------------------------------------------------------------------------
(* No asset is loaded twice. *)

\* Entry e is one the cache may return.
Live(e) == Held(img, entries, e) /\ entries[e].status # "failed"

SameKey(d, e) == entries[d].at = entries[e].at /\ entries[d].px = entries[e].px

\* An entry is found only if it was before: nothing brings an entry back.
NothingRevived ==
  \A e \in 1 .. Len(entries) :
    /\ entries'[e].at = entries[e].at /\ entries'[e].px = entries[e].px
    /\ Live(e)' => Live(e)

\* If nothing is revived and a new entry is of a new asset, one load per asset stays.
LEMMA OneLoadStays ==
  ASSUME Len(entries) \in Nat, OneLoadPerAsset, NothingRevived, NEW r, r = Len(entries) + 1,
         \/ Len(entries') = Len(entries)
         \/ /\ Len(entries') = r
            /\ \A e \in 1 .. Len(entries) : Live(e)' => ~SameKey(e, r)'
  PROVE  OneLoadPerAsset'
<1>1. \A d, e \in 1 .. Len(entries) : Live(d) /\ Live(e) /\ SameKey(d, e) => d = e
  BY DEF OneLoadPerAsset, Live, SameKey
<1>2. \A d, e \in 1 .. Len(entries) : Live(d)' /\ Live(e)' /\ SameKey(d, e)' => d = e
  BY <1>1 DEF NothingRevived, SameKey
<1>3. \A d, e \in 1 .. Len(entries') : Live(d)' /\ Live(e)' /\ SameKey(d, e)' => d = e
  <2>1. CASE Len(entries') = Len(entries)
    BY <1>2, <2>1
  <2>2. CASE /\ Len(entries') = r
             /\ \A e \in 1 .. Len(entries) : Live(e)' => ~SameKey(e, r)'
    <3>1. TAKE d, e \in 1 .. Len(entries')
    <3>2. HAVE Live(d)' /\ Live(e)' /\ SameKey(d, e)'
    <3>3. SameKey(e, d)'
      BY <3>2 DEF SameKey
    <3>4. CASE d \in 1 .. Len(entries) /\ e \in 1 .. Len(entries)
      BY <1>2, <3>2, <3>4
    <3>5. CASE d = r /\ e \in 1 .. Len(entries)
      BY <2>2, <3>2, <3>3, <3>5
    <3>6. CASE e = r /\ d \in 1 .. Len(entries)
      BY <2>2, <3>2, <3>6
    <3> QED BY <2>2, <3>4, <3>5, <3>6
  <2> QED BY <2>1, <2>2
<1> QED BY <1>3 DEF OneLoadPerAsset, Live, SameKey

LEMMA OneLoadRender ==
  ASSUME TypeInv, OneLoadPerAsset, NEW i \in alive, NEW old \in States, Refs(entries, old),
         old.src \in Memory => old.buf \in Buffers, RenderTex(i, old), alive' = alive,
         old.entry = img[i].entry, old.old = img[i].old
  PROVE  OneLoadPerAsset'
<1> USE DEF TypeInv
<1>1. /\ alive \subseteq Images /\ i \in Images /\ img \in [Images -> States]
      /\ Len(entries) \in Nat
  BY DEF TypeOK
<1>2. /\ img' \in [Images -> States]
      /\ \A j \in Images \ {i} : img'[j] = img[j]
      /\ Rendered(i, old, img'[i], entries')
  BY RenderTexDoes
<1>3. PICK m : m = Restart(old)
  OBVIOUS
<1>4. m.src = old.src /\ m.px = old.px /\ m.buf = old.buf /\ m.entry = 0
      /\ m.old \in {img[i].entry, img[i].old}
  BY <1>3, RestartFields
<1>5. PICK n : n = img'[i]
  OBVIOUS
<1>6. PICK ms : ms = Restarted(i, old)
  OBVIOUS
<1>7. \A j \in Images : ms[j] = IF j = i THEN m ELSE img[j]
  BY <1>1, <1>3, <1>6 DEF Restarted
<1>8. \A e \in 1 .. Len(entries) : Held(ms, entries, e) => Held(img, entries, e)
  BY <1>1, <1>4, <1>7 DEF Held
<1>9. \A e \in 1 .. Len(entries) : entries'[e] = entries[e]
  BY <1>2 DEF Rendered, TakesEntry, GivesUp, StartsLoad
<1>10. n.old \in {0, m.old} /\ Rendered(i, old, n, entries')
  BY <1>2, <1>3, <1>5 DEF Rendered
<1>11. ASSUME NEW e \in 1 .. Len(entries), Held(img, entries, e)', n.entry # e
       PROVE  Held(ms, entries, e)
  <2>1. CASE entries[e].owner \in alive /\ ~entries[e].over
    BY <2>1 DEF Held
  <2>2. CASE ~(entries[e].owner \in alive /\ ~entries[e].over)
    <3>1. PICK j \in alive : e \in {img'[j].entry, img'[j].old}
      BY <1>9, <1>11, <2>2 DEF Held
    <3>2. e \in {ms[j].entry, ms[j].old}
      BY <1>1, <1>2, <1>5, <1>7, <1>10, <1>11, <3>1
    <3> QED BY <3>2 DEF Held
  <2> QED BY <2>1, <2>2
<1>12. CASE TakesEntry(i, old, n, entries') \/ GivesUp(old, n, entries')
  <2>1. entries' = entries
    BY <1>12 DEF TakesEntry, GivesUp
  <2>2. \A e \in 1 .. Len(entries) : n.entry = e => Held(ms, entries, e)
    <3>1. CASE TakesEntry(i, old, n, entries')
      BY <1>6, <3>1 DEF TakesEntry
    <3>2. CASE GivesUp(old, n, entries')
      BY <1>3, <1>4, <3>2 DEF GivesUp
    <3> QED BY <1>12, <3>1, <3>2
  <2>3. ASSUME NEW e \in 1 .. Len(entries), Live(e)' PROVE Live(e)
    <3>1. Held(img, entries, e)' /\ entries[e].status # "failed"
      BY <2>1, <2>3 DEF Live
    <3>2. Held(ms, entries, e)
      BY <1>11, <2>2, <3>1
    <3> QED BY <1>8, <3>1, <3>2 DEF Live
  <2>4. NothingRevived
    BY <2>1, <2>3 DEF NothingRevived
  <2> QED BY <1>1, <2>1, <2>4, OneLoadStays
<1>13. CASE StartsLoad(i, old, n, entries')
  <2>1. PICK r : r = Len(entries) + 1
    OBVIOUS
  <2>2. /\ Cached(ms, entries, m) = {}
        /\ Len(entries') = r
        /\ entries'[r].at = At(old) /\ entries'[r].px = KeySize(old)
        /\ n.entry = r
    BY <1>3, <1>6, <1>13, <2>1 DEF StartsLoad
  <2>3. At(m) = At(old) /\ KeySize(m) = KeySize(old)
    BY <1>4 DEF At, KeySize
  <2>4. ASSUME NEW e \in 1 .. Len(entries), Live(e)'
        PROVE  Live(e) /\ ~SameKey(e, r)'
    <3>1. Held(img, entries, e)' /\ entries[e].status # "failed"
      BY <1>9, <2>4 DEF Live
    <3>2. Held(ms, entries, e)
      BY <1>1, <1>11, <2>1, <2>2, <3>1
    <3>3. ~(entries[e].at = At(m) /\ entries[e].px = KeySize(m))
      BY <2>2, <3>1, <3>2 DEF Cached
    <3>4. ~SameKey(e, r)'
      BY <1>9, <2>2, <2>3, <3>3 DEF SameKey
    <3> QED BY <1>8, <3>1, <3>2, <3>4 DEF Live
  <2>5. NothingRevived
    BY <1>9, <2>4 DEF NothingRevived
  <2> QED BY <1>1, <2>1, <2>2, <2>4, <2>5, OneLoadStays
<1> QED BY <1>10, <1>12, <1>13 DEF Rendered

LEMMA OneLoadNext ==
  ASSUME Memory = {}, LostInv, OneLoadPerAsset, [Next]_vars
  PROVE  OneLoadPerAsset'
<1> USE DEF LostInv, TypeInv
<1>1. /\ alive \subseteq Images /\ img \in [Images -> States]
      /\ entries \in Seq(Entries) /\ Len(entries) \in Nat /\ Len(entries) <= MaxRequests
      /\ \A j \in Images : img[j] \in States /\ Refs(entries, img[j])
  BY DEF TypeOK, Refs
<1>2. ASSUME NEW i \in Images, NEW n, img' = [img EXCEPT ![i] = n], entries' = entries,
             alive' \subseteq alive,
             i \in alive' => n.entry = img[i].entry /\ n.old = img[i].old
      PROVE  OneLoadPerAsset'
  <2>1. \A j \in alive' : img'[j].entry = img[j].entry /\ img'[j].old = img[j].old
    BY <1>1, <1>2
  <2>2. \A e \in 1 .. Len(entries) : Held(img, entries, e)' => Held(img, entries, e)
    BY <1>2, <2>1 DEF Held
  <2>3. NothingRevived
    BY <1>2, <2>2 DEF NothingRevived, Live
  <2> QED BY <1>1, <1>2, <2>3, OneLoadStays
<1>3. ASSUME NEW i \in Images, Paint(i) PROVE OneLoadPerAsset'
  <2>1. PICK m : m = [img[i] EXCEPT !.dirty = FALSE]
    OBVIOUS
  <2>2. m \in States
    BY <1>1, <2>1 DEF States
  <2>3. /\ m.entry = img[i].entry /\ m.old = img[i].old
        /\ m.latest = img[i].latest /\ m.listens = img[i].listens
    BY <1>1, <2>1 DEF States
  <2>4. /\ i \in alive /\ alive' = alive
        /\ RenderTex(i, m) \/ (img' = [img EXCEPT ![i] = m] /\ entries' = entries)
    BY <1>3, <2>1, PaintCases
  <2>5. Refs(entries, m)
    BY <1>1, <2>3 DEF Refs
  <2> QED BY <1>2, <2>2, <2>3, <2>4, <2>5, OneLoadRender
<1>4. ASSUME NEW i \in Images, NEW s \in Sources, NEW b \in Buffers \cup {NoBuffer},
             ReplaceData(i, s, b)
      PROVE  OneLoadPerAsset'
  <2>1. PICK m : m = [img[i] EXCEPT !.src = s, !.buf = b, !.dirty = TRUE]
    OBVIOUS
  <2>2. m \in States
    BY <1>1, <2>1 DEF States
  <2>3. /\ m.entry = img[i].entry /\ m.old = img[i].old
        /\ m.latest = img[i].latest /\ m.listens = img[i].listens
    BY <1>1, <2>1 DEF States
  <2>4. i \in alive /\ alive' = alive /\ RenderTex(i, m)
    BY <1>4, <2>1 DEF ReplaceData
  <2>5. Refs(entries, m)
    BY <1>1, <2>3 DEF Refs
  <2> QED BY <2>2, <2>3, <2>4, <2>5, OneLoadRender
<1>5. ASSUME NEW i \in Images, NEW px \in 0 .. MaxSize, Reposition(i, px) PROVE OneLoadPerAsset'
  <2>1. PICK n : n = [img[i] EXCEPT !.px = px, !.dirty = TRUE]
    OBVIOUS
  <2>2. n.entry = img[i].entry /\ n.old = img[i].old
    BY <1>1, <2>1 DEF States
  <2> QED BY <1>2, <1>5, <2>1, <2>2 DEF Reposition
<1>6. ASSUME NEW i \in Images, Destroy(i) PROVE OneLoadPerAsset'
  BY <1>2, <1>6 DEF Destroy
<1>7. ASSUME NEW r \in 1 .. MaxRequests, RunLoadIdle(r) PROVE OneLoadPerAsset'
  <2>1. PICK o : o = Over(entries, r)
    OBVIOUS
  <2>2. /\ r \in 1 .. Len(entries) /\ ~entries[r].over
        /\ alive' = alive /\ entries' = o /\ img' = Delivered(img, o, r)
    BY <1>7, <2>1 DEF RunLoadIdle, PostImageLoad
  <2>3. /\ o \in Seq(Entries) /\ Len(o) = Len(entries)
        /\ o[r].at = entries[r].at /\ o[r].px = entries[r].px
        /\ o[r].over /\ o[r].owner = entries[r].owner
        /\ \A k \in 1 .. Len(entries) : k # r => o[k] = entries[k]
    BY <1>1, <2>1, <2>2, OverFields
  <2>4. ASSUME NEW j \in alive
        PROVE  img'[j].entry = img[j].entry /\ img'[j].old \in {0, img[j].old}
    <3>1. PICK d : d = Delivered(img, o, r)[j]
      OBVIOUS
    <3>2. Refs(o, img[j]) /\ r \in 1 .. Len(o) /\ Len(o) <= MaxRequests /\ j \in Images
      BY <1>1, <2>2, <2>3 DEF Refs
    <3>3. img[j].latest = r => img[j].entry = r
      BY <2>2 DEF NameInv, Named
    <3>4. d.entry = img[j].entry /\ d.old \in {0, img[j].old}
      BY <1>1, <2>3, <3>1, <3>2, <3>3, DeliveredCases
    <3> QED BY <2>2, <3>1, <3>4
  <2>5. ASSUME NEW e \in 1 .. Len(entries), Live(e)' PROVE Live(e)
    <3>1. Held(img, entries, e)' /\ o[e].status # "failed"
      BY <2>2, <2>5 DEF Live
    <3>2. e # 0
      OBVIOUS
    <3>3. Held(img, entries, e)
      BY <2>2, <2>3, <2>4, <3>1, <3>2 DEF Held
    <3>4. entries[e].status # "failed"
      <4>1. CASE e = r
        BY <2>2, <4>1 DEF LoadInv, EntryInv
      <4>2. CASE e # r
        BY <2>3, <3>1, <4>2
      <4> QED BY <4>1, <4>2
    <3> QED BY <3>3, <3>4 DEF Live
  <2>6. NothingRevived
    BY <2>2, <2>3, <2>5 DEF NothingRevived
  <2> QED BY <1>1, <2>2, <2>3, <2>6, OneLoadStays
<1>8. CASE UNCHANGED vars
  BY <1>8 DEF vars, OneLoadPerAsset, Held
<1> QED BY <1>3, <1>4, <1>5, <1>6, <1>7, <1>8 DEF Next

\* The same asset is never loaded while a load or a texture of it is there, if it is not
\* bytes, although the cache forgets what nobody holds.
THEOREM AssetsAreShared ==
  ASSUME Memory = {}, ~EarlyIcons
  PROVE  Spec => []OneLoadPerAsset
<1>1. Init => LostInv /\ OneLoadPerAsset
  BY TypeInit, NamedInit, LoadInit DEF LostInv, Init, OneLoadPerAsset
<1>2. LostInv /\ OneLoadPerAsset /\ [Next]_vars => (LostInv /\ OneLoadPerAsset)'
  BY TypeNext, NamedNext, LoadNext, OneLoadNext DEF LostInv
<1> QED BY <1>1, <1>2, PTL DEF Spec
=============================================================================
