------------------------- MODULE RendererPoolProofs -------------------------
(* Proofs about RendererPool, for any goroutines, handles, buffers, threads  *)
(* and inputs, and with Close at any point.                                  *)
EXTENDS RendererPool, TLAPS

Leasing ==
  {"borrow", "native", "grow", "wrap", "putBack", "statusError", "return", "returnError"}

Filling(p) ==
  \/ pc[p] \in {"grow", "wrap"}
  \/ pc[p] \in {"native", "putBack"} /\ call[p].kind = "render"

(* Where a goroutine is tells what it has: a call, a handle and a buffer.    *)
CallsFit ==
  \A p \in Procs :
    /\ pc[p] # "idle" => call[p] \in Call
    /\ pc[p] \in {"borrow", "grow", "wrap"} => call[p].kind = "render"

LeasesFit == \A p \in Procs : lease[p] # Nil <=> pc[p] \in Leasing

BuffersFit == \A p \in Procs : buffer[p] # Nil <=> Filling(p)

(* What Close took out of the channel is not put back.                       *)
FreedStayOut == pooled \intersect freed = {}

(* A buffer is only made anew where it was too small, and is only wrapped    *)
(* with the picture in it.                                                   *)
FillsFit ==
  \A p \in Procs :
    /\ pc[p] = "grow" => Need[call[p].input] > size[buffer[p]]
    /\ pc[p] = "wrap" =>
         /\ content[buffer[p]] = call[p].input
         /\ size[buffer[p]] >= Need[call[p].input]

HandleInv == LeaseIsExclusive /\ LeasesFit /\ FreedStayOut
MemoryInv == BuffersHaveOneOwner /\ ImagesStayIntact /\ BuffersFit /\ FillsFit
PoolInv == TypeOK /\ CallsFit /\ HandleInv /\ MemoryInv

LEMMA InitHolds == Init => PoolInv
<1> SUFFICES ASSUME Init PROVE PoolInv
  OBVIOUS
<1>1. TypeOK
  BY RendererAssumption DEF Init, TypeOK
<1>2. CallsFit /\ HandleInv
  BY RendererAssumption
  DEF Init, CallsFit, HandleInv, LeaseIsExclusive, LeasesFit, FreedStayOut, Leasing
<1>3. MemoryInv
  BY RendererAssumption
  DEF Init, MemoryInv, BuffersHaveOneOwner, Holds, InUse, ImagesStayIntact, BuffersFit, Filling,
      FillsFit
<1> QED
  BY <1>1, <1>2, <1>3 DEF PoolInv

-----------------------------------------------------------------------------
(* Types and calls, action by action.                                       *)
LEMMA StepKeepsTypes ==
  ASSUME TypeOK, CallsFit, LeasesFit, BuffersFit, NEW p \in Procs, Step(p)
  PROVE  TypeOK' /\ CallsFit'
<1> USE RendererAssumption DEF RendererAssumption, TypeOK, CallsFit, Goto, pool, memory
<1>1. ASSUME NEW h \in Handles, Lease(p, h)
      PROVE  TypeOK' /\ CallsFit'
  BY <1>1 DEF Lease, Call
<1>2. ASSUME NEW b \in Buffers, Borrow(p, b)
      PROVE  TypeOK' /\ CallsFit'
  <2>1. size' \in [Buffers -> Nat] /\ spare' \subseteq Buffers
    <3>1. /\ size \in [Buffers -> Nat] /\ spare \subseteq Buffers /\ InitialSize \in Nat
          /\ \/ spare' = spare \ {b} /\ size' = size
             \/ size' = [size EXCEPT ![b] = InitialSize] /\ spare' = spare
      BY <1>2 DEF Borrow
    <3> HIDE DEF RendererAssumption, TypeOK, CallsFit
    <3> QED
      BY <3>1
  <2>2. pc[p] = "borrow" /\ pc' = [pc EXCEPT ![p] = "native"] /\ buffer' = [buffer EXCEPT ![p] = b]
    BY <1>2 DEF Borrow
  <2>3. UNCHANGED <<pool, call, lease, images, message, content, lastError>>
    BY <1>2 DEF Borrow
  <2> QED
    BY <2>1, <2>2, <2>3
<1>3. ASSUME NEW t \in Threads, NativeFails(p, t)
      PROVE  TypeOK' /\ CallsFit'
  BY <1>3 DEF NativeFails, Call
<1>4. CASE NativeCounts(p)
  BY <1>4 DEF NativeCounts
<1>5. CASE NativeNeedsMore(p)
  BY <1>5 DEF NativeNeedsMore
<1>6. CASE NativeWrites(p)
  BY <1>6 DEF NativeWrites, Call
<1>7. CASE Grow(p)
  BY <1>7 DEF Grow, Call
<1>8. CASE Wrap(p)
  BY <1>8 DEF Wrap, Call, Image, BuffersFit, Filling
<1>9. CASE PutBack(p)
  BY <1>9 DEF PutBack
<1>10. ASSUME NEW t \in Threads, NEW u \in Threads, StatusError(p, t, u)
       PROVE  TypeOK' /\ CallsFit'
  BY <1>10 DEF StatusError
<1>11. CASE ReturnHandle(p)
  BY <1>11 DEF ReturnHandle, LeasesFit, Leasing
<1>12. CASE TakeError(p)
  BY <1>12 DEF TakeError
<1>13. ASSUME NEW image \in images[p], CloseImage(p, image)
       PROVE  TypeOK' /\ CallsFit'
  BY <1>13 DEF CloseImage, Image
<1> QED
  BY <1>1, <1>2, <1>3, <1>4, <1>5, <1>6, <1>7, <1>8, <1>9, <1>10, <1>11, <1>12, <1>13 DEF Step

LEMMA NextKeepsTypes ==
  ASSUME TypeOK, CallsFit, LeasesFit, BuffersFit, [Next]_vars
  PROVE  TypeOK' /\ CallsFit'
<1> USE RendererAssumption DEF TypeOK, CallsFit, pool, memory, goroutine
<1>1. ASSUME NEW p \in Procs, Step(p)
      PROVE  TypeOK' /\ CallsFit'
  BY <1>1, StepKeepsTypes
<1>2. ASSUME NEW p \in Procs, NEW kind \in {"render", "pages"}, NEW input \in Inputs,
             Ask(p, kind, input)
      PROVE  TypeOK' /\ CallsFit'
  BY <1>2 DEF Ask, Call, Goto
<1>3. ASSUME NEW b \in Buffers, Collect(b)
      PROVE  TypeOK' /\ CallsFit'
  BY <1>3 DEF Collect
<1>4. CASE CloseBegins
  BY <1>4 DEF CloseBegins
<1>5. ASSUME NEW h \in Handles, CloseFrees(h)
      PROVE  TypeOK' /\ CallsFit'
  BY <1>5 DEF CloseFrees
<1>6. CASE CloseReturns
  BY <1>6 DEF CloseReturns
<1>7. CASE UNCHANGED vars
  BY <1>7 DEF vars
<1> QED
  BY <1>1, <1>2, <1>3, <1>4, <1>5, <1>6, <1>7 DEF Next

-----------------------------------------------------------------------------
(* Handles. Only Lease, ReturnHandle and CloseFrees move one.               *)
LEMMA SamePlace ==
  ASSUME TypeOK, HandleInv, NEW p \in Procs, NEW label,
         pc' = [pc EXCEPT ![p] = label], label \in Leasing <=> pc[p] \in Leasing,
         UNCHANGED <<pooled, freed, lease>>
  PROVE  HandleInv'
  BY DEF TypeOK, HandleInv, LeaseIsExclusive, LeasesFit, FreedStayOut

LEMMA StepKeepsHandles ==
  ASSUME TypeOK, HandleInv, NEW p \in Procs, Step(p)
  PROVE  HandleInv'
<1> USE DEF Goto, pool, Leasing
<1>1. ASSUME NEW h \in Handles, Lease(p, h)
      PROVE  HandleInv'
  BY <1>1, RendererAssumption
  DEF Lease, RendererAssumption, TypeOK, HandleInv, LeaseIsExclusive, LeasesFit, FreedStayOut
<1>2. ASSUME NEW b \in Buffers, Borrow(p, b)
      PROVE  HandleInv'
  BY <1>2, SamePlace DEF Borrow
<1>3. ASSUME NEW t \in Threads, NativeFails(p, t)
      PROVE  HandleInv'
  BY <1>3, SamePlace DEF NativeFails
<1>4. CASE NativeCounts(p)
  BY <1>4, SamePlace DEF NativeCounts
<1>5. CASE NativeNeedsMore(p)
  BY <1>5, SamePlace DEF NativeNeedsMore
<1>6. CASE NativeWrites(p)
  BY <1>6, SamePlace DEF NativeWrites
<1>7. CASE Grow(p)
  BY <1>7, SamePlace DEF Grow
<1>8. CASE Wrap(p)
  BY <1>8, SamePlace DEF Wrap
<1>9. CASE PutBack(p)
  BY <1>9, SamePlace DEF PutBack
<1>10. ASSUME NEW t \in Threads, NEW u \in Threads, StatusError(p, t, u)
       PROVE  HandleInv'
  BY <1>10, SamePlace DEF StatusError
<1>11. CASE ReturnHandle(p)
  <2>1. lease[p] # Nil
    BY <1>11 DEF ReturnHandle, HandleInv, LeasesFit
  <2> QED
    BY <1>11, <2>1
    DEF ReturnHandle, TypeOK, HandleInv, LeaseIsExclusive, LeasesFit, FreedStayOut
<1>12. CASE TakeError(p)
  BY <1>12, SamePlace DEF TakeError
<1>13. ASSUME NEW image \in images[p], CloseImage(p, image)
       PROVE  HandleInv'
  BY <1>13 DEF CloseImage, HandleInv, LeaseIsExclusive, LeasesFit, FreedStayOut
<1> QED
  BY <1>1, <1>2, <1>3, <1>4, <1>5, <1>6, <1>7, <1>8, <1>9, <1>10, <1>11, <1>12, <1>13 DEF Step

LEMMA NextKeepsHandles ==
  ASSUME TypeOK, HandleInv, [Next]_vars
  PROVE  HandleInv'
<1> USE DEF HandleInv, LeaseIsExclusive, LeasesFit, FreedStayOut, pool, goroutine
<1>1. ASSUME NEW p \in Procs, Step(p)
      PROVE  HandleInv'
  BY <1>1, StepKeepsHandles
<1>2. ASSUME NEW p \in Procs, NEW kind \in {"render", "pages"}, NEW input \in Inputs,
             Ask(p, kind, input)
      PROVE  HandleInv'
  BY <1>2, SamePlace DEF Ask, Goto, Leasing
<1>3. ASSUME NEW b \in Buffers, Collect(b)
      PROVE  HandleInv'
  BY <1>3 DEF Collect
<1>4. CASE CloseBegins
  BY <1>4 DEF CloseBegins
<1>5. ASSUME NEW h \in Handles, CloseFrees(h)
      PROVE  HandleInv'
  BY <1>5, RendererAssumption DEF CloseFrees, TypeOK, RendererAssumption
<1>6. CASE CloseReturns
  BY <1>6 DEF CloseReturns
<1>7. CASE UNCHANGED vars
  BY <1>7 DEF vars
<1> QED
  BY <1>1, <1>2, <1>3, <1>4, <1>5, <1>6, <1>7 DEF Next

-----------------------------------------------------------------------------
(* Buffers. A step that touches none keeps everything about them.           *)
LEMMA MemoryAtRest ==
  ASSUME TypeOK, MemoryInv, NEW p \in Procs, NEW label,
         pc' = [pc EXCEPT ![p] = label], label \notin {"grow", "wrap"},
         \A q \in Procs \ {p} : call'[q] = call[q],
         Filling(p)' <=> Filling(p),
         UNCHANGED <<buffer, images, memory>>
  PROVE  MemoryInv'
<1> USE DEF TypeOK, MemoryInv, memory
<1>1. \A q \in Procs \ {p} : pc'[q] = pc[q] /\ call'[q] = call[q]
  OBVIOUS
<1>2. BuffersHaveOneOwner' /\ ImagesStayIntact'
  BY DEF BuffersHaveOneOwner, ImagesStayIntact, Holds, InUse
<1>3. BuffersFit'
  BY <1>1 DEF BuffersFit, Filling
<1>4. FillsFit'
  BY <1>1 DEF FillsFit
<1> QED
  BY <1>2, <1>3, <1>4

\* A buffer that is filled is the call's alone.
LEMMA FilledIsOwned ==
  ASSUME TypeOK, MemoryInv, NEW p \in Procs, Filling(p)
  PROVE  /\ buffer[p] \in Buffers /\ buffer[p] \notin spare /\ size[buffer[p]] # 0
         /\ \A q \in Procs \ {p} : buffer[q] # buffer[p]
         /\ \A q \in Procs : \A image \in images[q] : image.buffer # buffer[p]
<1>1. buffer[p] \in Buffers
  BY DEF TypeOK, MemoryInv, BuffersFit
<1>2. Holds(p, buffer[p])
  BY DEF Holds
<1>3. buffer[p] \notin spare /\ buffer[p] \in InUse
  BY <1>1, <1>2 DEF MemoryInv, BuffersHaveOneOwner
<1>4. \A q \in Procs : Holds(q, buffer[p]) => q = p
  BY <1>1, <1>2 DEF MemoryInv, BuffersHaveOneOwner
<1>5. \A image \in images[p] : image.buffer # buffer[p]
  BY DEF MemoryInv, BuffersHaveOneOwner
<1> QED
  BY <1>1, <1>3, <1>4, <1>5 DEF Holds, InUse

LEMMA BorrowKeeps ==
  ASSUME TypeOK, CallsFit, MemoryInv, NEW p \in Procs, NEW b \in Buffers, Borrow(p, b)
  PROVE  MemoryInv'
<1>1. /\ pc[p] = "borrow" /\ pc' = [pc EXCEPT ![p] = "native"]
      /\ buffer' = [buffer EXCEPT ![p] = b] /\ UNCHANGED <<call, images, content>>
  BY DEF Borrow, Goto
<1>2. b \notin spare' /\ size'[b] # 0 /\ \A a \in Buffers \ {b} : a \in spare' <=> a \in spare
  BY RendererAssumption DEF Borrow, RendererAssumption, TypeOK, MemoryInv, BuffersHaveOneOwner, InUse
<1>3. \A a \in Buffers \ {b} : size'[a] = size[a]
  BY DEF Borrow, TypeOK
<1>4. \A q \in Procs : ~Holds(q, b)
  BY DEF Borrow, MemoryInv, BuffersHaveOneOwner
<1>5. buffer[p] = Nil /\ b # Nil
  BY <1>1, RendererAssumption DEF MemoryInv, BuffersFit, Filling, RendererAssumption
<1>6. BuffersHaveOneOwner'
  <2>1. \A q \in Procs, a \in Buffers : Holds(q, a)' <=> Holds(q, a) \/ (q = p /\ a = b)
    BY <1>1, <1>5, RendererAssumption DEF Holds, TypeOK, RendererAssumption
  <2>2. \A a \in Buffers : a \in InUse' <=> a \in InUse \/ a = b
    BY <1>2, <1>3 DEF InUse
  <2>3. \A q \in Procs : \A i, j \in images[q] :
          i.buffer # buffer'[q] /\ (i.buffer = j.buffer => i = j)
    BY <1>1, <1>4 DEF MemoryInv, BuffersHaveOneOwner, Holds, TypeOK
  <2> QED
    BY <1>1, <1>2, <1>4, <2>1, <2>2, <2>3 DEF BuffersHaveOneOwner, MemoryInv
<1>7. ImagesStayIntact'
  <2>1. ASSUME NEW q \in Procs, NEW image \in images[q]
        PROVE  image.buffer \in Buffers \ {b}
    BY <1>4 DEF Holds, TypeOK, Image
  <2> QED
    BY <1>1, <1>3, <2>1 DEF ImagesStayIntact, MemoryInv
<1>8. BuffersFit'
  BY <1>1, <1>5 DEF BuffersFit, Filling, MemoryInv, TypeOK, CallsFit
<1>9. FillsFit'
  <2>1. ASSUME NEW q \in Procs, pc'[q] \in {"grow", "wrap"}
        PROVE  q # p /\ pc[q] = pc'[q] /\ buffer'[q] = buffer[q] /\ buffer[q] \in Buffers \ {b}
    BY <1>1, <1>4, <2>1 DEF TypeOK, MemoryInv, BuffersFit, Filling, Holds
  <2> QED
    BY <1>1, <1>3, <2>1 DEF FillsFit, MemoryInv
<1> QED
  BY <1>6, <1>7, <1>8, <1>9 DEF MemoryInv

(* A step that writes into a buffer the call fills disturbs no other one.    *)
LEMMA FillingKeeps ==
  ASSUME TypeOK, CallsFit, MemoryInv, NEW p \in Procs, NEW label,
         Filling(p), label \in {"native", "wrap"}, call[p].kind = "render",
         pc' = [pc EXCEPT ![p] = label],
         \A b \in Buffers \ {buffer[p]} : size'[b] = size[b] /\ content'[b] = content[b],
         size'[buffer[p]] # 0,
         label = "wrap" => /\ content'[buffer[p]] = call[p].input
                           /\ size'[buffer[p]] >= Need[call[p].input],
         UNCHANGED <<call, buffer, images, spare>>
  PROVE  MemoryInv'
<1>1. /\ buffer[p] \in Buffers /\ size[buffer[p]] # 0
      /\ \A q \in Procs \ {p} : buffer[q] # buffer[p]
      /\ \A q \in Procs : \A image \in images[q] : image.buffer # buffer[p]
  BY FilledIsOwned
<1>2. InUse' = InUse
  BY <1>1 DEF InUse
<1>3. BuffersHaveOneOwner'
  BY <1>2 DEF BuffersHaveOneOwner, MemoryInv, Holds
<1>4. ImagesStayIntact'
  BY <1>1 DEF ImagesStayIntact, MemoryInv, TypeOK, Image
<1>5. BuffersFit'
  BY DEF BuffersFit, Filling, MemoryInv, TypeOK
<1>6. FillsFit'
  <2>1. ASSUME NEW q \in Procs \ {p}, pc'[q] \in {"grow", "wrap"}
        PROVE  pc[q] = pc'[q] /\ buffer[q] \in Buffers \ {buffer[p]}
    BY <1>1, <2>1 DEF TypeOK, MemoryInv, BuffersFit, Filling
  <2> QED
    BY <2>1 DEF FillsFit, MemoryInv, TypeOK
<1> QED
  BY <1>3, <1>4, <1>5, <1>6 DEF MemoryInv

LEMMA WrapKeeps ==
  ASSUME TypeOK, CallsFit, MemoryInv, NEW p \in Procs, Wrap(p)
  PROVE  MemoryInv'
<1> DEFINE b == buffer[p]
           image == [buffer |-> b, input |-> call[p].input]
<1>1. /\ pc[p] = "wrap" /\ pc' = [pc EXCEPT ![p] = "return"]
      /\ images' = [images EXCEPT ![p] = @ \union {image}]
      /\ buffer' = [buffer EXCEPT ![p] = Nil]
      /\ UNCHANGED <<call, memory>>
  BY DEF Wrap, Goto
<1>2. /\ b \in Buffers /\ b # Nil /\ b \notin spare /\ size[b] # 0
      /\ \A q \in Procs \ {p} : buffer[q] # b
      /\ \A q \in Procs : \A i \in images[q] : i.buffer # b
  BY <1>1, FilledIsOwned, RendererAssumption DEF Filling, RendererAssumption
<1>3. content[b] = image.input /\ size[b] >= Need[image.input] /\ image.buffer = b
  BY <1>1 DEF MemoryInv, FillsFit
<1> HIDE DEF b, image
<1>4. \A q \in Procs \ {p} : images'[q] = images[q] /\ buffer'[q] = buffer[q]
  BY <1>1 DEF TypeOK
<1>5. images'[p] = images[p] \union {image} /\ buffer'[p] = Nil
  BY <1>1 DEF TypeOK
<1>6. BuffersHaveOneOwner'
  <2>1. \A q \in Procs, a \in Buffers : Holds(q, a)' <=> Holds(q, a)
    BY <1>2, <1>3, <1>4, <1>5, RendererAssumption DEF Holds, RendererAssumption, b
  <2>2. \A q \in Procs : \A i, j \in images'[q] :
          i.buffer # buffer'[q] /\ (i.buffer = j.buffer => i = j)
    <3>1. ASSUME NEW i \in images'[p]
          PROVE  i.buffer # Nil
      BY <1>2, <1>3, <1>5, <3>1, RendererAssumption DEF TypeOK, Image, RendererAssumption
    <3> QED
      BY <1>2, <1>3, <1>4, <1>5, <3>1 DEF MemoryInv, BuffersHaveOneOwner
  <2> QED
    BY <1>1, <2>1, <2>2 DEF BuffersHaveOneOwner, MemoryInv, InUse, memory
<1>7. ImagesStayIntact'
  BY <1>1, <1>3, <1>4, <1>5 DEF ImagesStayIntact, MemoryInv, memory
<1>8. BuffersFit'
  BY <1>1, <1>4, <1>5 DEF BuffersFit, Filling, MemoryInv, TypeOK
<1>9. FillsFit'
  BY <1>1, <1>4 DEF FillsFit, MemoryInv, TypeOK, memory
<1> QED
  BY <1>6, <1>7, <1>8, <1>9 DEF MemoryInv

LEMMA PutBackKeeps ==
  ASSUME TypeOK, MemoryInv, NEW p \in Procs, PutBack(p)
  PROVE  MemoryInv'
<1>1. /\ pc[p] = "putBack" /\ pc' = [pc EXCEPT ![p] = "statusError"]
      /\ spare' = spare \union ({buffer[p]} \ {Nil})
      /\ buffer' = [buffer EXCEPT ![p] = Nil]
      /\ UNCHANGED <<call, images, size, content>>
  BY DEF PutBack, Goto
<1>2. \A q \in Procs, a \in Buffers :
        Holds(q, a)' <=> Holds(q, a) /\ ~(q = p /\ a = buffer[p])
  BY <1>1, RendererAssumption
  DEF Holds, TypeOK, MemoryInv, BuffersHaveOneOwner, RendererAssumption
<1>3. \A a \in Buffers : a \in spare' <=> a \in spare \/ a = buffer[p]
  BY <1>1, RendererAssumption DEF RendererAssumption
<1>4. \A q \in Procs : \A i \in images[q] : i.buffer # buffer'[q]
  BY <1>1, RendererAssumption
  DEF TypeOK, Image, MemoryInv, BuffersHaveOneOwner, RendererAssumption
<1>5. BuffersHaveOneOwner'
  <2>1. buffer[p] # Nil => Holds(p, buffer[p]) /\ buffer[p] \in Buffers
    BY DEF Holds, TypeOK
  <2> QED
    BY <1>1, <1>2, <1>3, <1>4, <2>1 DEF MemoryInv, BuffersHaveOneOwner, InUse
<1>6. ImagesStayIntact'
  BY <1>1 DEF MemoryInv, ImagesStayIntact
<1>7. BuffersFit'
  BY <1>1 DEF BuffersFit, Filling, MemoryInv, TypeOK
<1>8. FillsFit'
  BY <1>1 DEF FillsFit, MemoryInv, TypeOK
<1> QED
  BY <1>5, <1>6, <1>7, <1>8 DEF MemoryInv

LEMMA CloseImageKeeps ==
  ASSUME TypeOK, MemoryInv, NEW p \in Procs, NEW image \in images[p], CloseImage(p, image)
  PROVE  MemoryInv'
<1>1. /\ images' = [images EXCEPT ![p] = @ \ {image}]
      /\ spare' = spare \union {image.buffer}
      /\ UNCHANGED <<pc, call, buffer, size, content>>
  BY DEF CloseImage
<1>2. \A q \in Procs : images'[q] \subseteq images[q]
  BY <1>1 DEF TypeOK
<1>3. Holds(p, image.buffer) /\ image.buffer \in Buffers
  BY DEF Holds, TypeOK, Image
<1>4. \A q \in Procs, a \in Buffers : Holds(q, a)' <=> Holds(q, a) /\ a # image.buffer
  <2>1. ASSUME NEW q \in Procs, NEW a \in Buffers, Holds(q, a), a # image.buffer
        PROVE  Holds(q, a)'
    BY <1>1, <2>1 DEF Holds, TypeOK
  <2>2. ASSUME NEW q \in Procs, NEW a \in Buffers, Holds(q, a)'
        PROVE  Holds(q, a)
    BY <1>1, <1>2, <2>2 DEF Holds
  <2>3. ASSUME NEW q \in Procs, Holds(q, image.buffer)'
        PROVE  FALSE
    <3>1. q = p
      BY <1>3, <2>2, <2>3 DEF MemoryInv, BuffersHaveOneOwner
    <3> QED
      BY <1>1, <2>3, <3>1 DEF Holds, TypeOK, MemoryInv, BuffersHaveOneOwner
  <2> QED
    BY <1>3, <2>1, <2>2, <2>3
<1>5. BuffersHaveOneOwner'
  BY <1>1, <1>2, <1>3, <1>4 DEF MemoryInv, BuffersHaveOneOwner, InUse
<1>6. ImagesStayIntact'
  BY <1>1, <1>2 DEF MemoryInv, ImagesStayIntact
<1>7. BuffersFit' /\ FillsFit'
  BY <1>1 DEF BuffersFit, FillsFit, Filling, MemoryInv
<1> QED
  BY <1>5, <1>6, <1>7 DEF MemoryInv

LEMMA CollectKeeps ==
  ASSUME TypeOK, MemoryInv, NEW b \in Buffers, Collect(b)
  PROVE  MemoryInv'
<1>1. /\ b \in spare /\ spare' = spare \ {b} /\ size'[b] = 0
      /\ \A a \in Buffers \ {b} : size'[a] = size[a] /\ content'[a] = content[a]
      /\ UNCHANGED <<pc, call, buffer, images>>
  BY DEF Collect, goroutine, TypeOK
<1>2. \A q \in Procs : ~Holds(q, b)
  BY <1>1 DEF MemoryInv, BuffersHaveOneOwner
<1>3. \A q \in Procs : buffer[q] # b /\ \A image \in images[q] : image.buffer \in Buffers \ {b}
  BY <1>2 DEF Holds, TypeOK, Image
<1>4. BuffersHaveOneOwner'
  BY <1>1, <1>2 DEF MemoryInv, BuffersHaveOneOwner, InUse, Holds
<1>5. ImagesStayIntact'
  BY <1>1, <1>3 DEF MemoryInv, ImagesStayIntact
<1>6. BuffersFit'
  BY <1>1 DEF BuffersFit, Filling, MemoryInv
<1>7. FillsFit'
  <2>1. ASSUME NEW q \in Procs, pc[q] \in {"grow", "wrap"}
        PROVE  buffer[q] \in Buffers \ {b}
    BY <1>3, <2>1 DEF TypeOK, MemoryInv, BuffersFit, Filling
  <2> QED
    BY <1>1, <2>1 DEF FillsFit, MemoryInv
<1> QED
  BY <1>4, <1>5, <1>6, <1>7 DEF MemoryInv

LEMMA StepKeepsMemory ==
  ASSUME TypeOK, CallsFit, MemoryInv, NEW p \in Procs, Step(p)
  PROVE  MemoryInv'
<1> USE DEF Goto, Filling, TypeOK
<1>1. ASSUME NEW h \in Handles, Lease(p, h)
      PROVE  MemoryInv'
  <2>1. pc[p] = "waiting" /\ buffer[p] = Nil
    BY <1>1 DEF Lease, MemoryInv, BuffersFit
  <2>2. /\ pc' = [pc EXCEPT ![p] = IF call[p].kind = "pages" THEN "native"
                                   ELSE IF h \in freed THEN "return" ELSE "borrow"]
        /\ UNCHANGED <<call, buffer, images, memory>>
    BY <1>1 DEF Lease
  <2>3. ~Filling(p) /\ ~Filling(p)'
    BY <2>1, <2>2
  <2> QED
    BY <2>2, <2>3, MemoryAtRest
<1>2. ASSUME NEW b \in Buffers, Borrow(p, b)
      PROVE  MemoryInv'
  BY <1>2, BorrowKeeps
<1>3. ASSUME NEW t \in Threads, NativeFails(p, t)
      PROVE  MemoryInv'
  <2>1. /\ pc' = [pc EXCEPT ![p] = "putBack"]
        /\ \A q \in Procs \ {p} : call'[q] = call[q]
        /\ UNCHANGED <<buffer, images, memory>>
    BY <1>3 DEF NativeFails
  <2>2. Filling(p)' <=> Filling(p)
    BY <1>3, <2>1 DEF NativeFails
  <2> HIDE DEF TypeOK
  <2> QED
    BY <2>1, <2>2, MemoryAtRest
<1>4. CASE NativeCounts(p)
  <2>1. /\ pc' = [pc EXCEPT ![p] = "return"]
        /\ \A q \in Procs \ {p} : call'[q] = call[q]
        /\ UNCHANGED <<buffer, images, memory>>
    BY <1>4 DEF NativeCounts
  <2>2. Filling(p)' <=> Filling(p)
    BY <1>4, <2>1 DEF NativeCounts
  <2> HIDE DEF TypeOK
  <2> QED
    BY <2>1, <2>2, MemoryAtRest
<1>5. CASE NativeNeedsMore(p)
  <2>1. Filling(p) /\ Filling(p)' /\ Need[call[p].input] > size[buffer[p]]
    BY <1>5 DEF NativeNeedsMore
  <2>2. pc' = [pc EXCEPT ![p] = "grow"] /\ UNCHANGED <<call, buffer, images, memory>>
    BY <1>5 DEF NativeNeedsMore
  <2> HIDE DEF Filling
  <2>3. BuffersHaveOneOwner' /\ ImagesStayIntact'
    BY <2>2 DEF MemoryInv, BuffersHaveOneOwner, ImagesStayIntact, Holds, InUse, memory
  <2>4. BuffersFit'
    BY <2>1, <2>2 DEF BuffersFit, Filling, MemoryInv
  <2>5. FillsFit'
    BY <2>1, <2>2 DEF FillsFit, MemoryInv, memory
  <2> QED
    BY <2>3, <2>4, <2>5 DEF MemoryInv
<1>6. CASE NativeWrites(p)
  <2>1. Filling(p) /\ call[p].kind = "render" /\ call[p].input \in Inputs
    BY <1>6 DEF NativeWrites, CallsFit, Call
  <2>2. buffer[p] \in Buffers /\ size[buffer[p]] # 0
    BY <2>1, FilledIsOwned
  <2>3. /\ pc' = [pc EXCEPT ![p] = "wrap"]
        /\ content' = [content EXCEPT ![buffer[p]] = call[p].input]
        /\ size[buffer[p]] >= Need[call[p].input]
        /\ UNCHANGED <<call, buffer, images, size, spare>>
    BY <1>6, <2>1, <2>2, RendererAssumption DEF NativeWrites, RendererAssumption
  <2> HIDE DEF Filling
  <2> QED
    BY <2>1, <2>2, <2>3, FillingKeeps
<1>7. CASE Grow(p)
  <2>1. /\ Filling(p) /\ call[p].kind = "render" /\ call[p].input \in Inputs
        /\ Need[call[p].input] > size[buffer[p]]
    BY <1>7 DEF Grow, CallsFit, Call, MemoryInv, FillsFit
  <2>2. buffer[p] \in Buffers
    BY <2>1, FilledIsOwned
  <2>3. /\ pc' = [pc EXCEPT ![p] = "native"]
        /\ size' = [size EXCEPT ![buffer[p]] = Need[call[p].input]]
        /\ content' = [content EXCEPT ![buffer[p]] = Nil]
        /\ UNCHANGED <<call, buffer, images, spare>>
    BY <1>7 DEF Grow, pool
  <2>4. size'[buffer[p]] # 0
    BY <2>1, <2>2, <2>3, RendererAssumption DEF RendererAssumption
  <2> HIDE DEF Filling
  <2> QED
    BY <2>1, <2>2, <2>3, <2>4, FillingKeeps
<1>8. CASE Wrap(p)
  BY <1>8, WrapKeeps
<1>9. CASE PutBack(p)
  BY <1>9, PutBackKeeps
<1>10. ASSUME NEW t \in Threads, NEW u \in Threads, StatusError(p, t, u)
       PROVE  MemoryInv'
  <2>1. /\ pc' = [pc EXCEPT ![p] = "returnError"]
        /\ \A q \in Procs \ {p} : call'[q] = call[q]
        /\ UNCHANGED <<buffer, images, memory>>
    BY <1>10 DEF StatusError
  <2>2. Filling(p)' <=> Filling(p)
    BY <1>10, <2>1 DEF StatusError
  <2> HIDE DEF TypeOK
  <2> QED
    BY <2>1, <2>2, MemoryAtRest
<1>11. CASE ReturnHandle(p)
  <2>1. PICK label \in {"idle", "failed"} :
        /\ pc' = [pc EXCEPT ![p] = label]
        /\ \A q \in Procs \ {p} : call'[q] = call[q]
        /\ UNCHANGED <<buffer, images, memory>>
    BY <1>11 DEF ReturnHandle
  <2>2. Filling(p)' <=> Filling(p)
    BY <1>11, <2>1 DEF ReturnHandle
  <2> HIDE DEF TypeOK
  <2> QED
    BY <2>1, <2>2, MemoryAtRest
<1>12. CASE TakeError(p)
  BY <1>12, MemoryAtRest DEF TakeError
<1>13. ASSUME NEW image \in images[p], CloseImage(p, image)
       PROVE  MemoryInv'
  BY <1>13, CloseImageKeeps
<1> QED
  BY <1>1, <1>2, <1>3, <1>4, <1>5, <1>6, <1>7, <1>8, <1>9, <1>10, <1>11, <1>12, <1>13 DEF Step

LEMMA NextKeepsMemory ==
  ASSUME TypeOK, CallsFit, MemoryInv, [Next]_vars
  PROVE  MemoryInv'
<1>1. ASSUME NEW p \in Procs, Step(p)
      PROVE  MemoryInv'
  BY <1>1, StepKeepsMemory
<1>2. ASSUME NEW p \in Procs, NEW kind \in {"render", "pages"}, NEW input \in Inputs,
             Ask(p, kind, input)
      PROVE  MemoryInv'
  BY <1>2, MemoryAtRest DEF Ask, Goto, Filling, TypeOK
<1>3. ASSUME NEW b \in Buffers, Collect(b)
      PROVE  MemoryInv'
  BY <1>3, CollectKeeps
<1>4. ASSUME UNCHANGED <<goroutine, memory>>
      PROVE  MemoryInv'
  BY <1>4
  DEF goroutine, memory, MemoryInv, BuffersHaveOneOwner, Holds, InUse, ImagesStayIntact, BuffersFit,
      Filling, FillsFit
<1>5. (CloseBegins \/ CloseReturns \/ \E h \in Handles : CloseFrees(h)) => MemoryInv'
  BY <1>4 DEF CloseBegins, CloseReturns, CloseFrees
<1>6. UNCHANGED vars => MemoryInv'
  BY <1>4 DEF vars, goroutine, memory
<1> QED
  BY <1>1, <1>2, <1>3, <1>5, <1>6 DEF Next

-----------------------------------------------------------------------------
THEOREM PoolInvariant == Spec => []PoolInv
<1>1. PoolInv /\ [Next]_vars => PoolInv'
  BY NextKeepsTypes, NextKeepsHandles, NextKeepsMemory DEF PoolInv, HandleInv, MemoryInv
<1> QED
  BY InitHolds, <1>1, PTL DEF Spec

(* Every variable of the pool keeps its type.                               *)
THEOREM PoolTypeCorrect == Spec => []TypeOK
  BY PoolInvariant, PTL DEF PoolInv

(* A native renderer is leased to one call at a time, and never one that     *)
(* Close has freed, whenever Close comes.                                   *)
THEOREM LeasesAreExclusive == Spec => []LeaseIsExclusive
  BY PoolInvariant, PTL DEF PoolInv, HandleInv

(* Every buffer has exactly one owner, and none is lost, on all paths.       *)
THEOREM BuffersAreOwned == Spec => []BuffersHaveOneOwner
  BY PoolInvariant, PTL DEF PoolInv, MemoryInv

(* Whatever other calls do, an open image is the picture of its own input.   *)
THEOREM PicturesStayIntact == Spec => []ImagesStayIntact
  BY PoolInvariant, PTL DEF PoolInv, MemoryInv
=============================================================================
