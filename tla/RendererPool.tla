---------------------------- MODULE RendererPool ----------------------------
(* internal/render/render.go: a Renderer leases native renderers, which are  *)
(* not safe to share, through a channel, and PNG buffers through a sync.Pool. *)
(* A call fills a buffer; the Image it returns owns the buffer until it is   *)
(* closed. Handlers call concurrently, and may hold several images.          *)
EXTENDS Integers, Sequences, FiniteSets

CONSTANTS
  Procs,       \* goroutines that render
  Handles,     \* the native renderers, one per worker
  Buffers,     \* addresses of buffers; bounds how many exist at once
  Threads,     \* OS threads
  Inputs,      \* class files and compiler outputs
  Need,        \* the bytes each one's PNG takes
  Malformed,   \* the ones the library refuses
  Unsupported, \* of those, the ones for a platform it was not built with
  InitialSize,
  MaxImages,   \* bounds the images a caller holds; bot.go holds an album of ten
  Nil

ASSUME RendererAssumption ==
  /\ Handles # {}
  /\ Nil \notin Handles \union Buffers \union Inputs
  /\ Need \in [Inputs -> Nat]
  /\ Unsupported \subseteq Malformed /\ Malformed \subseteq Inputs
  /\ InitialSize \in Nat \ {0} /\ MaxImages \in Nat

VARIABLES
  pooled,   \* the handles in the channel
  waiting,  \* who waits for one: a channel serves its receivers in order
  freed,    \* handles whose native renderer is gone
  closing,  \* Close: "open", "draining", "closed"
  pc,
  call,     \* what each goroutine has asked for: "render" or "pages", of which input
  lease,    \* the handle it has, or Nil
  buffer,   \* the buffer it fills, or Nil
  images,   \* its open images: the buffer of each and what it was rendered from
  message,  \* what the error it returns says: the input complained about, or Nil
  size,     \* the capacity of each buffer; 0 is an address not in use
  content,  \* the input whose PNG is in a buffer
  spare,    \* the sync.Pool
  lastError \* the library's message, per thread

pool == <<pooled, waiting, freed, closing>>
memory == <<size, content, spare>>
goroutine == <<pc, call, lease, buffer, images, message>>
vars == <<pooled, waiting, freed, closing, pc, call, lease, buffer, images, message,
          size, content, spare, lastError>>

Call == [kind : {"render", "pages"}, input : Inputs]
Image == [buffer : Buffers, input : Inputs]

Init ==
  /\ pooled = Handles
  /\ waiting = <<>>
  /\ freed = {}
  /\ closing = "open"
  /\ pc = [p \in Procs |-> "idle"]
  /\ call = [p \in Procs |-> Nil]
  /\ lease = [p \in Procs |-> Nil]
  /\ buffer = [p \in Procs |-> Nil]
  /\ images = [p \in Procs |-> {}]
  /\ message = [p \in Procs |-> Nil]
  /\ size = [b \in Buffers |-> 0]
  /\ content = [b \in Buffers |-> Nil]
  /\ spare = {}
  /\ lastError = [t \in Threads |-> Nil]

Goto(p, label) == pc' = [pc EXCEPT ![p] = label]

InUse == {b \in Buffers : size[b] # 0}

-----------------------------------------------------------------------------
(* Render and Pages, up to the native call. Render turns an empty input     *)
(* away before it asks for a handle: none is among the Inputs.              *)
Ask(p, kind, input) ==
  /\ pc[p] = "idle"
  /\ Cardinality(images[p]) < MaxImages
  /\ call' = [call EXCEPT ![p] = [kind |-> kind, input |-> input]]
  /\ waiting' = Append(waiting, p)
  /\ Goto(p, "waiting")
  /\ UNCHANGED <<pooled, freed, closing, lease, buffer, images, message, memory, lastError>>

\* Mutant of Lease: the handle stays in the channel for others to use too.
SharedLease(p, h) ==
  /\ pc[p] = "waiting"
  /\ waiting # <<>> /\ Head(waiting) = p
  /\ h \in pooled
  /\ waiting' = Tail(waiting)
  /\ lease' = [lease EXCEPT ![p] = h]
  /\ Goto(p, IF call[p].kind = "pages" THEN "native" ELSE "borrow")
  /\ UNCHANGED <<pooled, freed, closing, call, buffer, images, message, memory, lastError>>

\* Render refuses a handle whose native renderer is gone; Pages does not look.
Lease(p, h) ==
  /\ pc[p] = "waiting"
  /\ waiting # <<>> /\ Head(waiting) = p
  /\ h \in pooled
  /\ waiting' = Tail(waiting)
  /\ pooled' = pooled \ {h}
  /\ lease' = [lease EXCEPT ![p] = h]
  /\ Goto(p, IF call[p].kind = "pages" THEN "native"
             ELSE IF h \in freed THEN "return" ELSE "borrow")
  /\ UNCHANGED <<freed, closing, call, buffer, images, message, memory, lastError>>

\* sync.Pool hands out any buffer it has, or a new one.
Borrow(p, b) ==
  /\ pc[p] = "borrow"
  /\ \/ b \in spare /\ spare' = spare \ {b} /\ UNCHANGED size
     \/ b \notin InUse /\ size' = [size EXCEPT ![b] = InitialSize] /\ UNCHANGED spare
  /\ buffer' = [buffer EXCEPT ![p] = b]
  /\ Goto(p, "native")
  /\ UNCHANGED <<pool, call, lease, images, message, content, lastError>>

-----------------------------------------------------------------------------
(* The library, as the header describes it: an error leaves its message     *)
(* with the thread; a buffer that is too small is left as it was.           *)
NativeFails(p, t) ==
  /\ pc[p] = "native"
  /\ call[p].input \in Malformed
  /\ lastError' = [lastError EXCEPT ![t] = call[p].input]
  /\ Goto(p, "putBack")
  /\ UNCHANGED <<pool, call, lease, buffer, images, message, memory>>

NativeCounts(p) ==
  /\ pc[p] = "native"
  /\ call[p].input \notin Malformed
  /\ call[p].kind = "pages"
  /\ Goto(p, "return")
  /\ UNCHANGED <<pool, call, lease, buffer, images, message, memory, lastError>>

NativeNeedsMore(p) ==
  /\ pc[p] = "native"
  /\ call[p].input \notin Malformed
  /\ call[p].kind = "render"
  /\ Need[call[p].input] > size[buffer[p]]
  /\ Goto(p, "grow")
  /\ UNCHANGED <<pool, call, lease, buffer, images, message, memory, lastError>>

NativeWrites(p) ==
  /\ pc[p] = "native"
  /\ call[p].input \notin Malformed
  /\ call[p].kind = "render"
  /\ Need[call[p].input] <= size[buffer[p]]
  /\ content' = [content EXCEPT ![buffer[p]] = call[p].input]
  /\ Goto(p, "wrap")
  /\ UNCHANGED <<pool, call, lease, buffer, images, message, size, spare, lastError>>

-----------------------------------------------------------------------------
(* The rest of the call                                                     *)
Grow(p) ==
  /\ pc[p] = "grow"
  /\ size' = [size EXCEPT ![buffer[p]] = Need[call[p].input]]
  /\ content' = [content EXCEPT ![buffer[p]] = Nil]
  /\ Goto(p, "native")
  /\ UNCHANGED <<pool, call, lease, buffer, images, message, spare, lastError>>

\* Mutant of Wrap: the call puts its buffer back although the image reads it.
WrapAndPutBack(p) ==
  /\ pc[p] = "wrap"
  /\ images' = [images EXCEPT ![p] =
       @ \union {[buffer |-> buffer[p], input |-> call[p].input]}]
  /\ spare' = spare \union {buffer[p]}
  /\ buffer' = [buffer EXCEPT ![p] = Nil]
  /\ Goto(p, "return")
  /\ UNCHANGED <<pool, call, lease, message, size, content, lastError>>

Wrap(p) ==
  /\ pc[p] = "wrap"
  /\ images' = [images EXCEPT ![p] =
       @ \union {[buffer |-> buffer[p], input |-> call[p].input]}]
  /\ buffer' = [buffer EXCEPT ![p] = Nil]
  /\ Goto(p, "return")
  /\ UNCHANGED <<pool, call, lease, message, memory, lastError>>

\* Mutant of PutBack: Pages puts back a buffer it never had.
PutBackAlways(p) ==
  /\ pc[p] = "putBack"
  /\ spare' = spare \union {buffer[p]}
  /\ buffer' = [buffer EXCEPT ![p] = Nil]
  /\ Goto(p, "statusError")
  /\ UNCHANGED <<pool, call, lease, images, message, size, content, lastError>>

\* Mutant of PutBack: a failed call keeps its buffer.
PutBackNothing(p) ==
  /\ pc[p] = "putBack"
  /\ buffer' = [buffer EXCEPT ![p] = Nil]
  /\ Goto(p, "statusError")
  /\ UNCHANGED <<pool, call, lease, images, message, memory, lastError>>

\* Pages has no buffer to put back.
PutBack(p) ==
  /\ pc[p] = "putBack"
  /\ spare' = spare \union ({buffer[p]} \ {Nil})
  /\ buffer' = [buffer EXCEPT ![p] = Nil]
  /\ Goto(p, "statusError")
  /\ UNCHANGED <<pool, call, lease, images, message, size, content, lastError>>

(* lastError asks for the message's size and then for its text, in calls of *)
(* their own: each on the thread the goroutine happens to be on by then. A   *)
(* platform that is not supported is an error without a message.             *)
StatusError(p, t, u) ==
  /\ pc[p] = "statusError"
  /\ message' = [message EXCEPT ![p] =
       IF call[p].input \in Unsupported \/ lastError[t] = Nil THEN Nil ELSE lastError[u]]
  /\ Goto(p, "returnError")
  /\ UNCHANGED <<pool, call, lease, buffer, images, memory, lastError>>

\* Mutant of ReturnHandle: a failed call keeps its handle.
ReturnHandleOnSuccess(p) ==
  /\ pc[p] \in {"return", "returnError"}
  /\ pooled' = IF pc[p] = "return" THEN pooled \union {lease[p]} ELSE pooled
  /\ lease' = [lease EXCEPT ![p] = Nil]
  /\ Goto(p, IF pc[p] = "return" THEN "idle" ELSE "failed")
  /\ call' = [call EXCEPT ![p] = IF pc[p] = "return" THEN Nil ELSE @]
  /\ UNCHANGED <<waiting, freed, closing, buffer, images, message, memory, lastError>>

ReturnHandle(p) ==
  /\ pc[p] \in {"return", "returnError"}
  /\ pooled' = pooled \union {lease[p]}
  /\ lease' = [lease EXCEPT ![p] = Nil]
  /\ Goto(p, IF pc[p] = "return" THEN "idle" ELSE "failed")
  /\ call' = [call EXCEPT ![p] = IF pc[p] = "return" THEN Nil ELSE @]
  /\ UNCHANGED <<waiting, freed, closing, buffer, images, message, memory, lastError>>

\* The caller logs the error and goes on.
TakeError(p) ==
  /\ pc[p] = "failed"
  /\ Goto(p, "idle")
  /\ call' = [call EXCEPT ![p] = Nil]
  /\ message' = [message EXCEPT ![p] = Nil]
  /\ UNCHANGED <<pool, lease, buffer, images, memory, lastError>>

CloseImage(p, image) ==
  /\ pc[p] = "idle"
  /\ image \in images[p]
  /\ images' = [images EXCEPT ![p] = @ \ {image}]
  /\ spare' = spare \union {image.buffer}
  /\ UNCHANGED <<pool, pc, call, lease, buffer, message, size, content, lastError>>

\* The collector empties the sync.Pool as it likes.
Collect(b) ==
  /\ b \in spare
  /\ spare' = spare \ {b}
  /\ size' = [size EXCEPT ![b] = 0]
  /\ content' = [content EXCEPT ![b] = Nil]
  /\ UNCHANGED <<pool, goroutine, lastError>>

-----------------------------------------------------------------------------
(* Close frees what is in the channel until there is nothing in it.         *)
CloseBegins ==
  /\ closing = "open"
  /\ closing' = "draining"
  /\ UNCHANGED <<pooled, waiting, freed, goroutine, memory, lastError>>

CloseFrees(h) ==
  /\ closing = "draining"
  /\ h \in pooled
  /\ pooled' = pooled \ {h}
  /\ freed' = freed \union {h}
  /\ UNCHANGED <<waiting, closing, goroutine, memory, lastError>>

CloseReturns ==
  /\ closing = "draining"
  /\ pooled = {}
  /\ closing' = "closed"
  /\ UNCHANGED <<pooled, waiting, freed, goroutine, memory, lastError>>

Step(p) ==
  \/ \E h \in Handles : Lease(p, h)
  \/ \E b \in Buffers : Borrow(p, b)
  \/ \E t \in Threads : NativeFails(p, t)
  \/ NativeCounts(p) \/ NativeNeedsMore(p) \/ NativeWrites(p)
  \/ Grow(p) \/ Wrap(p) \/ PutBack(p)
  \/ \E t, u \in Threads : StatusError(p, t, u)
  \/ ReturnHandle(p) \/ TakeError(p)
  \/ \E image \in images[p] : CloseImage(p, image)

Next ==
  \/ \E p \in Procs : Step(p)
  \/ \E p \in Procs, kind \in {"render", "pages"}, input \in Inputs : Ask(p, kind, input)
  \/ \E b \in Buffers : Collect(b)
  \/ CloseBegins
  \/ (\E h \in Handles : CloseFrees(h))
  \/ CloseReturns

(* Native calls end, and handlers close the images they hold. Nobody has to *)
(* call Close: main does when polling stops, with handlers still at work.   *)
Spec == Init /\ [][Next]_vars /\ \A p \in Procs : WF_vars(Step(p))

-----------------------------------------------------------------------------
TypeOK ==
  /\ pooled \subseteq Handles /\ freed \subseteq Handles
  /\ waiting \in Seq(Procs)
  /\ closing \in {"open", "draining", "closed"}
  /\ pc \in [Procs -> {"idle", "waiting", "borrow", "native", "grow", "wrap",
                      "putBack", "statusError", "return", "returnError", "failed"}]
  /\ call \in [Procs -> Call \union {Nil}]
  /\ lease \in [Procs -> Handles \union {Nil}]
  /\ buffer \in [Procs -> Buffers \union {Nil}]
  /\ images \in [Procs -> SUBSET Image]
  /\ message \in [Procs -> Inputs \union {Nil}]
  /\ size \in [Buffers -> Nat]
  /\ content \in [Buffers -> Inputs \union {Nil}]
  /\ spare \subseteq Buffers
  /\ lastError \in [Threads -> Inputs \union {Nil}]

(* A native renderer is not thread-safe: it is leased to one call at a time, *)
(* and never while it is also in the channel or after Close has freed it.    *)
LeaseIsExclusive ==
  \A p \in Procs : lease[p] # Nil =>
    /\ lease[p] \notin pooled \union freed
    /\ \A q \in Procs : lease[q] = lease[p] => q = p

(* A buffer has one owner: the sync.Pool, a call under way or an open image; *)
(* none is handed out twice and none is lost, on success and on failure.     *)
Holds(p, b) == buffer[p] = b \/ \E image \in images[p] : image.buffer = b

BuffersHaveOneOwner ==
  /\ \A b \in Buffers : b \in InUse <=> (b \in spare \/ \E p \in Procs : Holds(p, b))
  /\ \A b \in Buffers, p \in Procs : Holds(p, b) =>
       b \notin spare /\ \A q \in Procs : Holds(q, b) => q = p
  /\ \A p \in Procs : \A i, j \in images[p] :
       i.buffer # buffer[p] /\ (i.buffer = j.buffer => i = j)

(* An open image reads as what was rendered into it, whatever other calls    *)
(* render, grow and put back meanwhile: no chat gets another one's picture.  *)
ImagesStayIntact ==
  \A p \in Procs : \A image \in images[p] :
    content[image.buffer] = image.input /\ size[image.buffer] >= Need[image.input]

(* A renderer in service answers every call: errors give the handle back    *)
(* too, and nobody waits for a handle while holding one.                     *)
EveryCallReturns ==
  [](closing = "open") => \A p \in Procs : pc[p] = "waiting" ~> pc[p] = "idle"

(* lastError: "the message we read is the one our call left behind".         *)
ErrorIsItsOwn ==
  \A p \in Procs : pc[p] = "failed" /\ call[p].input \notin Unsupported =>
    message[p] = call[p].input
=============================================================================
