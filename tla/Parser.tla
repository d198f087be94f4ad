-------------------------------- MODULE Parser --------------------------------
(***************************************************************************)
(* CesrParser: one stream of message bodies, attachment groups and counted *)
(* groups, fed in chunks cut anywhere, and the frames drained from it.     *)
(*                                                                         *)
(* The stream is a sequence of parts; `rest` is what the parser has not    *)
(* consumed and `held` how many bytes of it are in its buffer.  A part has *)
(* the bytes it takes, the bytes its parse asks for (more than it has when *)
(* it was cut short), and the parts its payload encloses.  A counter takes *)
(* CounterSize bytes, an annotation byte one.                              *)
(***************************************************************************)
EXTENDS Integers, Sequences, SequencesExt

CONSTANTS
    Streams,   \* streams a peer may send
    Chunks     \* sizes a chunk may have

CounterSize == 2

VARIABLES
    stream,    \* the whole stream, as it was sent
    framed,    \* the bounded boundary policy, or else the greedy one
    rest,      \* the parts not consumed, the first at the head of the buffer
    held,      \* bytes of `rest` in the buffer
    pending,   \* the frame that waits for the rest of its groups
    queued,    \* enclosed frames that wait for their turn
    out,       \* the events given to the caller
    draining,  \* the loop of one feed is running
    closed     \* the stream was flushed

deferred == <<pending, queued>>
vars == <<stream, framed, rest, held, deferred, out, draining, closed>>

NoFrame == [body |-> 0, groups |-> <<>>]   \* no pending frame; an error event
Bytes(parts) == FoldLeft(LAMBDA n, t : n + t.size, 0, parts)
Held(f) == IF f = NoFrame THEN <<>> ELSE <<f>>

(***************************************************************************)
(* Parts: "ano", "msg", "native", "sigs" (any attachment group), "wrap"    *)
(* (a body with its groups), "generic" (a group of frames), "version", a   *)
(* "bad" counter nobody knows, and a message "cut" short.                  *)
(***************************************************************************)
InMessageDomain(t) == t.kind \in {"msg", "cut"}

\* Mistake: a wrapped body is not known as the start of a frame.
BoundaryButWrapped(t) == t.kind \in {"native", "generic", "version"}

\* isFrameBoundaryCounter: counters that end the groups of the frame before.
Boundary(t) == t.kind \in {"native", "wrap", "generic", "version"}

------------------------------------------------------------------------------
(* Parsing what is buffered.  `late` are the frames queued on the way. *)

Failed(why, late) == [is |-> why, frame |-> NoFrame, left |-> <<>>, late |-> late]
Parsed(f, left, late) == [is |-> "ok", frame |-> f, left |-> left, late |-> late]

\* parseQuadletGroup: a group is read as a whole or not at all.
WholeGroup(t, avail) == avail >= t.needs

(***************************************************************************)
(* collectTrailingAttachments: groups up to the next frame or the end of   *)
(* the buffer, one only when `one`.                                        *)
(***************************************************************************)
RECURSIVE Groups(_, _, _, _)
Groups(parts, avail, f, one) ==
    LET t == Head(parts)
        more == [f EXCEPT !.groups = Append(@, t.name)]
        Stop(why) == [Failed(why, <<>>) EXCEPT !.frame = f, !.left = parts]
    IN CASE avail = 0 -> Stop("ok")
         [] avail > 0 /\ t.kind = "ano" -> Groups(Tail(parts), avail - 1, f, one)
         [] avail > 0 /\ InMessageDomain(t) -> Stop("ok")
         [] avail \in 1 .. CounterSize - 1 /\ t.kind # "ano" /\ ~InMessageDomain(t) -> Stop("short")
         [] avail >= CounterSize /\ Boundary(t) -> Stop("ok")
         [] avail >= CounterSize /\ t.kind = "bad" -> Stop("error")
         [] OTHER ->
              IF ~WholeGroup(t, avail) THEN Stop("short")
              ELSE IF one THEN Parsed(more, Tail(parts), <<>>)
              ELSE Groups(Tail(parts), avail - t.size, more, one)

\* parseCompleteFrame: every group of the payload belongs to the wrapped body.
WithAllGroups(base, one) ==
    LET groups == SelectSeq(base.left, LAMBDA t : t.kind # "ano")
        names == [i \in DOMAIN groups |-> groups[i].name]
    IN IF base.is # "ok" THEN base
       ELSE IF \/ \E i \in DOMAIN groups : (InMessageDomain(groups[i]) \/ groups[i].kind = "bad")
               \/ (one /\ Len(groups) > 1)
            THEN Failed("error", base.late)
       ELSE Parsed([base.frame EXCEPT !.groups = @ \o names], <<>>, base.late)

RECURSIVE FrameAt(_, _, _), Whole(_, _, _), Enclosed(_, _, _, _)

(***************************************************************************)
(* parseFrame: one frame start from the head of the buffer.  A version     *)
(* counter is consumed with the frame behind it.                           *)
(***************************************************************************)
FrameAt(parts, avail, one) ==
    LET t == Head(parts)
    IN CASE avail = 0 -> Failed("short", <<>>)
         [] avail > 0 /\ t.kind = "ano" -> FrameAt(Tail(parts), avail - 1, one)
         [] avail > 0 /\ t.kind = "version" ->
              IF avail <= t.size THEN Failed("short", <<>>)
              ELSE IF parts[2].kind \in {"ano", "version"} THEN Failed("error", <<>>)
              ELSE FrameAt(Tail(parts), avail - t.size, one)
         [] avail > 0 /\ t.kind \in {"sigs", "bad"} ->
              Failed(IF avail < CounterSize THEN "short" ELSE "error", <<>>)
         [] OTHER -> IF avail < t.needs THEN Failed("short", <<>>) ELSE Whole(t, Tail(parts), one)

\* A body or a counted group all of whose bytes are there.
Whole(t, left, one) ==
    LET inner == Enclosed(t.inner, <<>>, <<>>, one)
    IN CASE t.kind \in {"msg", "native"} -> Parsed([body |-> t.name, groups |-> <<>>], left, <<>>)
         [] t.kind = "cut" -> Failed("error", <<>>)
         [] t.kind = "wrap" ->
              [WithAllGroups(FrameAt(t.inner, Bytes(t.inner), one), one) EXCEPT !.left = left]
         [] t.kind = "generic" ->
              IF inner.is # "ok" THEN Failed(inner.is, inner.late)
              ELSE IF inner.frames = <<>> THEN Failed("error", inner.late)
              ELSE Parsed(Head(inner.frames), left, inner.late \o Tail(inner.frames))

\* parseFrameSequence: the frames a counted payload encloses.
Enclosed(parts, frames, late, one) ==
    LET base == FrameAt(parts, Bytes(parts), one)
        full == Groups(base.left, Bytes(base.left), base.frame, FALSE)
        end == IF base.is # "ok" THEN base.is ELSE full.is
    IN IF \A i \in DOMAIN parts : parts[i].kind = "ano"
         THEN [is |-> "ok", frames |-> frames, late |-> late]
       ELSE IF end # "ok" THEN [is |-> end, frames |-> frames, late |-> late \o base.late]
       ELSE Enclosed(full.left, Append(frames, full.frame), late \o base.late, one)

------------------------------------------------------------------------------
(* The drain loop, one branch of its body at a time *)

\* ParserStreamState.consume, up to `left`.
Consume(left) == rest' = left /\ held' = held - (Bytes(rest) - Bytes(left))

Give(f) == out' = Append(out, f)
Break == draining' = FALSE
Continue == UNCHANGED draining

\* The bytes that follow the first n; a part they cut is garbage from there on.
After(parts, n) ==
    LET Cuts(k) == Bytes(SubSeq(parts, 1, k)) - n
        k == CHOOSE i \in DOMAIN parts : Cuts(i) > 0 /\ \A j \in 1 .. i - 1 : Cuts(j) <= 0
        torn == [kind |-> "bad", name |-> 0, size |-> Cuts(k), needs |-> Cuts(k), inner |-> <<>>]
    IN IF n >= Bytes(parts) THEN <<>>
       ELSE IF Cuts(k) = parts[k].size THEN SubSeq(parts, k, Len(parts))
       ELSE <<torn>> \o SubSeq(parts, k + 1, Len(parts))

\* Mistake: the deferred frames outlive the reset.
ResetBufferOnly == rest' = After(rest, held) /\ held' = 0 /\ UNCHANGED deferred

\* CesrParser.reset: buffer and deferred frames are dropped.
Reset == rest' = After(rest, held) /\ held' = 0 /\ pending' = NoFrame /\ queued' = <<>>

\* Any error but a shortage is given to the caller, and the parser starts anew.
Fail == Give(NoFrame) /\ Reset /\ Break

\* Nothing, or nothing complete, is buffered: wait for the next chunk.
Wait == Break /\ UNCHANGED <<rest, held, deferred, out>>

Running == draining /\ held > 0 /\ UNCHANGED <<stream, framed, closed>>
AtAno == Head(rest).kind = "ano"

Exhausted == draining /\ held = 0 /\ Wait /\ UNCHANGED <<stream, framed, closed>>

SkipAno == Running /\ AtAno /\ Consume(Tail(rest)) /\ Continue /\ UNCHANGED <<deferred, out>>

\* BoundedFrameBoundaryPolicy: one frame to a drain.
OneToADrain == framed

\* GreedyFrameBoundaryPolicy: a frame without groups at the end of the buffer waits for them.
DefersBodyOnly(full) ==
    ~framed /\ full.frame.groups = <<>> /\ Bytes(rest) - Bytes(full.left) = held

\* resumePendingFrame, one group or one boundary at a time.
ResumePending ==
    /\ Running /\ ~AtAno /\ pending # NoFrame
    /\ LET t == Head(rest)
           known == held >= CounterSize
           more == [pending EXCEPT !.groups = Append(@, t.name)]
       IN \/ /\ InMessageDomain(t) \/ (known /\ Boundary(t))
             /\ Give(pending) /\ pending' = NoFrame /\ Continue
             /\ UNCHANGED <<rest, held, queued>>
          \/ ~InMessageDomain(t) /\ ~known /\ Wait
          \/ known /\ t.kind = "bad" /\ Fail
          \/ /\ known /\ ~InMessageDomain(t) /\ ~Boundary(t) /\ t.kind # "bad"
             /\ \/ ~WholeGroup(t, held) /\ Wait
                \/ /\ WholeGroup(t, held) /\ Consume(Tail(rest)) /\ UNCHANGED queued
                   /\ IF OneToADrain THEN Give(more) /\ pending' = NoFrame /\ Break
                                     ELSE pending' = more /\ Continue /\ UNCHANGED out

EmitQueued ==
    /\ Running /\ ~AtAno /\ pending = NoFrame /\ queued # <<>>
    /\ Give(Head(queued)) /\ queued' = Tail(queued)
    /\ draining' = ~OneToADrain
    /\ UNCHANGED <<rest, held, pending>>

(***************************************************************************)
(* A frame start and the groups behind it.  A shortage in the start leaves *)
(* the buffer as it was, but not the frames queued on the way; a shortage  *)
(* in the groups makes the frame pending, and so does the end of the       *)
(* buffer when the frame has no group yet (shouldDeferBodyOnlyFrame).      *)
(***************************************************************************)
ParseBase ==
    /\ Running /\ ~AtAno /\ pending = NoFrame /\ queued = <<>>
    /\ \E base \in {FrameAt(rest, held, framed)} :
         \/ base.is = "short" /\ queued' = base.late /\ Break /\ UNCHANGED <<rest, held, pending, out>>
         \/ base.is = "error" /\ Fail
         \/ /\ base.is = "ok"
            /\ \E full \in {Groups(base.left, held - (Bytes(rest) - Bytes(base.left)), base.frame, framed)} :
                 LET wait == full.is = "short" \/ DefersBodyOnly(full)
                 IN \/ full.is = "error" /\ Fail
                    \/ /\ full.is # "error" /\ Consume(full.left) /\ queued' = base.late
                       /\ \/ wait /\ pending' = full.frame /\ Break /\ UNCHANGED out
                          \/ ~wait /\ Give(full.frame) /\ draining' = ~OneToADrain /\ UNCHANGED pending

------------------------------------------------------------------------------
(* The caller *)

Feed(n) ==
    /\ ~draining /\ ~closed /\ held + n <= Bytes(rest)
    /\ held' = held + n /\ draining' = TRUE
    /\ UNCHANGED <<stream, framed, rest, deferred, out, closed>>

\* flushDeferred: the pending frame, then the queued ones.
Deferred == Held(pending) \o queued

\* A remainder in the buffer is reported once and consumed.
Flush ==
    /\ ~draining /\ ~closed
    /\ out' = out \o Deferred \o (IF held > 0 THEN <<NoFrame>> ELSE <<>>)
    /\ rest' = After(rest, held) /\ held' = 0
    /\ pending' = NoFrame /\ queued' = <<>> /\ closed' = TRUE
    /\ UNCHANGED <<stream, framed, draining>>

Init ==
    /\ stream \in Streams /\ framed \in BOOLEAN
    /\ rest = stream /\ held = 0
    /\ pending = NoFrame /\ queued = <<>> /\ out = <<>>
    /\ draining = FALSE /\ closed = FALSE

Next ==
    \/ \E n \in Chunks : Feed(n)
    \/ SkipAno \/ ResumePending \/ EmitQueued \/ ParseBase \/ Exhausted
    \/ Flush

Spec == Init /\ [][Next]_vars

------------------------------------------------------------------------------
(* What the stream says, read as a whole *)

(***************************************************************************)
(* The frames of a stream read from left to right, after `frames` of which *)
(* the one at `open` takes the groups that follow.  Groups behind a group  *)
(* of frames belong to its first frame.                                    *)
(***************************************************************************)
RECURSIVE Reading(_, _, _)
Reading(frames, open, parts) ==
    FoldLeft(LAMBDA r, t :
        CASE t.kind \in {"msg", "native"} ->
               [frames |-> Append(r.frames, [body |-> t.name, groups |-> <<>>]), open |-> Len(r.frames) + 1]
          [] t.kind \in {"wrap", "generic"} ->
               [frames |-> r.frames \o Reading(<<>>, 0, t.inner), open |-> Len(r.frames) + 1]
          [] t.kind = "sigs" ->
               IF r.open = 0 THEN r ELSE [r EXCEPT !.frames[r.open].groups = Append(@, t.name)]
          [] t.kind \in {"bad", "cut"} -> [r EXCEPT !.open = 0]
          [] OTHER -> r,
        [frames |-> frames, open |-> open], parts).frames

Frames(parts) == Reading(<<>>, 0, parts)

RECURSIVE Nested(_), Damaged(_)
Nested(parts) == \E i \in DOMAIN parts :
    \/ parts[i].kind = "generic" /\ \E j \in DOMAIN parts[i].inner : parts[i].inner[j].kind = "generic"
    \/ Nested(parts[i].inner)
Damaged(parts) == \E i \in DOMAIN parts : parts[i].kind \in {"bad", "cut"} \/ Damaged(parts[i].inner)

\* Every version counter and every group follows and precedes what the format asks for.
WellFormed(parts) ==
    LET plain == SelectSeq(parts, LAMBDA t : t.kind # "ano")
    IN /\ ~Damaged(parts)
       /\ \A i \in DOMAIN parts : parts[i].kind = "version" =>
            i < Len(parts) /\ parts[i + 1].kind \in {"msg", "native", "wrap", "generic"}
       /\ \A i \in DOMAIN plain : plain[i].kind = "sigs" => i > 1

\* The greedy policy finds every group behind a frame; the bounded one needs them wrapped.
Grouped(parts) ==
    /\ \A i \in DOMAIN Frames(parts) : Len(Frames(parts)[i].groups) <= 1
    /\ framed => \A i \in DOMAIN parts : parts[i].kind # "sigs"

Intact == \A i \in DOMAIN out : out[i] # NoFrame
Heard == closed => rest = <<>> /\ (Intact \/ ~framed)

\* What came out, what waits and what is still to be read are the stream, in order.
Conserved == Reading(out \o Deferred, IF pending = NoFrame THEN 0 ELSE Len(out) + 1, rest) = Frames(stream)

(***************************************************************************)
(* Wherever the chunks are cut, no frame and no group is lost, doubled,    *)
(* moved or misread, and nothing fails, for a stream whose messages have   *)
(* at most one group each (pending before queued in drain and flushDeferred, *)
(* isFrameBoundaryAhead, the shortage pauses).  The whole stream is to be  *)
(* sent before the flush, and under the bounded policy to be drained.      *)
(***************************************************************************)
NothingLost ==
    WellFormed(stream) /\ ~Nested(stream) /\ Grouped(stream) /\ Heard => Conserved

(***************************************************************************)
(* Whatever is wrong with the stream, and after any error, the frames come *)
(* in its order, none twice, each with groups that are its own             *)
(* (CesrParser.reset drops the deferred frames with the buffer).           *)
(***************************************************************************)
AsItCame ==
    LET given == SelectSeq(out, LAMBDA f : f # NoFrame)
        sent == Frames(stream)
    IN ~Nested(stream) =>
         /\ \A i \in 1 .. Len(given) - 1 : given[i].body < given[i + 1].body
         /\ \A i \in DOMAIN given : \E j \in DOMAIN sent :
              given[i].body = sent[j].body /\ IsPrefix(given[i].groups, sent[j].groups)
==============================================================================
