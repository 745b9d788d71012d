------------------------------- MODULE FsWire -------------------------------
(***************************************************************************)
(* The wire between apc-fuse and the host's file server: frames of a       *)
(* length and a JSON text (apc-protocol/src/fs.rs), one remote call at a   *)
(* time (Connection::rpc of apc-fuse/src/vfs.rs) answered by               *)
(* fs_server::handle_connection.  A request of the kernel takes one to     *)
(* three calls.  The stream holds Buffer words in each direction; whoever  *)
(* writes to a full one waits.                                             *)
(*                                                                         *)
(* A word stands for four bytes.  A response is its length, which carries  *)
(* here what the text says, and the words of the text: one, or Huge of     *)
(* them when the listing of a directory does not fit a frame.  The four    *)
(* bytes of any JSON text, read as a length, exceed MAX_FRAME_LEN.         *)
(* Of the mounted directory the names in it are kept; where HostFs models  *)
(* what a number of the kernel leads to, a file here is its name.          *)
(***************************************************************************)
EXTENDS Naturals, Sequences, SequencesExt

CONSTANTS
    Names,        \* names of files, numbers in the order the host lists them
    FrameNames,   \* the names of which a listing fits a frame
    Page,         \* the entries that fit a readdir reply
    Buffer,       \* requests, and words of responses, that the stream holds
    Huge,         \* words of a text that exceeds MAX_FRAME_LEN (64 MiB)
    MaxCalls,     \* bound: requests of the kernel
    MaxEdits      \* bound: changes made by programs of the host

ASSUME NamesAssumption == Names \subseteq Nat \ {0} /\ IsFiniteSet(Names)
ASSUME SizesAssumption ==
    FrameNames \in Nat /\ Page \in Nat \ {0} /\ Buffer \in Nat \ {0, 1} /\ Huge \in Nat
\* 64 MiB of text against two socket buffers.
ASSUME HugeAssumption == Huge > 2 * Buffer
ASSUME BoundsAssumption == MaxCalls \in Nat /\ MaxEdits \in Nat

VARIABLES
    dir,        \* the names in the mounted directory
    call,       \* the request of the kernel being handled: where it is, the remote
                \* calls left, and (history) those asked for and those done
    next_id,    \* the id of the next remote call
    requests,   \* requests on their way to the host
    words,      \* words on their way to the guest
    unsent,     \* words of a response that the file server has yet to write
    listing,    \* a directory being listed: the offset and the names so far
    answer,     \* the answer to the kernel, until its next request (history)
    oversized,  \* a response that no frame holds has been made (history)
    calls, edits

socket == <<next_id, requests, words, unsent, oversized>>
vars == <<dir, call, socket, listing, answer, calls, edits>>

Text == [type |-> "text", size |-> 0, id |-> 0, ok |-> FALSE, names |-> <<>>]
NoCall == [pc |-> "idle", kind |-> "none", name |-> 0, ops |-> <<>>, asked |-> <<>>,
           done |-> <<>>, own |-> TRUE]
NoAnswer == [kind |-> "none", ok |-> FALSE, asked |-> <<>>, done |-> <<>>, own |-> TRUE]
NoListing == [open |-> FALSE, ended |-> FALSE, offset |-> 0, got |-> <<>>,
              still |-> {}, removals |-> FALSE, insertions |-> FALSE]

\* The session has been initialized; Mounts has how.
Init ==
    /\ dir \in SUBSET Names
    /\ call = NoCall /\ next_id = 2
    /\ requests = <<>> /\ words = <<>> /\ unsent = <<>> /\ oversized = FALSE
    /\ listing = NoListing /\ answer = NoAnswer
    /\ calls = 0 /\ edits = 0

\* The directory changes, perhaps while it is being listed.
Change(new) ==
    /\ dir' = new
    /\ listing' = [listing EXCEPT !.still = @ \cap new,
                                  !.removals = @ \/ ~(dir \subseteq new),
                                  !.insertions = @ \/ ~(new \subseteq dir)]

-----------------------------------------------------------------------------
(* The kernel's requests, and the remote calls each of them makes in order *)

Kinds == {"setattr", "symlink", "unlink", "release"}

SetAttr(size, mode) ==
    (IF size THEN <<"truncate">> ELSE <<>>) \o (IF mode THEN <<"chmod">> ELSE <<>>)
      \o <<"stat">>

\* unlink and release stand for the requests of a single remote call, setattr
\* without a size or a mode for getattr.
Operations(kind) ==
    CASE kind = "setattr" -> {SetAttr(size, mode) : size, mode \in BOOLEAN}
      [] kind = "symlink" -> {<<"symlink", "stat">>}
      [] OTHER -> {<<kind>>}

Begin(kind, name) ==
    /\ call.pc = "idle" /\ calls < MaxCalls
    /\ calls' = calls + 1
    /\ \E ops \in Operations(kind) :
         call' = [NoCall EXCEPT !.pc = "send", !.kind = kind, !.name = name,
                                !.ops = ops, !.asked = ops]
    /\ answer' = NoAnswer
    /\ UNCHANGED <<dir, socket, listing, edits>>

\* A program of the guest lists the directory and closes it, at its end or
\* before; the kernel sends readdir again until no entry comes back.
OpenDir ==
    /\ call.pc = "idle" /\ ~listing.open
    /\ listing' = [NoListing EXCEPT !.open = TRUE, !.still = dir]
    /\ UNCHANGED <<dir, call, socket, answer, calls, edits>>

ReadDir == listing.open /\ ~listing.ended /\ Begin("readdir", 0)

ReleaseDir ==
    /\ call.pc = "idle" /\ listing.open
    /\ listing' = NoListing
    /\ UNCHANGED <<dir, call, socket, answer, calls, edits>>

-----------------------------------------------------------------------------
(* apc-fuse *)

Answer(ok) ==
    /\ answer' = [kind |-> call.kind, ok |-> ok, asked |-> call.asked,
                  done |-> call.done, own |-> call.own]
    /\ call' = NoCall

Write ==
    /\ call.pc = "send" /\ Len(requests) < Buffer
    /\ requests' = Append(requests, [id |-> next_id, op |-> Head(call.ops), name |-> call.name])
    /\ next_id' = next_id + 1

SendAndForgetRelease ==
    /\ Write
    /\ IF call.kind = "release" THEN Answer(TRUE)
       ELSE call' = [call EXCEPT !.pc = "length"] /\ UNCHANGED answer
    /\ UNCHANGED <<dir, words, unsent, oversized, listing, calls, edits>>

Send ==
    /\ Write
    /\ call' = [call EXCEPT !.pc = "length"]
    /\ UNCHANGED <<dir, words, unsent, oversized, listing, answer, calls, edits>>

IgnoresErrorsButTheLast == call.kind = "release" \/ Len(call.ops) > 1

\* release and flush succeed whatever comes back.
IgnoresErrors == call.kind = "release"

NextOperation(own) ==
    IF Len(call.ops) > 1
    THEN /\ call' = [call EXCEPT !.pc = "send", !.ops = Tail(@), !.own = @ /\ own]
         /\ UNCHANGED answer
    ELSE /\ answer' = [kind |-> call.kind, ok |-> TRUE, asked |-> call.asked,
                       done |-> call.done, own |-> call.own /\ own]
         /\ call' = NoCall

\* The first remote call that fails, here or on the host, ends the request.
RpcFails == IF IgnoresErrors THEN NextOperation(TRUE) ELSE Answer(FALSE)

RecvLengthGivesUp ==
    /\ call.pc = "length"
    /\ IF words = <<>> THEN RpcFails /\ UNCHANGED words
       ELSE call' = [call EXCEPT !.pc = "text"] /\ UNCHANGED <<words, answer>>
    /\ UNCHANGED <<dir, next_id, requests, unsent, oversized, listing, calls, edits>>

\* read_frame: a length that is too large is consumed, what follows is not.
RecvLength ==
    /\ call.pc = "length" /\ words # <<>>
    /\ IF Head(words).type = "length" /\ Head(words).size # Huge
       THEN call' = [call EXCEPT !.pc = "text"] /\ UNCHANGED <<words, answer>>
       ELSE RpcFails /\ words' = Tail(words)
    /\ UNCHANGED <<dir, next_id, requests, unsent, oversized, listing, calls, edits>>

AdvancePastUnfit(rest, fit) == IF fit < Len(rest) THEN fit + 1 ELSE fit

\* The offset of an entry is its place in the listing; the kernel passes on
\* that of the last entry it was given.
Advance(rest, fit) == fit

\* readdir: the entries from the offset on, of a listing the host makes anew.
ShowPage(names) ==
    LET rest == SubSeq(names, listing.offset + 1, Len(names))
        fit == IF Len(rest) < Page THEN Len(rest) ELSE Page
    IN  listing' = [listing EXCEPT !.offset = @ + Advance(rest, fit),
                                   !.got = @ \o SubSeq(rest, 1, fit),
                                   !.ended = rest = <<>>]

\* The text is whole; the id in it is never compared with that of the request.
RecvText ==
    /\ call.pc = "text" /\ Len(words) > 1
    /\ words' = SubSeq(words, 3, Len(words))
    /\ LET resp == Head(words)
       IN  /\ IF resp.ok THEN NextOperation(resp.id = next_id - 1) ELSE RpcFails
           /\ IF resp.ok /\ call.kind = "readdir" THEN ShowPage(resp.names)
              ELSE UNCHANGED listing
    /\ UNCHANGED <<dir, next_id, requests, unsent, oversized, calls, edits>>

GuestStep == Send \/ RecvLength \/ RecvText

-----------------------------------------------------------------------------
(* fs_server *)

\* The names in the order the host lists them.
Listed ==
    CHOOSE names \in [1 .. Cardinality(dir) -> dir] :
      \A i, j \in DOMAIN names : i < j => names[i] < names[j]

Possible(r) ==
    CASE r.op = "symlink" -> r.name \notin dir
      [] r.op \in {"readdir", "release"} -> TRUE
      [] OTHER -> r.name \in dir

\* dispatch carries the operation out, or the host refuses it; nothing is left
\* to refuse of a release.
Dispatch(r, ok) ==
    /\ ok => Possible(r)
    /\ r.op = "release" => ok
    /\ Change(CASE ok /\ r.op = "symlink" -> dir \cup {r.name}
                [] ok /\ r.op = "unlink"  -> dir \ {r.name}
                [] OTHER -> dir)

Frame(size, r, ok) ==
    <<[Text EXCEPT !.type = "length", !.size = size, !.id = r.id, !.ok = ok,
                   !.names = IF r.op = "readdir" /\ ok THEN Listed ELSE <<>>]>>
      \o [i \in 1 .. size |-> Text]

Size(r, ok) ==
    IF r.op = "readdir" /\ ok /\ Len(Listed) > FrameNames THEN Huge ELSE 1

ForCurrentCall(r) == call.pc = "length" /\ r.id = next_id - 1

HandleKeepsReleaseSilent ==
    /\ unsent = <<>> /\ requests # <<>>
    /\ requests' = Tail(requests)
    /\ LET r == Head(requests)
       IN  \E ok \in BOOLEAN :
             /\ Dispatch(r, ok)
             /\ unsent' = IF r.op = "release" THEN <<>> ELSE Frame(Size(r, ok), r, ok)
             /\ oversized' = (oversized \/ Size(r, ok) = Huge)
             /\ call' = IF ok /\ ForCurrentCall(r) THEN [call EXCEPT !.done = Append(@, r.op)]
                        ELSE call
    /\ UNCHANGED <<next_id, words, answer, calls, edits>>

\* One turn of handle_connection; it reads no request before it has written
\* the response to the one before.
Handle ==
    /\ unsent = <<>> /\ requests # <<>>
    /\ requests' = Tail(requests)
    /\ LET r == Head(requests)
       IN  \E ok \in BOOLEAN :
             /\ Dispatch(r, ok)
             /\ unsent' = Frame(Size(r, ok), r, ok)
             /\ oversized' = (oversized \/ Size(r, ok) = Huge)
             /\ call' = IF ok /\ ForCurrentCall(r) THEN [call EXCEPT !.done = Append(@, r.op)]
                        ELSE call
    /\ UNCHANGED <<next_id, words, answer, calls, edits>>

WriteResponse ==
    /\ unsent # <<>> /\ Len(words) < Buffer
    /\ words' = Append(words, Head(unsent)) /\ unsent' = Tail(unsent)
    /\ UNCHANGED <<dir, call, next_id, requests, oversized, listing, answer, calls, edits>>

ServerStep == Handle \/ WriteResponse

-----------------------------------------------------------------------------

\* Programs of the host create and remove files.
HostEdits ==
    /\ edits < MaxEdits /\ edits' = edits + 1
    /\ \E n \in Names : Change(IF n \in dir THEN dir \ {n} ELSE dir \cup {n})
    /\ UNCHANGED <<call, socket, answer, calls>>

Next ==
    \/ \E kind \in Kinds, n \in Names : Begin(kind, n)
    \/ OpenDir \/ ReadDir \/ ReleaseDir
    \/ GuestStep \/ ServerStep \/ HostEdits

Spec == Init /\ [][Next]_vars

\* apc-fuse and the file server run whenever they are not waiting for the wire.
FairSpec == Spec /\ WF_vars(GuestStep) /\ WF_vars(ServerStep)

-----------------------------------------------------------------------------
(* Properties *)

\* A success is told only of what the host has done, all of it, for this very
\* request, and every response taken was the one to the call just made, though
\* no id is compared: not even once a response that no frame holds has put the
\* stream out of step.  A failure leaves a first part of it done.
AnswerIsTrue ==
    answer.kind \notin {"none", "release"} =>
      /\ answer.ok => answer.own /\ answer.done = answer.asked
      /\ ~answer.ok => /\ IsPrefix(answer.done, answer.asked)
                       /\ answer.done = answer.asked => oversized

\* The host acts on a call only while apc-fuse waits for its response: what was
\* reported as failed, or given up, never happens later.
ActsWhileAwaited ==
    [][Len(requests') < Len(requests) => ForCurrentCall(Head(requests))]_vars

\* A listing over several pages, each made anew, misses a file that was there
\* all the time only if another was removed meanwhile, and lists a file twice
\* only if another was added.
ListingIsComplete ==
    listing.ended =>
      /\ ~listing.removals => listing.still \subseteq Range(listing.got)
      /\ ~listing.insertions => IsInjective(listing.got)

\* Every request of the kernel is answered, unless a response that no frame
\* holds is made: then both ends end up waiting for each other to read.
EveryCallEnds == call.pc # "idle" ~> (call.pc = "idle" \/ oversized)
=============================================================================
