------------------------------ MODULE OverDrop ------------------------------
(***************************************************************************)
(* OverDrop file transfer: internal/overdrop/overdrop.go and the transfer  *)
(* table of internal/daemon/transfers.go.                                  *)
(*                                                                         *)
(* One sending device and one receiving device, that is one directory of   *)
(* the inbox (directories of different senders share nothing).  A transfer *)
(* is one call of Send: it asks where to resume, then streams the rest of  *)
(* its file.  handlePut stages the bytes in a part file named after the    *)
(* file's name and size, looks for a free name and renames.  The look and  *)
(* the rename are two system calls, and transfers interleave between them. *)
(* The connection may break at any time, the receiver may restart at any   *)
(* time; handlers may outlive their sender, never their receiver.          *)
(***************************************************************************)
EXTENDS Integers, Sequences, FiniteSets

CONSTANTS
    NoFile,     \* the file of a transfer that has not started
    Files,      \* editions of files on the sender's disk
    NameOf,     \* [Files -> names]
    SizeOf,     \* [Files -> Nat]
    Transfers   \* ids of the transfers started; one Send each

ASSUME DropAssumption ==
    /\ NoFile \notin Files
    /\ NameOf \in [Files -> {NameOf[f] : f \in Files}]
    /\ SizeOf \in [Files -> Nat]
    /\ IsFiniteSet(Transfers)

VARIABLES
    file,    \* the file of each transfer, NoFile before it starts
    send,    \* where each Send is
    offset,  \* the resume point each Send was told
    put,     \* where the handlePut of each transfer is
    dst,     \* the free path its handler found
    parts,   \* staged part files
    busy,    \* Server.busy
    inbox    \* received files: their bytes, and the transfer that brought them

vars == <<file, send, offset, put, dst, parts, busy, inbox>>

NoPath == <<>>

Names == {NameOf[f] : f \in Files}
\* The n-th variant of a name: "name", "name (2)", "name (3)", ...
Paths == Names \X (1 .. Cardinality(Transfers) + 1)

\* A file's bytes, told apart by the edition they come from.
Bytes(f) == [i \in 1 .. SizeOf[f] |-> f]

\* A part file's name holds the name and the size, not the edition.
paths(f) == <<NameOf[f], SizeOf[f]>>
Key(t) == paths(file[t])

Size(part) == IF part \in DOMAIN parts THEN Len(parts[part]) ELSE 0

With(fn, x, v) == [y \in DOMAIN fn \cup {x} |-> IF y = x THEN v ELSE fn[y]]
Without(fn, x) == [y \in DOMAIN fn \ {x} |-> fn[y]]

\* Variants are tried in order; 1 is the name itself.
dedupePath(name) ==
    CHOOSE p \in Paths : /\ p[1] = name
                         /\ p \notin DOMAIN inbox
                         /\ \A i \in 1 .. p[2] - 1 : <<name, i>> \in DOMAIN inbox

Init ==
    /\ file = [t \in Transfers |-> NoFile]
    /\ send = [t \in Transfers |-> "new"]
    /\ offset = [t \in Transfers |-> 0]
    /\ put = [t \in Transfers |-> "none"]
    /\ dst = [t \in Transfers |-> NoPath]
    /\ parts = <<>>
    /\ busy = {}
    /\ inbox = <<>>

-----------------------------------------------------------------------------
(* The sender.                                                             *)

\* StartDrop, or the command line: the transfer is "sending" from here on.
StartDrop(t, f) ==
    /\ send[t] = "new"
    /\ file' = [file EXCEPT ![t] = f]
    /\ send' = [send EXCEPT ![t] = "ask"]
    /\ UNCHANGED <<offset, put, dst, parts, busy, inbox>>

\* The offset query.  handleOffset reads the part's size and takes no lock.
handleOffset(t) ==
    /\ send[t] = "ask"
    /\ LET off == Size(Key(t))
       IN  offset' = [offset EXCEPT ![t] = IF off > SizeOf[file[t]] THEN 0 ELSE off]
    /\ send' = [send EXCEPT ![t] = "put"]
    /\ UNCHANGED <<file, put, dst, parts, busy, inbox>>

\* The connection breaks.  A handler that is running finds out later.
Interrupted(t) ==
    /\ send[t] \in {"ask", "put"}
    /\ send' = [send EXCEPT ![t] = "error"]
    /\ UNCHANGED <<file, offset, put, dst, parts, busy, inbox>>

-----------------------------------------------------------------------------
(* handlePut.                                                              *)

\* The answer, if the sender is still there to read it.
Answer(t, status) ==
    send' = [send EXCEPT ![t] = IF @ = "put" THEN status ELSE @]

\* A slip: a return that forgets to release the key.
Return_KeepsBusy(t) ==
    /\ put' = [put EXCEPT ![t] = "returned"]
    /\ busy' = IF send[t] = "error" THEN busy ELSE busy \ {Key(t)}

\* Every return after the busy check releases the key.
Return(t) ==
    /\ put' = [put EXCEPT ![t] = "returned"]
    /\ busy' = busy \ {Key(t)}

\* Another handler has this part.
PutBusy(t) ==
    /\ send[t] = "put" /\ put[t] = "none"
    /\ Key(t) \in busy
    /\ put' = [put EXCEPT ![t] = "returned"]
    /\ Answer(t, "error")
    /\ UNCHANGED <<file, offset, dst, parts, busy, inbox>>

\* The part is created if it is not there, whatever its offset turns out to be.
Opened(t) == IF Key(t) \in DOMAIN parts THEN parts ELSE With(parts, Key(t), <<>>)

\* The part is no longer as long as the offset query said.
PutMismatch(t) ==
    /\ send[t] = "put" /\ put[t] = "none"
    /\ Key(t) \notin busy
    /\ Size(Key(t)) # offset[t]
    /\ parts' = Opened(t)
    /\ put' = [put EXCEPT ![t] = "returned"]
    /\ Answer(t, "error")
    /\ UNCHANGED <<file, offset, dst, busy, inbox>>

\* A slip: the offset is trusted.
PutBegin_AnyOffset(t) ==
    /\ send[t] = "put" /\ put[t] = "none"
    /\ Key(t) \notin busy
    /\ busy' = busy \cup {Key(t)}
    /\ parts' = Opened(t)
    /\ put' = [put EXCEPT ![t] = "copy"]
    /\ UNCHANGED <<file, send, offset, dst, inbox>>

PutBegin(t) ==
    /\ send[t] = "put" /\ put[t] = "none"
    /\ Key(t) \notin busy
    /\ Size(Key(t)) = offset[t]
    /\ busy' = busy \cup {Key(t)}
    /\ parts' = Opened(t)
    /\ put' = [put EXCEPT ![t] = "copy"]
    /\ UNCHANGED <<file, send, offset, dst, inbox>>

\* io.Copy: the next byte of the file, from where this Send started reading.
\* What was in flight still arrives after the sender is gone.  offset[t] is the
\* number of bytes of the file read so far.
Copy(t) ==
    /\ put[t] = "copy"
    /\ offset[t] < SizeOf[file[t]]
    /\ parts' = [parts EXCEPT ![Key(t)] = Append(@, Bytes(file[t])[offset[t] + 1])]
    /\ offset' = [offset EXCEPT ![t] = @ + 1]
    /\ UNCHANGED <<file, send, put, dst, busy, inbox>>

\* io.Copy fails or ends early; the part keeps what arrived.
CopyShort(t) ==
    /\ put[t] = "copy"
    /\ send[t] = "error"
    /\ Return(t)
    /\ UNCHANGED <<file, send, offset, dst, parts, inbox>>

\* More bytes than announced (not from Send, whose request has a length): the
\* part is removed.
CopyLong(t) ==
    /\ put[t] = "copy"
    /\ offset[t] = SizeOf[file[t]]
    /\ parts' = Without(parts, Key(t))
    /\ Return(t)
    /\ Answer(t, "error")
    /\ UNCHANGED <<file, offset, dst, inbox>>

\* A slip: straight to the file's own name.
Dedupe_Plain(t) ==
    /\ put[t] = "copy"
    /\ offset[t] = SizeOf[file[t]]
    /\ dst' = [dst EXCEPT ![t] = <<NameOf[file[t]], 1>>]
    /\ put' = [put EXCEPT ![t] = "rename"]
    /\ UNCHANGED <<file, send, offset, parts, busy, inbox>>

\* dedupePath asks the file system; the part is complete and synced.
Dedupe(t) ==
    /\ put[t] = "copy"
    /\ offset[t] = SizeOf[file[t]]
    /\ dst' = [dst EXCEPT ![t] = dedupePath(NameOf[file[t]])]
    /\ put' = [put EXCEPT ![t] = "rename"]
    /\ UNCHANGED <<file, send, offset, parts, busy, inbox>>

\* rename(2) replaces whatever has the new name.
Rename(t) ==
    /\ put[t] = "rename"
    /\ inbox' = With(inbox, dst[t], [bytes |-> parts[Key(t)], by |-> t])
    /\ parts' = Without(parts, Key(t))
    /\ Return(t)
    /\ Answer(t, "done")
    /\ UNCHANGED <<file, offset, dst>>

\* The receiver stops and starts again.  Part files stay; busy does not.
Restart ==
    /\ \E t \in Transfers : put[t] \in {"copy", "rename"}
    /\ put' = [t \in Transfers |-> IF put[t] = "none" THEN "none" ELSE "returned"]
    /\ send' = [t \in Transfers |->
                  IF send[t] = "put" /\ put[t] # "none" THEN "error" ELSE send[t]]
    /\ busy' = {}
    /\ UNCHANGED <<file, offset, dst, parts, inbox>>

handlePut(t) ==
    \/ PutBusy(t) \/ PutMismatch(t) \/ PutBegin(t)
    \/ Copy(t) \/ CopyShort(t) \/ CopyLong(t) \/ Dedupe(t) \/ Rename(t)

Next ==
    \/ \E t \in Transfers : \/ \E f \in Files : StartDrop(t, f)
                            \/ handleOffset(t) \/ Interrupted(t) \/ handlePut(t)
    \/ Restart

\* A started Send goes on, and a handler does not stop between two calls.
Fairness == \A t \in Transfers : WF_vars(handleOffset(t)) /\ WF_vars(handlePut(t))

Spec == Init /\ [][Next]_vars /\ Fairness

-----------------------------------------------------------------------------
(* Properties.                                                             *)

\* The server and transfer state keep their types, and busy names exactly the
\* parts that some handler has open: the key is set before the part is opened
\* and released by every return (overdrop.go:175-188).
TypeOK ==
    /\ file \in [Transfers -> Files \cup {NoFile}]
    /\ send \in [Transfers -> {"new", "ask", "put", "done", "error"}]
    /\ put \in [Transfers -> {"none", "copy", "rename", "returned"}]
    /\ dst \in [Transfers -> Paths \cup {NoPath}]
    /\ DOMAIN parts \subseteq {paths(f) : f \in Files}
    /\ DOMAIN inbox \subseteq Paths
    /\ busy = {Key(t) : t \in {u \in Transfers : put[u] \in {"copy", "rename"}}}

\* Whatever was interrupted, resumed or restarted on the way, each received
\* file is, byte for byte, a file that was sent under its name
\* (overdrop_test.go:118).
ReceivedIsSent ==
    \A p \in DOMAIN inbox :
        \E f \in Files : NameOf[f] = p[1] /\ inbox[p].bytes = Bytes(f)

\* Once received, a file keeps its name and its bytes: no other transfer
\* puts its own file there (overdrop.go:234).
NeverOverwritten ==
    [][\A p \in DOMAIN inbox : p \in DOMAIN inbox' /\ inbox'[p] = inbox[p]]_vars

\* Each transfer its sender saw succeed has a copy of its own in the inbox:
\* the table of transfers.go never says "done" of a file that did not arrive
\* or that another transfer has replaced.
DoneMeansReceived ==
    \A f \in Files :
        Cardinality({t \in Transfers : file[t] = f /\ send[t] = "done"})
            <= Cardinality({p \in DOMAIN inbox : inbox[p].bytes = Bytes(f)})

\* A broken connection does not leave its part locked: the handler returns
\* and "rerun to resume" (overdrop.go:373) is not refused for ever.
LockReleased ==
    \A t \in Transfers :
        (send[t] = "error" /\ put[t] \in {"copy", "rename"})
            ~> /\ file[t] # NoFile
               /\ \/ Key(t) \notin busy
                  \/ \E u \in Transfers \ {t} :
                       put[u] \in {"copy", "rename"} /\ Key(u) = Key(t)

=============================================================================
