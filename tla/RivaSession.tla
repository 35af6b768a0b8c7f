----------------------------- MODULE RivaSession ------------------------------
(***************************************************************************)
(* A streaming recognition session (riva_client.rs): the bounded channel    *)
(* the worker's chunks go through, the Riva server, which the repository    *)
(* does not contain, and the replies that wait to be read.  LiveAudio and   *)
(* ArchiveJobs are the two tasks that drive such a session.                 *)
(*                                                                         *)
(* A reply is the sequence of the utterances it has a final result for; a   *)
(* reply with interim results only is the empty sequence.                   *)
(***************************************************************************)
EXTENDS Naturals, FiniteSets, SequencesExt

CONSTANTS
    Chunk,            \* payloads of audio
    Utterance,        \* what is said in them
    UtterancesOf,     \* the utterances that end in a chunk, in order
    ChannelCapacity,  \* mpsc::channel(128)
    ReplyWindow,      \* replies the transport holds before Riva must wait
    MaxResults,       \* bound on the final results of one reply
    MaxFaults         \* bound on failed calls and lost connections

ASSUME ChunkAssumption == UtterancesOf \in [Chunk -> Seq(Utterance)]
\* An utterance ends once.
ASSUME UtteranceAssumption ==
    \A chunk, other \in Chunk :
        \A i \in DOMAIN UtterancesOf[chunk] :
            \A j \in DOMAIN UtterancesOf[other] :
                UtterancesOf[chunk][i] = UtterancesOf[other][j]
                    => chunk = other /\ i = j
ASSUME SizeAssumption ==
    /\ ChannelCapacity \in Nat \ {0}
    /\ ReplyWindow \in Nat \ {0}
    /\ MaxResults \in Nat \ {0}
    /\ MaxFaults \in Nat

VARIABLES
    requests,    \* chunks in the channel
    senderOpen,  \* the session holds its sender
    heard,       \* utterances Riva heard and has not reported
    replies,     \* replies the worker has not read
    reply,       \* the response stream: "open", "ended" or "failed"
    faults

sessionVars == <<requests, senderOpen, heard, replies, reply>>

SessionTypeOK ==
    /\ requests \in Seq(Chunk) /\ Len(requests) <= ChannelCapacity
    /\ senderOpen \in BOOLEAN
    /\ heard \in Seq(Utterance)
    /\ replies \in Seq(Seq(Utterance)) /\ Len(replies) <= ReplyWindow
    /\ reply \in {"open", "ended", "failed"}
    /\ faults \in 0..MaxFaults

\* A call failed or a connection broke.
Fault == faults < MaxFaults /\ faults' = faults + 1

\* No session: both ends dropped, nothing on the way.
Closed ==
    /\ requests = <<>> /\ senderOpen = FALSE
    /\ heard = <<>> /\ replies = <<>> /\ reply = "ended"

\* The `?` of a failed call drops the session: channel, sender and replies.
DropSession ==
    /\ requests' = <<>> /\ senderOpen' = FALSE
    /\ heard' = <<>> /\ replies' = <<>> /\ reply' = "ended"

\* open_streaming_session.
OpenStream ==
    /\ requests' = <<>> /\ senderOpen' = TRUE
    /\ heard' = <<>> /\ replies' = <<>> /\ reply' = "open"

\* sender.send, which waits while the channel is full.
Send(chunk) ==
    /\ Len(requests) < ChannelCapacity
    /\ requests' = Append(requests, chunk)
    /\ UNCHANGED <<senderOpen, heard, replies, reply>>

\* drop(self.sender).
DropSender ==
    /\ senderOpen' = FALSE
    /\ UNCHANGED <<requests, heard, replies, reply>>

\* response.message() returned the oldest reply.
ReadReply ==
    /\ replies # <<>>
    /\ replies' = Tail(replies)
    /\ UNCHANGED <<requests, senderOpen, heard, reply>>

\* response.message() returned None, or an error.
AtEnd   == replies = <<>> /\ reply = "ended"
AtError == reply = "failed"

-----------------------------------------------------------------------------
(* Riva.  It does not read on while the transport takes no reply of it.     *)

MayReply == reply = "open" /\ Len(replies) < ReplyWindow

\* A chunk arrives; an interim result may answer it.
RivaHears ==
    /\ MayReply
    /\ requests # <<>>
    /\ requests' = Tail(requests)
    /\ heard' = heard \o UtterancesOf[Head(requests)]
    /\ replies' \in {replies, Append(replies, <<>>)}
    /\ UNCHANGED <<senderOpen, reply, faults>>

\* A reply with the final results of the oldest utterances.
RivaReports ==
    /\ MayReply
    /\ \E count \in 1..MaxResults :
        /\ count <= Len(heard)
        /\ replies' = Append(replies, SubSeq(heard, 1, count))
        /\ heard' = SubSeq(heard, count + 1, Len(heard))
    /\ UNCHANGED <<requests, senderOpen, reply, faults>>

\* All requests are read and the sender is gone: the stream ends.
RivaEnds ==
    /\ reply = "open"
    /\ ~senderOpen /\ requests = <<>> /\ heard = <<>>
    /\ reply' = "ended"
    /\ UNCHANGED <<requests, senderOpen, heard, replies, faults>>

\* Riva fails, or ends the stream on its own.
RivaFails ==
    /\ reply = "open"
    /\ Fault
    /\ reply' \in {"ended", "failed"}
    /\ UNCHANGED <<requests, senderOpen, heard, replies>>

=============================================================================
