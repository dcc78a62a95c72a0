-------------------------------- MODULE Framing --------------------------------
(***************************************************************************)
(* The messages of procnet-core/src/ipc.rs as bytes on a connection: a     *)
(* length prefix of two bytes, then the bincode payload.  The module looks *)
(* at one direction of one connection, either the snapshots a worker of    *)
(* server.rs writes or the commands a client sends.                        *)
(*                                                                         *)
(* A byte has Base values instead of 256, so the prefix can announce up to *)
(* Base^2 - 1 bytes.  A message is its payload.                            *)
(***************************************************************************)
EXTENDS Naturals, Sequences

CONSTANTS
    Base,               \* 256: values of a byte
    Snapshots, Commands,\* the payloads in each direction
    SockCap,            \* bytes the socket buffer holds
    BufCap,             \* bytes a BufReader holds
    MaxMsgs             \* bound: messages in one behaviour

PrefixLen == 2
MaxPayload == Base * Base - 1

ASSUME FramingAssumption ==
    /\ Base \in Nat \ {0, 1}
    /\ \A m \in Snapshots \cup Commands : m \in Seq(0 .. Base - 1) /\ m # << >>
    /\ \A m \in Commands : Len(m) <= MaxPayload /\ PrefixLen + Len(m) <= SockCap
    /\ SockCap \in Nat \ {0} /\ BufCap \in Nat \ {0} /\ MaxMsgs \in Nat

VARIABLES
    dir,                \* "snapshots" or "commands"
    writer, reader,     \* "run" or "ended"
    open,               \* does the sending side hold the connection?
    rest,               \* what write_all has still to write
    sock,               \* the bytes in the socket
    buf,                \* the bytes in the BufReader
    stage, part, want,  \* read_msg: "prefix" or "payload", bytes read, bytes wanted
    sent, got,          \* history: messages framed, and messages decoded
    whole,              \* history: frames written to their end
    overrun             \* history: did the first fill leave bytes in the socket?

writeVars == <<dir, writer, open, rest, sent, whole>>
readVars == <<reader, buf, stage, part, want, got, overrun>>
vars == <<writeVars, sock, readVars>>

Init ==
    /\ dir \in {"snapshots", "commands"}
    /\ writer = "run" /\ reader = "run" /\ open = TRUE
    /\ rest = << >> /\ sock = << >> /\ buf = << >>
    /\ stage = "prefix" /\ part = << >> /\ want = PrefixLen
    /\ sent = << >> /\ got = << >> /\ whole = 0 /\ overrun = FALSE

--------------------------------------------------------------------------------
(* The writing side.                                                       *)

\* Mutant of Prefix: the high byte comes first.
PrefixBigEndian(n) == <<n \div Base, n % Base>>

Prefix(n) == <<n % Base, n \div Base>>
Frame(m) == Prefix(Len(m)) \o m

\* write_msg, and the start of write_all.
WriteMsg(m) ==
    /\ writer = "run" /\ rest = << >> /\ Len(sent) < MaxMsgs
    /\ Len(m) <= MaxPayload
    /\ rest' = Frame(m)
    /\ sent' = Append(sent, m)
    /\ UNCHANGED <<dir, writer, open, sock, whole, readVars>>

\* write_msg returns Oversized, the daemon exits and the connection is closed.
Oversized(m) ==
    /\ writer = "run" /\ rest = << >>
    /\ Len(m) > MaxPayload
    /\ writer' = "ended" /\ open' = FALSE
    /\ UNCHANGED <<dir, rest, sock, sent, whole, readVars>>

\* Mutant of Pieces: prefix and payload are written one after the other.
PiecesInTwo == {PrefixLen, Len(rest)}

\* How much one write(2) takes: the kernel splits a snapshot as it finds room, but
\* takes a command whole.
Pieces == IF dir = "commands" THEN {Len(rest)} ELSE 1 .. Len(rest)

WriteSome ==
    /\ writer = "run" /\ rest # << >>
    /\ \E n \in Pieces :
        /\ n <= Len(rest) /\ Len(sock) + n <= SockCap
        /\ sock' = sock \o SubSeq(rest, 1, n)
        /\ rest' = SubSeq(rest, n + 1, Len(rest))
    /\ whole' = IF rest' = << >> THEN whole + 1 ELSE whole
    /\ UNCHANGED <<dir, writer, open, sent, readVars>>

\* Mutant of WriteTimesOut: the worker goes on with the next snapshot.
WriteTimesOutGoesOn ==
    /\ writer = "run" /\ dir = "snapshots"
    /\ rest # << >> /\ Len(sock) = SockCap
    /\ rest' = << >>
    /\ UNCHANGED <<dir, writer, open, sock, sent, whole, readVars>>

\* 200 ms without room: write_all fails, perhaps in the middle of a frame.  The
\* worker ends; the reader thread still holds the connection.
WriteTimesOut ==
    /\ writer = "run" /\ dir = "snapshots"
    /\ rest # << >> /\ Len(sock) = SockCap
    /\ writer' = "ended" /\ rest' = << >>
    /\ UNCHANGED <<dir, open, sock, sent, whole, readVars>>

\* The sending process exits, at any point.
Close ==
    /\ open
    /\ open' = FALSE /\ writer' = "ended" /\ rest' = << >>
    /\ UNCHANGED <<dir, sock, sent, whole, readVars>>

--------------------------------------------------------------------------------
(* The reading side.                                                       *)

\* An empty BufReader is filled with what the socket holds.
Fill ==
    /\ reader = "run" /\ Len(part) < want /\ buf = << >> /\ sock # << >>
    /\ LET n == IF Len(sock) < BufCap THEN Len(sock) ELSE BufCap
       IN  /\ buf' = SubSeq(sock, 1, n)
           /\ sock' = SubSeq(sock, n + 1, Len(sock))
    /\ overrun' = (overrun \/ (dir = "commands" /\ got = << >> /\ sock' # << >>))
    /\ UNCHANGED <<writeVars, reader, stage, part, want, got>>

\* read_exact copies from the buffer what it still wants.
ReadExact ==
    /\ reader = "run" /\ Len(part) < want /\ buf # << >>
    /\ LET n == IF Len(buf) < want - Len(part) THEN Len(buf) ELSE want - Len(part)
       IN  /\ part' = part \o SubSeq(buf, 1, n)
           /\ buf' = SubSeq(buf, n + 1, Len(buf))
    /\ UNCHANGED <<writeVars, sock, reader, stage, want, got, overrun>>

PrefixRead ==
    /\ reader = "run" /\ stage = "prefix" /\ Len(part) = want
    /\ stage' = "payload" /\ part' = << >>
    /\ want' = part[1] + Base * part[2]
    /\ UNCHANGED <<writeVars, sock, reader, buf, got, overrun>>

\* The payload is decoded.  After the first command the BufReader is dropped, with
\* what it holds, and a second one is put on the stream (server.rs).
PayloadRead ==
    /\ reader = "run" /\ stage = "payload" /\ Len(part) = want
    /\ got' = Append(got, part)
    /\ stage' = "prefix" /\ part' = << >> /\ want' = PrefixLen
    /\ buf' = IF dir = "commands" /\ got = << >> THEN << >> ELSE buf
    /\ UNCHANGED <<writeVars, sock, reader, overrun>>

\* End of stream, also within a frame; or the first command did not come in 2 s.
ReadFails ==
    /\ reader = "run" /\ Len(part) < want /\ buf = << >> /\ sock = << >>
    /\ ~open \/ (dir = "commands" /\ got = << >>)
    /\ reader' = "ended"
    /\ UNCHANGED <<writeVars, sock, buf, stage, part, want, got, overrun>>

Reader == Fill \/ ReadExact \/ PrefixRead \/ PayloadRead \/ ReadFails

Next ==
    \/ \E m \in IF dir = "snapshots" THEN Snapshots ELSE Commands :
          WriteMsg(m) \/ Oversized(m)
    \/ WriteSome \/ WriteTimesOut \/ Close
    \/ Reader

Spec == Init /\ [][Next]_vars

\* The thread that reads is scheduled; writes and closing are not forced.
FairSpec == Spec /\ WF_vars(Reader)

--------------------------------------------------------------------------------
(* Properties.                                                             *)

IsPrefix(s, t) == Len(s) <= Len(t) /\ SubSeq(t, 1, Len(s)) = s

\* The snapshots a client decodes are the first ones that were framed, unchanged
\* and in order: partial writes, partial reads and a write that timed out within a
\* frame never make it take the middle of a snapshot for a prefix.
SnapshotsAligned == dir = "snapshots" => IsPrefix(got, sent)

\* The commands the daemon decodes are the first one sent and, of the later ones, a
\* run without a gap: what the first BufReader took along is whole commands, so the
\* second one starts at a prefix (unless the client had sent more than a BufReader
\* holds, 8 KiB, before the daemon read the first command).
CommandsAligned ==
    dir = "commands" /\ ~overrun /\ got # << >> =>
        /\ Head(got) = Head(sent)
        /\ \E n \in 1 .. Len(sent) : IsPrefix(Tail(got), SubSeq(sent, n + 1, Len(sent)))

\* Every snapshot that was written to its end is decoded, however the stream was cut
\* into pieces, and also when the daemon is gone.
WholeIsDelivered ==
    \A n \in 1 .. MaxMsgs :
        dir = "snapshots" /\ whole >= n ~> Len(got) >= n

--------------------------------------------------------------------------------
(* What the proofs add to make these inductive.                            *)

FramingTypeOK ==
    /\ dir \in {"snapshots", "commands"} /\ writer \in {"run", "ended"}
    /\ rest \in Seq(Nat) /\ sock \in Seq(Nat) /\ buf \in Seq(Nat) /\ part \in Seq(Nat)
    /\ stage \in {"prefix", "payload"} /\ want \in Nat
    /\ stage = "prefix" => want = PrefixLen
    /\ sent \in Seq(Snapshots \cup Commands) /\ got \in Seq(Seq(Nat))
    /\ overrun \in BOOLEAN

\* The bytes of the first i messages of ms.
Stream(ms) ==
    LET upTo[i \in 0 .. Len(ms)] == IF i = 0 THEN << >> ELSE upTo[i-1] \o Frame(ms[i])
    IN  upTo

\* After the first n messages of ms come these bytes: the beginning of the others,
\* or all of them.
Continues(ms, n, bytes, all) ==
    /\ IsPrefix(Stream(ms)[n] \o bytes, Stream(ms)[Len(ms)])
    /\ all => Stream(ms)[n] \o bytes = Stream(ms)[Len(ms)]

\* What the reader has taken of messages it has not decoded yet.
Header == IF stage = "payload" THEN Prefix(want) ELSE << >>
Taken == Header \o (part \o buf)

\* The reader is done with the first n messages: what it has taken of the others,
\* what is in the socket and what is still to be written are their bytes, all of
\* them as long as the writer runs; and it wants the length the next one has.
ReaderAt(n) ==
    /\ Continues(sent, n, Taken \o (sock \o rest), writer = "run")
    /\ stage = "payload" => n < Len(sent) /\ want = Len(sent[n + 1])

SnapshotsFollow ==
    dir = "snapshots" =>
        \E n \in 0 .. Len(sent) :
            ReaderAt(n) /\ Len(got) = n /\ \A i \in 1 .. n : got[i] = sent[i]

\* The decoded messages, the first of them apart, are the ones just before place n.
DecodedUpTo(n) ==
    /\ got = << >> => n = 0
    /\ got # << >> => Len(got) <= n /\ got[1] = sent[1]
    /\ \A i \in 2 .. Len(got) : got[i] = sent[n - Len(got) + i]

\* Commands are written whole, so the socket always ends with one; and so does
\* what the first BufReader takes, unless it was too small.
WholeCommands(n) ==
    /\ \E w \in 0 .. Len(sent) : Stream(sent)[n] \o (Taken \o sock) = Stream(sent)[w]
    /\ got = << >> /\ Taken # << >> => \E m \in 1 .. Len(sent) : Taken = Stream(sent)[m]

CommandsFollow ==
    dir = "commands" /\ ~overrun =>
        \E n \in 0 .. Len(sent) : ReaderAt(n) /\ DecodedUpTo(n) /\ WholeCommands(n)
================================================================================
