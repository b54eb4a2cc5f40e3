------------------------- MODULE TcpConnectionWrite --------------------------
(***************************************************************************)
(* The sending side of a TcpConnection (net/tcp/tcp_connection.cc): reply  *)
(* and pushSendMessage hand it messages, onWrite encodes the client's and  *)
(* writes the out buffer to the socket.  All of it runs in one thread, the *)
(* one of the connection's event loop; the kernel and the peer take bytes  *)
(* in between, and the peer may reset the connection.                      *)
(*                                                                         *)
(* Messages are numbered in the order they are handed over; the frame of   *)
(* each has EncodedLen bytes.  onWrite never moves the read index of the   *)
(* out buffer: every write() begins with the first message ever encoded.   *)
(***************************************************************************)
EXTENDS Integers, Sequences

CONSTANTS
    Sides,          \* whose connections are looked at: the values of byClient
    Windows,        \* the sizes a socket's send buffer can have
    EncodedLen,     \* bytes of an encoded message
    MaxMessages     \* bound: messages handed over

ASSUME WriteAssumption ==
    /\ Sides \subseteq BOOLEAN
    /\ Windows \subseteq Nat \ {0}
    /\ EncodedLen \in Nat \ {0}
    /\ MaxMessages \in Nat

Message == 1..MaxMessages

VARIABLES
    byClient,       \* m_connection_type = TcpConnectionByClient
    window,         \* bytes the socket holds before write() returns EAGAIN
    connection,     \* m_state
    pending,        \* m_write_dones: handed over by the client, not yet encoded
    out,            \* the messages encoded in m_out_buffer
    listeningOut,   \* the fd is registered for EPOLLOUT
    at,             \* where onWrite stands
    queued,         \* bytes in the socket's send buffer
    gone,           \* the peer has reset the connection
    given,          \* complete frames given to the socket, per message, up to 2
    done            \* messages whose done callback has run, in order

fixed == <<byClient, window>>
writeVars == <<fixed, connection, pending, out, listeningOut, at, queued, gone, given,
              done>>

Smaller(m, n) == IF m < n THEN m ELSE n

\* How many messages have been handed over: onWrite encodes the pending ones
\* when it begins and drops them when it ends.
Handed == IF at = "idle" THEN Len(out) + Len(pending) ELSE Len(out)

WriteTypeOK ==
    /\ byClient \in Sides
    /\ window \in Windows
    /\ connection \in {"Connected", "Closed"}
    /\ pending \in Seq(Message)
    /\ out \in Seq(Message)
    /\ listeningOut \in BOOLEAN
    /\ at \in {"idle", "write", "done", "failed"}
    /\ queued \in 0..window
    /\ gone \in BOOLEAN
    /\ given \in [Message -> 0..2]
    /\ done \in Seq(Message)

WriteInit ==
    /\ byClient \in Sides
    /\ window \in Windows
    /\ connection = "Connected"
    /\ pending = << >>
    /\ out = << >>
    /\ listeningOut = FALSE
    /\ at = "idle"
    /\ queued = 0
    /\ gone = FALSE
    /\ given = [m \in Message |-> 0]
    /\ done = << >>

\* RpcDispatcher::dispatch, called by excute, replies to a request.
Reply ==
    /\ ~ byClient
    /\ at = "idle" /\ connection = "Connected"
    /\ Handed < MaxMessages
    /\ out' = Append(out, Handed + 1)
    /\ listeningOut' = TRUE
    /\ UNCHANGED <<fixed, connection, pending, at, queued, gone, given, done>>

\* TcpClient::writeMessage.
WriteMessage ==
    /\ byClient
    /\ at = "idle"
    /\ Handed < MaxMessages
    /\ pending' = Append(pending, Handed + 1)
    /\ listeningOut' = TRUE
    /\ UNCHANGED <<fixed, connection, out, at, queued, gone, given, done>>

\* epoll reports the fd as writable: the socket has room, or the connection is
\* reset.  A reset is reported for reading as well, and a server's connection,
\* which is always listened to for that, is then cleared before onWrite runs.
Writable == IF gone THEN byClient ELSE queued < window

\* Mutant of OnWrite: the new messages go to the front of the buffer.
OnWritePrepends ==
    /\ at = "idle" /\ listeningOut /\ Writable
    /\ connection = "Connected"
    /\ out' = IF byClient THEN pending \o out ELSE out
    /\ listeningOut' = ~ gone
    /\ at' = "write"
    /\ UNCHANGED <<fixed, connection, pending, queued, gone, given, done>>

\* Mutant of OnWrite: a client's messages are left to another call.
OnWriteUnencoded ==
    /\ at = "idle" /\ listeningOut /\ Writable
    /\ connection = "Connected"
    /\ listeningOut' = ~ gone
    /\ at' = "write"
    /\ UNCHANGED <<fixed, connection, pending, out, queued, gone, given, done>>

\* The loop dispatches EPOLLOUT, and deletes the fd if EPOLLERR comes with it.
\* onWrite returns at once if the connection is not connected; a client's
\* messages are encoded.
OnWrite ==
    /\ at = "idle" /\ listeningOut /\ Writable
    /\ connection = "Connected"
    /\ out' = IF byClient THEN out \o pending ELSE out
    /\ listeningOut' = ~ gone
    /\ at' = "write"
    /\ UNCHANGED <<fixed, connection, pending, queued, gone, given, done>>

\* What one write() takes of the out buffer.
Total   == EncodedLen * Len(out)
Written == Smaller(Total, window - queued)

\* Mutant of WriteCall: EAGAIN also ends the listening.
WriteCallGivesUp ==
    /\ at = "write" /\ ~ (gone /\ Total > 0)
    /\ queued' = queued + Written
    /\ given' = [m \in Message |->
                  IF \E i \in 1..Len(out) : out[i] = m /\ EncodedLen * i <= Written
                  THEN Smaller(2, given[m] + 1) ELSE given[m]]
    /\ \/ /\ Written = Total \/ Written = 0
          /\ listeningOut' = FALSE
          /\ at' = "done"
       \/ /\ 0 < Written /\ Written < Total
          /\ UNCHANGED <<listeningOut, at>>
    /\ UNCHANGED <<fixed, connection, pending, out, gone, done>>

\* One round of onWrite's loop.  A write() that takes everything ends it, and
\* the listening for EPOLLOUT; so does an empty buffer.  EAGAIN ends the loop
\* only.  After a short write the loop goes on, from the first byte again.
WriteCall ==
    /\ at = "write" /\ ~ (gone /\ Total > 0)
    /\ queued' = queued + Written
    /\ given' = [m \in Message |->
                  IF \E i \in 1..Len(out) : out[i] = m /\ EncodedLen * i <= Written
                  THEN Smaller(2, given[m] + 1) ELSE given[m]]
    /\ \/ /\ Written = Total
          /\ listeningOut' = FALSE
          /\ at' = "done"
       \/ /\ Written < Total /\ Written = 0
          /\ at' = "done"
          /\ UNCHANGED listeningOut
       \/ /\ 0 < Written /\ Written < Total
          /\ UNCHANGED <<listeningOut, at>>
    /\ UNCHANGED <<fixed, connection, pending, out, gone, done>>

\* After a reset write() fails, with another error than EAGAIN: the loop goes
\* round again and again, unless SIGPIPE, which nothing handles, ends the process.
WriteFails ==
    /\ at = "write" /\ gone /\ Total > 0
    /\ at' = "failed"
    /\ UNCHANGED <<fixed, connection, pending, out, listeningOut, queued, gone, given, done>>

\* A client's callbacks run, however the loop ended, and are dropped.
RunDones ==
    /\ at = "done"
    /\ done' = IF byClient THEN done \o pending ELSE done
    /\ pending' = IF byClient THEN << >> ELSE pending
    /\ at' = "idle"
    /\ UNCHANGED <<fixed, connection, out, listeningOut, queued, gone, given>>

\* onRead finds the connection closed by the peer: clear.
Clear ==
    /\ at = "idle" /\ connection = "Connected"
    /\ connection' = "Closed"
    /\ listeningOut' = FALSE
    /\ UNCHANGED <<fixed, pending, out, at, queued, gone, given, done>>

\* The peer takes n bytes, or resets the connection.
Drain(n) ==
    /\ ~ gone /\ n <= queued
    /\ queued' = queued - n
    /\ UNCHANGED <<fixed, connection, pending, out, listeningOut, at, gone, given, done>>

Reset ==
    /\ ~ gone
    /\ gone' = TRUE
    /\ UNCHANGED <<fixed, connection, pending, out, listeningOut, at, queued, given, done>>

WriteLoop == OnWrite \/ WriteCall \/ WriteFails \/ RunDones

WriteNext ==
    \/ Reply \/ WriteMessage \/ WriteLoop \/ Clear
    \/ (\E n \in 1..window : Drain(n)) \/ Reset

WriteSpec == WriteInit /\ [][WriteNext]_writeVars

\* The loop comes to every event, and the peer goes on reading until it resets.
WriteFairSpec ==
    /\ WriteSpec
    /\ WF_writeVars(WriteLoop)
    /\ WF_writeVars(gone /\ ~ byClient /\ Clear)
    /\ WF_writeVars(queued = window /\ Drain(window))

-----------------------------------------------------------------------------
(* What must hold. *)

\* No message is stranded: as long as one is not encoded, or has not been given
\* to the socket whole, EPOLLOUT will bring onWrite back, or onWrite is at work.
NothingStranded ==
    at = "idle" /\ connection = "Connected" /\ ~ listeningOut =>
        pending = << >> /\ \A i \in 1..Len(out) : given[out[i]] > 0

\* What the peer sees and what the callers are told is in order: a message is on
\* the wire only behind those handed over before it, however often it is sent
\* again, and the done callbacks run once each, in the order of the messages.
InOrder ==
    /\ \A m, n \in Message : m < n /\ given[n] > 0 => given[m] > 0
    /\ done = [i \in 1..Len(done) |-> i]

\* A message of a connection that stays open is sent, if the socket has room
\* for all that is ever written: the k-th onWrite writes up to k messages.  Left
\* out is the onWrite that a reset has caught in its loop.
RoomForAll == window >= EncodedLen * ((MaxMessages * (MaxMessages + 1)) \div 2)
MessageSent ==
    \A m \in Message :
        (m <= Handed /\ RoomForAll) ~>
            (given[m] > 0 \/ connection = "Closed" \/ at = "failed")

\* tcp_connection.cc:135-136: the response to each request is put in the send
\* buffer and sent back.  Nothing is ever taken out of the out buffer, so the
\* next reply sends every earlier one again.
SentOnce == \A m \in Message : given[m] <= 1

\* tcp_client.cc:160: done is called if the message has been sent.  The done
\* callbacks run however onWrite's loop has ended, also with EAGAIN in front of
\* the message.
DoneMeansSent == \A i \in 1..Len(done) : given[done[i]] > 0
=============================================================================
