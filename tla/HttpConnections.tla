--------------------------- MODULE HttpConnections ---------------------------
(***************************************************************************)
(* Requests to the daemon: HttpServer collects what a connection brings    *)
(* until the headers and the body they announce are there, answers, and    *)
(* closes the connection, at once or when what it wrote has gone out.      *)
(* Clients send one request per connection.                                *)
(*                                                                         *)
(* A byte is a part of the headers, their end, or a byte of the body.      *)
(***************************************************************************)
EXTENDS Naturals, Sequences, SequencesExt

CONSTANTS
  Connection,
  Requests,        \* [bytes, length, wellFormed, stream]
  MaxRequestBytes  \* MAX_REQUEST_BYTES

Byte == {"head", "end", "body"}

\* What a client may send: its parts in this order, and the length that it announces.  The
\* headers' end is found where it is found first.
ASSUME HttpAssumption ==
  /\ MaxRequestBytes \in Nat /\ Requests # {}
  /\ \A r \in Requests :
       /\ r \in [bytes: Seq(Byte), length: Nat, wellFormed: BOOLEAN, stream: BOOLEAN]
       /\ \E head \in DOMAIN r.bytes :
            /\ r.bytes[head] = "end" /\ \A i \in 1..head - 1 : r.bytes[i] = "head"
            /\ head + r.length = Len(r.bytes)

VARIABLES
  httpState,    \* per connection: "open", "closing" or "closed"
  httpRequest,  \* what its client sends
  httpWire,     \* the part of it that has not been read
  httpBuffer,   \* Connection::buffer
  httpHeaders,  \* Connection::headersComplete, headerLength and contentLength
  httpAnswers   \* what it was answered

httpVars == <<httpState, httpRequest, httpWire, httpBuffer, httpHeaders, httpAnswers>>

NoHeaders == [complete |-> FALSE, header |-> 0, content |-> 0]
Refusal(status) == [status |-> status, body |-> <<>>]
Handled(body) == [status |-> 200, body |-> body]

HttpInit ==
  /\ httpState = [c \in Connection |-> "closed"]
  /\ httpRequest = [c \in Connection |-> CHOOSE r \in Requests : TRUE]
  /\ httpWire = [c \in Connection |-> <<>>]
  /\ httpBuffer = [c \in Connection |-> <<>>]
  /\ httpHeaders = [c \in Connection |-> NoHeaders]
  /\ httpAnswers = [c \in Connection |-> <<>>]

\* incomingConnection: another peer than the allowed one is disconnected, with no Connection.
IncomingConnection(c, request) ==
  /\ httpState[c] = "closed"
  /\ httpState' = [httpState EXCEPT ![c] = "open"]
  /\ httpRequest' = [httpRequest EXCEPT ![c] = request]
  /\ httpWire' = [httpWire EXCEPT ![c] = request.bytes]
  /\ httpBuffer' = [httpBuffer EXCEPT ![c] = <<>>]
  /\ httpHeaders' = [httpHeaders EXCEPT ![c] = NoHeaders]
  /\ httpAnswers' = [httpAnswers EXCEPT ![c] = <<>>]

-----------------------------------------------------------------------------
(* onReadyRead.                                                            *)

\* The headers of a buffer, if it has their end.
ReadHeaders(c, buffer) ==
  LET ends == {i \in DOMAIN buffer : buffer[i] = "end"}
  IN  IF httpHeaders[c].complete \/ ends = {} THEN httpHeaders[c]
      ELSE [complete |-> TRUE, header |-> CHOOSE i \in ends : \A j \in ends : i <= j,
            content |-> httpRequest[c].length]

Waits(c, buffer, headers) ==
  /\ httpBuffer' = [httpBuffer EXCEPT ![c] = buffer]
  /\ httpHeaders' = [httpHeaders EXCEPT ![c] = headers]
  /\ UNCHANGED <<httpState, httpAnswers>>

\* SendResponse: what cannot be written yet keeps the connection, which is read from meanwhile.
Responds(c, answer) ==
  /\ httpAnswers' = [httpAnswers EXCEPT ![c] = Append(@, answer)]
  /\ \E state \in {"closing", "closed"} : httpState' = [httpState EXCEPT ![c] = state]

\* An error leaves the buffer as it is.
Refuses(c, status, buffer, headers) ==
  /\ Responds(c, Refusal(status))
  /\ httpBuffer' = [httpBuffer EXCEPT ![c] = buffer]
  /\ httpHeaders' = [httpHeaders EXCEPT ![c] = headers]

\* A request is taken from the buffer, with whatever follows it; an event stream stays open.
HandleRequest(c, body) ==
  /\ httpBuffer' = [httpBuffer EXCEPT ![c] = <<>>]
  /\ httpHeaders' = [httpHeaders EXCEPT ![c] = NoHeaders]
  /\ IF httpRequest[c].stream
     THEN httpAnswers' = [httpAnswers EXCEPT ![c] = Append(@, Handled(body))] /\ UNCHANGED httpState
     ELSE Responds(c, Handled(body))

OnReadyRead(c, n) ==
  LET buffer  == httpBuffer[c] \o SubSeq(httpWire[c], 1, n)
      headers == ReadHeaders(c, buffer)
      whole   == headers.header + headers.content
  IN  /\ httpState[c] \in {"open", "closing"}
      /\ httpWire' = [httpWire EXCEPT ![c] = SubSeq(@, n + 1, Len(@))]
      /\ IF Len(buffer) > MaxRequestBytes THEN Refuses(c, 413, buffer, httpHeaders[c])
         ELSE IF ~headers.complete \/ Len(buffer) < whole THEN Waits(c, buffer, headers)
         ELSE IF ~httpRequest[c].wellFormed THEN Refuses(c, 400, buffer, headers)
         ELSE HandleRequest(c, SubSeq(buffer, headers.header + 1, whole))
      /\ UNCHANGED httpRequest

\* onDisconnected: the answer is out, or the client has gone.
OnDisconnected(c) ==
  /\ httpState[c] \in {"open", "closing"}
  /\ httpState' = [httpState EXCEPT ![c] = "closed"]
  /\ UNCHANGED <<httpRequest, httpWire, httpBuffer, httpHeaders, httpAnswers>>

HttpNext ==
  \E c \in Connection :
    \/ \E request \in Requests : IncomingConnection(c, request)
    \/ \E n \in DOMAIN httpWire[c] : OnReadyRead(c, n)
    \/ OnDisconnected(c)

HttpSpec == HttpInit /\ [][HttpNext]_httpVars

-----------------------------------------------------------------------------
(* Properties.                                                             *)

\* However a request is cut on its way, it is answered as the whole it was sent as: with its
\* body if it is one, and refused if it is too large or none.  What is handled is handled once
\* (a refusal can be repeated, while what is left of the request arrives), and an open
\* connection whose request has arrived has been answered (onReadyRead, HandleRequest,
\* SendResponse).
AnsweredAsSent ==
  \A c \in Connection :
    LET request == httpRequest[c]
        answer  == IF Len(request.bytes) > MaxRequestBytes THEN Refusal(413)
                   ELSE IF ~request.wellFormed THEN Refusal(400)
                   ELSE Handled(SubSeq(request.bytes, Len(request.bytes) - request.length + 1, Len(request.bytes)))
    IN  /\ ToSet(httpAnswers[c]) \subseteq {answer}
        /\ answer.status = 200 => Len(httpAnswers[c]) <= 1
        /\ httpState[c] = "open" /\ httpWire[c] = <<>> => httpAnswers[c] # <<>>
=============================================================================
