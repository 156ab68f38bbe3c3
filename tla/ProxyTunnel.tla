------------------------------ MODULE ProxyTunnel ------------------------------
(***************************************************************************)
(* A connection to an SSH server through a proxy (network/lib.rs): what    *)
(* the proxy answers arrives in pieces of any size, directly followed by   *)
(* what the server says; the client must take its part of it and no more.  *)
(* A number stands for one byte, or for a word of the HTTP status line.    *)
(***************************************************************************)
EXTENDS Integers, SequencesExt

CONSTANTS Limit,    \* bytes of an HTTP answer's head, 16 KiB in the code
          Banner    \* the first bytes of the SSH server

VARIABLES scheme, secret,  \* kind of proxy; credentials are configured
          stream,   \* all that is going to arrive
          arrived,  \* how much of it has
          closed,   \* the connection is
          step,     \* of the client
          taken,    \* how much the client has read
          result,   \* None, ok or failed
          sent      \* what the client has said

fixed == <<scheme, secret, stream>>
vars == <<fixed, arrived, closed, step, taken, result, sent>>

Http11 == 11
OtherProtocol == 12
Other == 120
Line == <<13, 10>>
Repeated(byte, n) == [i \in 1..n |-> byte]
Address(type) ==
  CASE type = 1 -> Repeated(Other, 4) [] type = 4 -> Repeated(Other, 16)
    [] type = 3 -> <<2, Other, Other>> [] type \notin {1, 3, 4} -> <<>>

Words(version, status, headers) == <<version, status>> \o Line \o FlattenSeq(Repeated(<<Other>> \o Line, headers)) \o Line
Reply(method, auth, header) ==
  <<5, method>> \o (IF method = 2 THEN auth ELSE <<>>) \o header \o Address(header[4]) \o <<Other, Other>>

HttpAnswers == {Words(v, s, n) : v \in {Http11, OtherProtocol}, s \in {200, 407, 502, Other}, n \in 0..2}
SocksAnswers ==
  {Reply(m, a, h) : m \in {0, 2, 255}, a \in {<<1, 0>>, <<1, 1>>},
                    h \in {<<5, code, zero, type>> : code \in {0, 5}, zero \in {0, 1}, type \in {1, 3, 4, 9}}}
Answers == IF scheme = "http" THEN HttpAnswers ELSE SocksAnswers

\* What the proxy means, said about whole answers.
Accepts(answer) ==
  IF scheme = "http" THEN answer[1] = Http11 /\ answer[2] = 200
  ELSE /\ answer[2] = IF secret THEN 2 ELSE 0
       /\ secret => answer[4] = 0
       /\ LET h == IF secret THEN 5 ELSE 3 IN answer[h + 1] = 0 /\ answer[h + 2] = 0 /\ answer[h + 3] \in {1, 3, 4}

Init ==
  /\ scheme \in {"http", "socks5"} /\ secret \in BOOLEAN
  /\ stream \in {answer \o Banner : answer \in Answers} /\ closed = FALSE /\ arrived = 0 /\ taken = 0 /\ result = "none"
  /\ step = (IF scheme = "http" THEN "request" ELSE "greet") /\ sent = <<>>

Arrive ==
  /\ ~closed /\ \E n \in arrived + 1..Len(stream) : arrived' = n
  /\ UNCHANGED <<fixed, closed, step, taken, result, sent>>

Close == ~closed /\ closed' = TRUE /\ UNCHANGED <<fixed, arrived, step, taken, result, sent>>
-----------------------------------------------------------------------------
\* What the client does with bytes that are there.

Fails == result' = "failed" /\ step' = "end"
Goes(to) == step' = to /\ UNCHANGED result

\* read_exact: n bytes, as they come.
Reads(n) == arrived >= taken + n /\ taken' = taken + n
Read(i) == stream[taken + i]

Says(message, to) ==
  /\ sent' = Append(sent, message) /\ Goes(to) /\ UNCHANGED <<fixed, arrived, closed, taken>>

\* http_connect: the credentials go with the request.
Request ==
  /\ step = "request" /\ Says(IF secret THEN "credentials" ELSE "request", "head")

\* Changed: whatever has arrived is read at once.
AnswerBuffered ==
  /\ step = "head" /\ arrived > taken /\ taken' = arrived
  /\ LET head == SubSeq(stream, 1, taken')
     IN IF \E i \in 4..Len(head) : SubSeq(head, i - 3, i) = Line \o Line
        THEN IF head[1] = Http11 /\ head[2] = 200 THEN result' = "ok" /\ step' = "end" ELSE Fails
        ELSE Goes("head")
  /\ UNCHANGED <<fixed, arrived, closed, sent>>

\* Byte by byte to the end of the head; then its first line decides.
Answer ==
  /\ step = "head"
  /\ LET head == SubSeq(stream, 1, taken)  whole == IsSuffix(Line \o Line, head)
     IN  \/ /\ ~whole /\ taken < Limit /\ Reads(1) /\ Goes("head")
         \/ /\ ~whole /\ taken >= Limit /\ Fails /\ UNCHANGED taken
         \/ /\ whole /\ UNCHANGED taken
            /\ IF head[1] = Http11 /\ head[2] = 200 THEN result' = "ok" /\ step' = "end" ELSE Fails
  /\ UNCHANGED <<fixed, arrived, closed, sent>>

\* Changed: the credentials follow the greeting at once.
GreetAndTell == step = "greet" /\ Says(IF secret THEN "credentials" ELSE "method 0", "method")

\* socks_connect: one method is offered.
Greet == step = "greet" /\ Says(IF secret THEN "method 2" ELSE "method 0", "method")

Method ==
  /\ step = "method" /\ Reads(2)
  /\ IF Read(1) = 5 /\ Read(2) = (IF secret THEN 2 ELSE 0) THEN Goes(IF secret THEN "tell" ELSE "ask") ELSE Fails
  /\ UNCHANGED <<fixed, arrived, closed, sent>>

Tell == step = "tell" /\ Says("credentials", "auth")

Auth ==
  /\ step = "auth" /\ Reads(2)
  /\ IF Read(1) = 1 /\ Read(2) = 0 THEN Goes("ask") ELSE Fails
  /\ UNCHANGED <<fixed, arrived, closed, sent>>

Ask == step = "ask" /\ Says("target", "header")

Header ==
  /\ step = "header" /\ Reads(4)
  /\ IF Read(1) = 5 /\ Read(2) = 0 /\ Read(3) = 0 /\ Read(4) \in {1, 3, 4}
     THEN Goes(IF Read(4) = 3 THEN "length" ELSE IF Read(4) = 1 THEN "bound4" ELSE "bound16") ELSE Fails
  /\ UNCHANGED <<fixed, arrived, closed, sent>>

\* The address the proxy is bound to, of any of three kinds, and its port.
Bound(n) == Reads(n) /\ result' = "ok" /\ step' = "end"

BoundAddress ==
  /\ \/ step = "length" /\ arrived > taken /\ Bound(1 + Read(1) + 2)
     \/ step = "bound4" /\ Bound(4 + 2)
     \/ step = "bound16" /\ Bound(16 + 2)
  /\ UNCHANGED <<fixed, arrived, closed, sent>>

\* The connection is closed before the client has what it waits for, or the time
\* that connect allows for all of it is over.
Lost ==
  /\ step \notin {"end", "request", "greet", "tell", "ask"} /\ closed
  /\ Fails /\ UNCHANGED <<fixed, arrived, closed, taken, sent>>

TimeOut == step # "end" /\ Fails /\ UNCHANGED <<fixed, arrived, closed, taken, sent>>
-----------------------------------------------------------------------------
Client == Request \/ Answer \/ Greet \/ Method \/ Tell \/ Auth \/ Ask \/ Header \/ BoundAddress \/ Lost
Next == Client \/ Arrive \/ Close \/ TimeOut

Spec == Init /\ [][Next]_vars
-----------------------------------------------------------------------------
\* A tunnel is handed over only when the proxy agreed to it in full, and the first
\* byte that is read from it is the first one of the server, however the answers
\* and the server's own words were cut into pieces.
FirstByteOfServer ==
  result = "ok" =>
    \E answer \in Answers : Accepts(answer) /\ taken = Len(answer) /\ IsPrefix(answer, stream)

\* A SOCKS5 proxy that did not choose it never sees the password.
PasswordOnlyAsked ==
  scheme = "socks5" /\ Contains(sent, "credentials") => secret /\ taken >= 2 /\ stream[2] = 2
===============================================================================
