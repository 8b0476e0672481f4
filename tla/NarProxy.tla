------------------------------ MODULE NarProxy ------------------------------
(***************************************************************************)
(* services/attic-nar-proxy/main.go: followS3Redirect fetches what atticd  *)
(* redirects to, and httputil.ReverseProxy relays it to a substituter,     *)
(* which asks for one object, in parts 1 .. Size, until it has it.         *)
(*                                                                         *)
(* The substituter, atticd, Garage and net/http are modelled from how      *)
(* main.go uses them.  Uploads, which are not redirected, are left out.    *)
(***************************************************************************)
EXTENDS Naturals, Sequences

CONSTANTS Size, MaxTries  \* MaxTries: the requests of the client

ASSUME ProxyAssumption == Size \in Nat \ {0} /\ MaxTries \in Nat

VARIABLES
  asked,  \* the client's method, and the parts it has already
  at,     \* "idle", or what the exchange waits for: "atticd", "garage", "drain", "send"
  reply,  \* the response the client gets: the status, what is left of the body
  open,   \* whose response body is open: "none", "atticd", "garage"
  gone,   \* whether the client has hung up
  got,    \* the parts the client has put together
  has,    \* whether it takes them for the whole object
  tries

proxyVars == <<asked, at, reply, open, gone, got, has, tries>>

Whole == [i \in 1 .. Size |-> i]
Response(status, body) == [status |-> status, body |-> body]
Error(status) == Response(status, <<0>>)

\* The object from a part on; a server need not honour a range.
Serve(from) == {Response(200, Whole)}
               \cup IF from = 0 THEN {} ELSE {Response(206, SubSeq(Whole, from + 1, Size))}

ProxyInit ==
  /\ asked = [method |-> "GET", from |-> 0] /\ at = "idle" /\ reply = Error(0)
  /\ open = "none" /\ gone = FALSE /\ got = <<>> /\ has = FALSE /\ tries = 0

\* A HEAD when the narinfo has no FileSize, or a GET of what is missing.
Ask ==
  /\ at = "idle" /\ ~has /\ tries < MaxTries
  /\ asked' \in {[method |-> "HEAD", from |-> 0], [method |-> "GET", from |-> Len(got)]}
  /\ tries' = tries + 1 /\ at' = "atticd" /\ gone' = FALSE
  /\ UNCHANGED <<reply, open, got, has>>

\* The response goes to the client.  200 is the object from its start, 206
\* goes on where the client was.
Relay(r, from) ==
  /\ at' = "send" /\ open' = from
  /\ reply' = IF asked.method = "HEAD" THEN [r EXCEPT !.body = <<>>] ELSE r
  /\ got' = IF asked.method = "GET" /\ r.status = 200 THEN <<>> ELSE got

\* atticd sends the NAR itself, has an error, or redirects; followS3Redirect
\* follows a redirect that has a Location.
FromAtticd ==
  /\ at = "atticd"
  /\ \/ \E r \in Serve(asked.from) \cup {Error(404), Error(500), Error(307)} : Relay(r, "atticd")
     \/ at' = "garage" /\ open' = "atticd" /\ UNCHANGED <<reply, got>>
  /\ UNCHANGED <<asked, gone, has, tries>>

\* Mutant: a followed redirect becomes a 200, whatever Garage says.
Followed_Ok(s) == [s EXCEPT !.status = 200]

\* The status and headers of Garage take the place of atticd's.
Followed(s) == s

\* Always a GET of the whole object, which is read to its end for a HEAD.
\* When s3.Do fails, ErrorHandler answers 502.
FromGarage ==
  /\ at = "garage"
  /\ \/ \E s \in Serve(0) \cup {Error(403), Error(404)} :
          IF asked.method = "HEAD"
            THEN at' = "drain" /\ reply' = Followed(s) /\ open' = "garage" /\ UNCHANGED got
            ELSE Relay(Followed(s), "garage")
     \/ Relay(Error(502), "none")
  /\ UNCHANGED <<asked, gone, has, tries>>

Drained ==
  /\ at = "drain"
  /\ Relay(reply, "none")
  /\ UNCHANGED <<asked, gone, has, tries>>

Carries == asked.method = "GET" /\ reply.status \in {200, 206}

\* The reverse proxy copies the body and closes it.
Send ==
  /\ at = "send"
  /\ IF reply.body # <<>>
       THEN /\ reply' = [reply EXCEPT !.body = Tail(@)]
            /\ got' = IF Carries THEN Append(got, Head(reply.body)) ELSE got
            /\ UNCHANGED <<at, open, has>>
       ELSE /\ at' = "idle" /\ open' = "none" /\ has' = Carries
            /\ UNCHANGED <<reply, got>>
  /\ UNCHANGED <<asked, gone, tries>>

\* The body breaks off, and the connection to the client with it.
Break ==
  /\ at = "send" /\ reply.body # <<>>
  /\ at' = "idle" /\ open' = "none"
  /\ UNCHANGED <<asked, reply, gone, got, has, tries>>

HangUp ==
  /\ at # "idle" /\ ~gone
  /\ gone' = TRUE
  /\ UNCHANGED <<asked, at, reply, open, got, has, tries>>

\* Mutant: the request to Garage has a context of its own.
Canceled_Own == {"atticd", "send"}

\* What ends with the context of the client's request, req.Context().
Canceled == {"atticd", "garage", "drain", "send"}

Cancel ==
  /\ gone /\ at \in Canceled
  /\ at' = "idle" /\ open' = "none"
  /\ UNCHANGED <<asked, reply, gone, got, has, tries>>

ProxyNext == Ask \/ FromAtticd \/ FromGarage \/ Drained \/ Send \/ Break \/ HangUp \/ Cancel

\* atticd, Garage and the client may stall for ever (Timeout: 0); only
\* net/http, which cancels, goes on.
ProxySpec == ProxyInit /\ [][ProxyNext]_proxyVars /\ WF_proxyVars(Cancel)

-----------------------------------------------------------------------------
(* Properties *)

\* A substituter that gets to the end of a GET, in however many pieces, from
\* atticd or through a redirect, has the object and no error page or mix.
AssembledIsWhole == has => got = Whole

\* When the client hangs up, no body of atticd or Garage stays open, also
\* when Garage never sends another byte.
HungUpIsClosed == gone ~> open = "none"

=============================================================================
