-------------------------- MODULE NarProxy_proofs --------------------------
(* A substituter that takes an object for complete has it, for objects of   *)
(* any size and any number of attempts.                                     *)
EXTENDS NarProxy, TLAPS

\* got is the object up to some part, and body what is missing after it.
Start(parts) == Len(parts) <= Size /\ \A i \in 1 .. Len(parts) : parts[i] = i
Missing(body) ==
  Len(got) + Len(body) = Size /\ \A i \in 1 .. Len(body) : body[i] = Len(got) + i

\* A request for a part is for the first one that is missing; a response that
\* carries parts goes on where the client is.
PartsInv ==
  /\ got \in Seq(Nat) /\ Start(got) /\ (has => at = "idle" /\ Len(got) = Size)
  /\ asked \in [method : {"HEAD", "GET"}, from : Nat]
  /\ reply \in [status : Nat, body : Seq(Nat)]
  /\ at \in {"idle", "atticd", "garage", "drain", "send"}
  /\ at \in {"atticd", "garage"} /\ asked.method = "GET" => asked.from = Len(got)
  /\ at = "drain" => asked.method = "HEAD"
  /\ at = "send" /\ Carries => Missing(reply.body)

\* What a server may answer: an error, the whole object, or the object from
\* the part that was asked for.
Sound(r, from) ==
  /\ r \in [status : Nat, body : Seq(Nat)]
  /\ r.status = 200 => r.body = Whole
  /\ r.status = 206 => r.body = SubSeq(Whole, from + 1, Size)

LEMMA WholeParts ==
  /\ Whole \in Seq(Nat) /\ Len(Whole) = Size /\ Size \in Nat
  /\ \A i \in 1 .. Size : Whole[i] = i
BY ProxyAssumption DEF Whole

LEMMA ServeSound ==
  ASSUME NEW from \in Nat, NEW r \in Serve(from) PROVE Sound(r, from)
<1>1. SubSeq(Whole, from + 1, Size) \in Seq(Nat)
  BY WholeParts
<1>2. CASE r = Response(200, Whole)
  BY <1>2, WholeParts DEF Response, Sound
<1>3. CASE r = Response(206, SubSeq(Whole, from + 1, Size))
  BY <1>3, <1>1 DEF Response, Sound
<1> QED BY <1>2, <1>3 DEF Serve

LEMMA ErrorSound ==
  ASSUME NEW status \in Nat \ {200, 206}, NEW from PROVE Sound(Error(status), from)
<1>1. <<0>> \in Seq(Nat)
  OBVIOUS
<1> QED BY <1>1 DEF Error, Response, Sound

-----------------------------------------------------------------------------
(* A response reaches the client *)

LEMMA RelayInv ==
  ASSUME PartsInv, NEW r, NEW from, Relay(r, from), UNCHANGED <<asked, has>>, ~has,
         r \in [status : Nat, body : Seq(Nat)],
         asked.method = "GET" => Sound(r, asked.from) /\ asked.from = Len(got)
  PROVE  PartsInv'
<1> USE DEF PartsInv
<1>1. CASE asked.method = "HEAD"
  <2>1. reply' = [r EXCEPT !.body = <<>>] /\ got' = got /\ at' = "send"
    BY <1>1 DEF Relay
  <2>3. <<>> \in Seq(Nat)
    OBVIOUS
  <2>4. reply' \in [status : Nat, body : Seq(Nat)]
    BY <2>1, <2>3
  <2>2. ~Carries'
    BY <1>1 DEF Carries
  <2> QED BY <2>1, <2>2, <2>4 DEF Start
<1>2. CASE asked.method = "GET" /\ r.status = 200
  <2>1. reply' = r /\ got' = <<>> /\ at' = "send" /\ r.body = Whole
    BY <1>2 DEF Relay, Sound
  <2>2. Start(<<>>)
    BY WholeParts DEF Start
  <2>3. Missing(reply.body)'
    BY <2>1, WholeParts DEF Missing
  <2> QED BY <2>1, <2>2, <2>3 DEF Start
<1>3. CASE asked.method = "GET" /\ r.status = 206
  <2>1. reply' = r /\ got' = got /\ at' = "send" /\ r.body = SubSeq(Whole, Len(got) + 1, Size)
    BY <1>3 DEF Relay, Sound
  <2>2. Len(got) \in Nat /\ Len(got) <= Size
    BY DEF Start
  <2>3. Len(r.body) = Size - Len(got) /\ \A i \in 1 .. Len(r.body) : r.body[i] = Len(got) + i
    BY <2>1, <2>2, WholeParts
  <2>4. Missing(reply.body)'
    BY <2>1, <2>2, <2>3, WholeParts DEF Missing
  <2> QED BY <2>1, <2>4 DEF Start
<1>4. CASE asked.method = "GET" /\ r.status \notin {200, 206}
  <2>1. reply' = r /\ got' = got /\ at' = "send"
    BY <1>4 DEF Relay
  <2>2. ~Carries'
    BY <1>4, <2>1 DEF Carries
  <2> QED BY <2>1, <2>2 DEF Start
<1> QED BY <1>1, <1>2, <1>3, <1>4

LEMMA SendInv == ASSUME PartsInv, Send PROVE PartsInv'
<1> USE DEF PartsInv
<1> DEFINE body == reply.body
<1>0. body \in Seq(Nat) /\ at = "send" /\ ~has /\ UNCHANGED asked
  BY DEF Send
<1>1. CASE body # <<>>
  <2>1. /\ reply' = [reply EXCEPT !.body = Tail(body)] /\ at' = "send" /\ has' = has
        /\ got' = IF Carries THEN Append(got, Head(body)) ELSE got
    BY <1>0, <1>1 DEF Send
  <2>2. /\ Tail(body) \in Seq(Nat) /\ Head(body) \in Nat /\ Len(body) \in Nat \ {0}
        /\ Head(body) = body[1] /\ Len(Tail(body)) = Len(body) - 1
        /\ \A i \in 1 .. Len(Tail(body)) : Tail(body)[i] = body[i + 1]
    BY <1>0, <1>1
  <2>3. /\ reply' \in [status : Nat, body : Seq(Nat)] /\ reply'.body = Tail(body)
        /\ reply'.status = reply.status
    BY <2>1, <2>2
  <2>4. CASE Carries
    <3>1. Len(got) + Len(body) = Size /\ \A i \in 1 .. Len(body) : body[i] = Len(got) + i
      BY <1>0, <2>4 DEF Missing
    <3>5. got \in Seq(Nat) /\ Len(got) \in Nat /\ \A i \in 1 .. Len(got) : got[i] = i
      BY DEF Start
    <3>6. Head(body) = Len(got) + 1 /\ Head(body) \in Nat
      <4>1. 1 \in 1 .. Len(body)
        BY <2>2
      <4> QED BY <4>1, <2>2, <3>1
    <3>7. got' = Append(got, Head(body))
      BY <2>1, <2>4
    <3> HIDE DEF body, PartsInv
    <3>2. /\ got' \in Seq(Nat) /\ Len(got') = Len(got) + 1
          /\ \A i \in 1 .. Len(got) : got'[i] = got[i]
          /\ got'[Len(got) + 1] = Len(got) + 1
      BY <3>5, <3>6, <3>7
    <3>3. Start(got')
      <4>1. Len(got') <= Size
        BY <2>2, <3>1, <3>2, <3>5, WholeParts
      <4>2. \A i \in 1 .. Len(got') : i \in 1 .. Len(got) \/ i = Len(got) + 1
        BY <3>2, <3>5
      <4> QED BY <4>1, <4>2, <3>2, <3>5 DEF Start
    <3>4. Missing(reply.body)'
      <4>1. \A i \in 1 .. Len(Tail(body)) :
              i + 1 \in 1 .. Len(body) /\ Tail(body)[i] = Len(got) + (i + 1)
        BY <2>2, <3>1
      <4>2. \A i \in 1 .. Len(Tail(body)) : Tail(body)[i] = Len(got') + i
        BY <4>1, <3>2, <3>5
      <4>3. Len(got') + Len(Tail(body)) = Size
        BY <2>2, <3>1, <3>2, <3>5
      <4> QED BY <4>2, <4>3, <2>3 DEF Missing
    <3> USE DEF PartsInv
    <3> QED BY <1>0, <2>1, <2>3, <3>2, <3>3, <3>4 DEF Start
  <2>5. CASE ~Carries
    <3>1. ~Carries' /\ got' = got
      BY <1>0, <2>1, <2>3, <2>5 DEF Carries
    <3> QED BY <1>0, <2>1, <2>3, <3>1 DEF Start
  <2> QED BY <2>4, <2>5
<1>2. CASE body = <<>>
  <2>1. at' = "idle" /\ has' = Carries /\ UNCHANGED <<reply, got>>
    BY <1>0, <1>2 DEF Send
  <2>2. Carries => Len(got) = Size
    BY <1>0, <1>2, WholeParts DEF Missing
  <2> QED BY <1>0, <2>1, <2>2 DEF Start
<1> QED BY <1>1, <1>2

LEMMA ProxyInitInv == ProxyInit => PartsInv
<1>1. <<0>> \in Seq(Nat) /\ Len(<<>>) = 0
  OBVIOUS
<1> QED BY <1>1, WholeParts DEF ProxyInit, PartsInv, Start, Error, Response

LEMMA AnswerInv == ASSUME PartsInv, FromAtticd \/ FromGarage \/ Drained PROVE PartsInv'
<1> USE DEF PartsInv
<1>0. ~has /\ UNCHANGED <<asked, has>>
  BY DEF FromAtticd, FromGarage, Drained
<1>1. CASE FromAtticd
  <2>1. CASE at' = "garage" /\ UNCHANGED <<reply, got>>
    BY <1>0, <1>1, <2>1 DEF FromAtticd, Start
  <2>2. CASE \E r \in Serve(asked.from) \cup {Error(404), Error(500), Error(307)} : Relay(r, "atticd")
    <3>1. PICK r \in Serve(asked.from) \cup {Error(404), Error(500), Error(307)} : Relay(r, "atticd")
      BY <2>2
    <3>2. Sound(r, asked.from)
      BY ServeSound, ErrorSound
    <3>3. r \in [status : Nat, body : Seq(Nat)]
      BY <3>2 DEF Sound
    <3>4. asked.method = "GET" => asked.from = Len(got)
      BY <1>1 DEF FromAtticd
    <3> HIDE DEF PartsInv
    <3> QED BY <1>0, <3>1, <3>2, <3>3, <3>4, RelayInv
  <2> QED BY <1>1, <2>1, <2>2 DEF FromAtticd
<1>2. CASE FromGarage
  <2>1. CASE Relay(Error(502), "none")
    <3>1. Sound(Error(502), asked.from)
      BY ErrorSound
    <3>2. Error(502) \in [status : Nat, body : Seq(Nat)]
      BY <3>1 DEF Sound
    <3>3. asked.method = "GET" => asked.from = Len(got)
      BY <1>2 DEF FromGarage
    <3> HIDE DEF PartsInv
    <3> QED BY <1>0, <2>1, <3>1, <3>2, <3>3, RelayInv
  <2>2. CASE \E s \in Serve(0) \cup {Error(403), Error(404)} :
               IF asked.method = "HEAD"
                 THEN at' = "drain" /\ reply' = Followed(s) /\ open' = "garage" /\ UNCHANGED got
                 ELSE Relay(Followed(s), "garage")
    <3>1. PICK s \in Serve(0) \cup {Error(403), Error(404)} :
               IF asked.method = "HEAD"
                 THEN at' = "drain" /\ reply' = s /\ open' = "garage" /\ UNCHANGED got
                 ELSE Relay(s, "garage")
      BY <2>2 DEF Followed
    <3>3. s \in {Response(200, Whole), Error(403), Error(404)}
      BY <3>1 DEF Serve
    <3>2. Sound(s, asked.from)
      <4>1. Response(200, Whole) \in Serve(asked.from)
        BY DEF Serve
      <4>2. asked.from \in Nat
        OBVIOUS
      <4> HIDE DEF PartsInv
      <4> QED BY <4>1, <4>2, <3>3, ServeSound, ErrorSound
    <3>4. CASE asked.method = "HEAD"
      BY <1>0, <3>1, <3>2, <3>4 DEF Sound, Start
    <3>5. CASE asked.method = "GET"
      <4>1. Relay(s, "garage")
        BY <3>1, <3>5
      <4>2. s \in [status : Nat, body : Seq(Nat)]
        BY <3>2 DEF Sound
      <4>3. asked.from = Len(got)
        BY <1>2, <3>5 DEF FromGarage
      <4> HIDE DEF PartsInv
      <4> QED BY <1>0, <3>2, <4>1, <4>2, <4>3, RelayInv
    <3> QED BY <3>4, <3>5
  <2> QED BY <1>2, <2>1, <2>2 DEF FromGarage
<1>3. CASE Drained
  <2>1. asked.method # "GET" /\ Relay(reply, "none")
    BY <1>3 DEF Drained
  <2> QED BY <1>0, <2>1, RelayInv
<1> QED BY <1>1, <1>2, <1>3

LEMMA ClientInv == ASSUME PartsInv, Ask \/ Break \/ HangUp \/ Cancel PROVE PartsInv'
<1> USE DEF PartsInv, Start
<1>1. CASE Ask
  BY <1>1 DEF Ask
<1>2. CASE Break
  BY <1>2 DEF Break
<1>3. CASE HangUp
  BY <1>3 DEF HangUp, Carries, Missing
<1>4. CASE Cancel
  BY <1>4 DEF Cancel
<1> QED BY <1>1, <1>2, <1>3, <1>4

\* PartsInv is inductive.
THEOREM PartsInvariant == ProxySpec => []PartsInv
<1>1. PartsInv /\ [ProxyNext]_proxyVars => PartsInv'
  <2> SUFFICES ASSUME PartsInv, [ProxyNext]_proxyVars PROVE PartsInv'
    OBVIOUS
  <2>1. CASE UNCHANGED proxyVars
    BY <2>1 DEF proxyVars, PartsInv, Start, Carries, Missing
  <2> QED BY <2>1, AnswerInv, SendInv, ClientInv DEF ProxyNext
<1> QED BY <1>1, ProxyInitInv, PTL DEF ProxySpec

\* What a client puts together from any mix of direct, redirected, resumed and
\* broken answers is the object, once it takes it for complete.
THEOREM AssembledIsWholeCorrect == ProxySpec => []AssembledIsWhole
<1>1. PartsInv => AssembledIsWhole
  <2> SUFFICES ASSUME PartsInv, has PROVE got = Whole
    BY DEF AssembledIsWhole
  <2>1. got \in Seq(Nat) /\ Len(got) = Size /\ \A i \in 1 .. Size : got[i] = i
    BY DEF PartsInv, Start
  <2> QED BY <2>1, WholeParts
<1> QED BY <1>1, PartsInvariant, PTL

=============================================================================
