-------------------------- MODULE Sanitizer_proofs --------------------------
(***************************************************************************)
(* What the masking rules make of a line, proved for every line.  Subn and *)
(* mask_counted recurse over data: that they are what their equations say  *)
(* is shown by induction (SubnIs, MaskCountedIs), for which it is enough   *)
(* that a set of numbers has a least element.  SubnIsLaid says what one    *)
(* rule makes of a line, the Pass lemmas what that preserves, FirstPass    *)
(* and SecondPass what the thirteen do in their order.                     *)
(***************************************************************************)
EXTENDS Sanitizer, OrderTheorems, SequenceTheorems

-----------------------------------------------------------------------------
(* Atoms, rules and their replacements. *)

Contextual == {"url_creds", "http_auth", "bearer_token", "env_secret"}

CloseOf(class) == [kind |-> "close", class |-> class]

(* The thirteen classes; four rules look at what stands around a value. *)
LEMMA ClassesAre ==
  Classes = Contextual \cup {"github_token", "private_key", "jwt", "aws_key_id", "slack_token",
                             "stripe_key", "npm_token", "pypi_token", "google_api_key"}
  <1>1. DOMAIN Rules = 1..13
    BY DEF Rules
  <1>2. Classes = {Rules[k] : k \in 1..13}
    BY <1>1 DEF Classes
  <1>3. QED BY <1>2 DEF Rules, Contextual

(* Each class has one rule, and where the rules that look around stand in    *)
(* their order.                                                              *)
LEMMA RulesAre ==
  /\ Len(Rules) = 13 /\ DOMAIN Rules = 1..13 /\ \A k \in 1..13 : Rules[k] \in Classes
  /\ \A k, m \in 1..13 : Rules[k] = Rules[m] => k = m
  /\ \A class \in Classes : \E k \in 1..13 : Rules[k] = class
  /\ Rules[1] = "github_token" /\ Rules[2] = "private_key" /\ Rules[3] = "url_creds"
  /\ Rules[4] = "http_auth" /\ Rules[5] = "bearer_token" /\ Rules[13] = "env_secret"
  /\ \A k \in 1..13 : Rules[k] \in Contextual => k \in {3, 4, 5, 13}
  <1>1. DOMAIN Rules = 1..13 /\ Len(Rules) = 13
    BY DEF Rules
  <1>2. Classes = {Rules[k] : k \in 1..13}
    BY <1>1 DEF Classes
  <1>3. \A k, m \in 1..13 : Rules[k] = Rules[m] => k = m
    BY DEF Rules
  <1>4. QED BY <1>1, <1>2, <1>3 DEF Rules, Contextual

(* An atom is told by its kind, and by its class if it is of a class. *)
LEMMA AtomsAre ==
  /\ \A kind \in Plain : The(kind) \in Atom /\ The(kind).kind = kind
  /\ \A class \in Classes : CloseOf(class) \in Atom /\ Secret(class) \in Atom
  /\ \A class : CloseOf(class).kind = "close" /\ CloseOf(class).class = class
  /\ \A class : Secret(class).kind = "secret" /\ Secret(class).class = class
  /\ \A a \in Atom : a.kind \in Plain \cup {"secret", "close"}
  /\ \A a \in Atom : a.kind = "secret" => a.class \in Classes /\ a = Secret(a.class)
  /\ \A a \in Atom : a.kind = "close" => a.class \in Classes /\ a = CloseOf(a.class)
  <1>1. \A a \in Atom : \/ a.kind \in Plain /\ a.class = "none"
                        \/ a.kind \in {"secret", "close"} /\ a.class \in Classes
    BY DEF Atom
  <1>2. \A a \in Atom : a = [kind |-> a.kind, class |-> a.class]
    BY DEF Atom
  <1>3. "secret" \notin Plain /\ "close" \notin Plain
    BY DEF Plain
  <1>4. \A kind \in Plain : The(kind) \in Atom /\ The(kind).kind = kind
    BY DEF Atom, The
  <1>5. \A class \in Classes : CloseOf(class) \in Atom /\ Secret(class) \in Atom
    BY DEF Atom, CloseOf, Secret
  <1>6. \A class : CloseOf(class).kind = "close" /\ CloseOf(class).class = class
    BY DEF CloseOf
  <1>7. \A class : Secret(class).kind = "secret" /\ Secret(class).class = class
    BY DEF Secret
  <1>8. \A a \in Atom : a.kind = "secret" => a.class \in Classes /\ a = Secret(a.class)
    BY <1>1, <1>2, <1>3 DEF Secret
  <1>9. \A a \in Atom : a.kind = "close" => a.class \in Classes /\ a = CloseOf(a.class)
    BY <1>1, <1>2, <1>3 DEF CloseOf
  <1>10. QED BY <1>1, <1>4, <1>5, <1>6, <1>7, <1>8, <1>9

(* Two sequences put together. *)
LEMMA Together ==
  ASSUME NEW S, NEW u \in Seq(S), NEW v \in Seq(S), NEW w \in Seq(S), Len(w) = Len(u) + Len(v),
         \A i \in 1..Len(u) : w[i] = u[i], \A i \in 1..Len(v) : w[Len(u) + i] = v[i]
  PROVE  u \o v = w
  <1>1. u \o v \in Seq(S) /\ Len(u \o v) = Len(u) + Len(v)
    BY ConcatProperties
  <1>2. \A i \in 1..Len(u) + Len(v) : (u \o v)[i] = IF i <= Len(u) THEN u[i] ELSE v[i - Len(u)]
    BY ConcatProperties
  <1>3. ASSUME NEW i \in 1..Len(w) PROVE (u \o v)[i] = w[i]
    <2>1. CASE i <= Len(u)
      BY <1>2, <2>1
    <2>2. CASE i > Len(u)
      <3>1. i - Len(u) \in 1..Len(v) /\ Len(u) + (i - Len(u)) = i
        BY <2>2
      <3>2. QED BY <1>2, <2>2, <3>1
    <2>3. QED BY <2>1, <2>2
  <1>4. QED BY <1>1, <1>3, SeqEqual

(* A token behind what a rule leaves standing. *)
LEMMA TokenIn ==
  /\ \A a, b, c, d : <<a>> \o <<b, c, d>> = <<a, b, c, d>>
  /\ \A a1, a2, b, c, d : <<a1, a2>> \o <<b, c, d>> = <<a1, a2, b, c, d>>
  /\ \A a1, a2, a3, b, c, d : <<a1, a2, a3>> \o <<b, c, d>> = <<a1, a2, a3, b, c, d>>
  /\ \A a, b, c, d, e : <<a, b, c, d>> \o <<e>> = <<a, b, c, d, e>>
  <1>1. ASSUME NEW a, NEW b, NEW c, NEW d
        PROVE  <<a>> \o <<b, c, d>> = <<a, b, c, d>>
    <2> DEFINE S == {a, b, c, d}
               u == <<a>>
               v == <<b, c, d>>
               w == <<a, b, c, d>>
    <2>1. u \in Seq(S) /\ Len(u) = 1 /\ u[1] = a
      OBVIOUS
    <2>2. v \in Seq(S) /\ Len(v) = 3 /\ v[1] = b /\ v[2] = c /\ v[3] = d
      OBVIOUS
    <2>3. w \in Seq(S) /\ Len(w) = 4 /\ w[1] = a /\ w[2] = b /\ w[3] = c /\ w[4] = d
      OBVIOUS
    <2> HIDE DEF S, u, v, w
    <2>4. Len(w) = Len(u) + Len(v)
      BY <2>1, <2>2, <2>3
    <2>5. (\A i \in 1..Len(u) : w[i] = u[i]) /\ (\A i \in 1..Len(v) : w[Len(u) + i] = v[i])
      BY <2>1, <2>2, <2>3
    <2>6. u \o v = w
      BY <2>1, <2>2, <2>3, <2>4, <2>5, Together
    <2>7. QED BY <2>6 DEF u, v, w
  <1>2. ASSUME NEW a1, NEW a2, NEW b, NEW c, NEW d
        PROVE  <<a1, a2>> \o <<b, c, d>> = <<a1, a2, b, c, d>>
    <2> DEFINE S == {a1, a2, b, c, d}
               u == <<a1, a2>>
               v == <<b, c, d>>
               w == <<a1, a2, b, c, d>>
    <2>1. u \in Seq(S) /\ Len(u) = 2 /\ u[1] = a1 /\ u[2] = a2
      OBVIOUS
    <2>2. v \in Seq(S) /\ Len(v) = 3 /\ v[1] = b /\ v[2] = c /\ v[3] = d
      OBVIOUS
    <2>3. w \in Seq(S) /\ Len(w) = 5 /\ w[1] = a1 /\ w[2] = a2 /\ w[3] = b /\ w[4] = c /\ w[5] = d
      OBVIOUS
    <2> HIDE DEF S, u, v, w
    <2>4. Len(w) = Len(u) + Len(v)
      BY <2>1, <2>2, <2>3
    <2>5. (\A i \in 1..Len(u) : w[i] = u[i]) /\ (\A i \in 1..Len(v) : w[Len(u) + i] = v[i])
      BY <2>1, <2>2, <2>3
    <2>6. u \o v = w
      BY <2>1, <2>2, <2>3, <2>4, <2>5, Together
    <2>7. QED BY <2>6 DEF u, v, w
  <1>3. ASSUME NEW a1, NEW a2, NEW a3, NEW b, NEW c, NEW d
        PROVE  <<a1, a2, a3>> \o <<b, c, d>> = <<a1, a2, a3, b, c, d>>
    <2> DEFINE S == {a1, a2, a3, b, c, d}
               u == <<a1, a2, a3>>
               v == <<b, c, d>>
               w == <<a1, a2, a3, b, c, d>>
    <2>1. u \in Seq(S) /\ Len(u) = 3 /\ u[1] = a1 /\ u[2] = a2 /\ u[3] = a3
      OBVIOUS
    <2>2. v \in Seq(S) /\ Len(v) = 3 /\ v[1] = b /\ v[2] = c /\ v[3] = d
      OBVIOUS
    <2>3. w \in Seq(S) /\ Len(w) = 6 /\ w[1] = a1 /\ w[2] = a2 /\ w[3] = a3 /\ w[4] = b /\ w[5] = c /\ w[6] = d
      OBVIOUS
    <2> HIDE DEF S, u, v, w
    <2>4. Len(w) = Len(u) + Len(v)
      BY <2>1, <2>2, <2>3
    <2>5. (\A i \in 1..Len(u) : w[i] = u[i]) /\ (\A i \in 1..Len(v) : w[Len(u) + i] = v[i])
      BY <2>1, <2>2, <2>3
    <2>6. u \o v = w
      BY <2>1, <2>2, <2>3, <2>4, <2>5, Together
    <2>7. QED BY <2>6 DEF u, v, w
  <1>4. ASSUME NEW a, NEW b, NEW c, NEW d, NEW e
        PROVE  <<a, b, c, d>> \o <<e>> = <<a, b, c, d, e>>
    <2> DEFINE S == {a, e, b, c, d}
               u == <<a, b, c, d>>
               v == <<e>>
               w == <<a, b, c, d, e>>
    <2>1. u \in Seq(S) /\ Len(u) = 4 /\ u[1] = a /\ u[2] = b /\ u[3] = c /\ u[4] = d
      OBVIOUS
    <2>2. v \in Seq(S) /\ Len(v) = 1 /\ v[1] = e
      OBVIOUS
    <2>3. w \in Seq(S) /\ Len(w) = 5 /\ w[1] = a /\ w[2] = b /\ w[3] = c /\ w[4] = d /\ w[5] = e
      OBVIOUS
    <2> HIDE DEF S, u, v, w
    <2>4. Len(w) = Len(u) + Len(v)
      BY <2>1, <2>2, <2>3
    <2>5. (\A i \in 1..Len(u) : w[i] = u[i]) /\ (\A i \in 1..Len(v) : w[Len(u) + i] = v[i])
      BY <2>1, <2>2, <2>3
    <2>6. u \o v = w
      BY <2>1, <2>2, <2>3, <2>4, <2>5, Together
    <2>7. QED BY <2>6 DEF u, v, w
  <1>5. QED BY <1>1, <1>2, <1>3, <1>4

(* The replacements, atom by atom.  Each ends in a token, but for "@". *)
LEMMA ReplacementsAre ==
  ASSUME NEW class \in Classes
  PROVE  /\ Replacement(class) \in Seq(Atom)
         /\ class = "url_creds" =>
              Replacement(class) = <<The("://"), The("open"), The("colon"), CloseOf(class), The("at")>>
         /\ class = "http_auth" =>
              Replacement(class) = <<The("authorization"), The("colon"), The("space"),
                                     The("open"), The("colon"), CloseOf(class)>>
         /\ class = "bearer_token" =>
              Replacement(class) = <<The("bearer"), The("space"), The("open"), The("colon"), CloseOf(class)>>
         /\ class = "env_secret" =>
              Replacement(class) = <<The("name"), The("open"), The("colon"), CloseOf(class)>>
         /\ class \notin Contextual =>
              Replacement(class) = <<The("open"), The("colon"), CloseOf(class)>>
  <1> DEFINE o == The("open")
             c == The("colon")
             d == CloseOf(class)
             url == The("://")
             at == The("at")
             auth == The("authorization")
             sp == The("space")
             be == The("bearer")
             nm == The("name")
  <1>1. Token(class) = <<o, c, d>>
    BY DEF Token, CloseOf
  <1>2. /\ o \in Atom /\ c \in Atom /\ d \in Atom /\ url \in Atom /\ at \in Atom
        /\ auth \in Atom /\ sp \in Atom /\ be \in Atom /\ nm \in Atom
    <2>1. {"://", "open", "colon", "at", "authorization", "space", "bearer", "name"} \subseteq Plain
      BY DEF Plain
    <2>2. QED BY <2>1, AtomsAre
  <1>3. /\ class = "url_creds" => Replacement(class) = (<<url>> \o Token(class)) \o <<at>>
        /\ class = "http_auth" => Replacement(class) = <<auth, c, sp>> \o Token(class)
        /\ class = "bearer_token" => Replacement(class) = <<be, sp>> \o Token(class)
        /\ class = "env_secret" => Replacement(class) = <<nm>> \o Token(class)
        /\ class \notin Contextual => Replacement(class) = Token(class)
    BY DEF Replacement, Contextual
  <1> HIDE DEF o, c, d, url, at, auth, sp, be, nm
  <1>4. /\ <<url>> \o <<o, c, d>> = <<url, o, c, d>>
        /\ <<url, o, c, d>> \o <<at>> = <<url, o, c, d, at>>
        /\ <<nm>> \o <<o, c, d>> = <<nm, o, c, d>>
    <2>1. <<url>> \o <<o, c, d>> = <<url, o, c, d>>
      BY TokenIn
    <2>2. <<url, o, c, d>> \o <<at>> = <<url, o, c, d, at>>
      BY TokenIn
    <2>3. <<nm>> \o <<o, c, d>> = <<nm, o, c, d>>
      BY TokenIn
    <2>4. QED BY <2>1, <2>2, <2>3
  <1>5. <<be, sp>> \o <<o, c, d>> = <<be, sp, o, c, d>>
    BY TokenIn
  <1>6. <<auth, c, sp>> \o <<o, c, d>> = <<auth, c, sp, o, c, d>>
    BY TokenIn
  <1>7. /\ class = "url_creds" => Replacement(class) = <<url, o, c, d, at>>
        /\ class = "http_auth" => Replacement(class) = <<auth, c, sp, o, c, d>>
        /\ class = "bearer_token" => Replacement(class) = <<be, sp, o, c, d>>
        /\ class = "env_secret" => Replacement(class) = <<nm, o, c, d>>
        /\ class \notin Contextual => Replacement(class) = <<o, c, d>>
    <2>1. CASE class = "url_creds"
      BY <1>1, <1>3, <1>4, <2>1 DEF Contextual
    <2>2. CASE class = "http_auth"
      BY <1>1, <1>3, <1>6, <2>2 DEF Contextual
    <2>3. CASE class = "bearer_token"
      BY <1>1, <1>3, <1>5, <2>3 DEF Contextual
    <2>4. CASE class = "env_secret"
      BY <1>1, <1>3, <1>4, <2>4 DEF Contextual
    <2>5. CASE class \notin Contextual
      BY <1>1, <1>3, <2>5 DEF Contextual
    <2>6. QED BY <2>1, <2>2, <2>3, <2>4, <2>5 DEF Contextual
  <1>8. /\ <<url, o, c, d, at>> \in Seq(Atom) /\ <<auth, c, sp, o, c, d>> \in Seq(Atom)
        /\ <<be, sp, o, c, d>> \in Seq(Atom) /\ <<nm, o, c, d>> \in Seq(Atom)
        /\ <<o, c, d>> \in Seq(Atom)
    BY <1>2
  <1>9. Replacement(class) \in Seq(Atom)
    BY <1>7, <1>8 DEF Contextual
  <1>10. QED BY <1>7, <1>9 DEF o, c, d, url, at, auth, sp, be, nm

(* How many atoms stand before the token. *)
Lead(class) ==
  CASE class = "url_creds"    -> 1
    [] class = "http_auth"    -> 3
    [] class = "bearer_token" -> 2
    [] class = "env_secret"   -> 1
    [] OTHER                  -> 0

(* A replacement is what the rule leaves standing, its token, and "@" for a *)
(* URL.                                                                     *)
LEMMA ReplacementIs ==
  ASSUME NEW class \in Classes, NEW R, R = Replacement(class)
  PROVE  /\ R \in Seq(Atom)
         /\ Lead(class) \in 0..3
         /\ class = "url_creds" => Len(R) = Lead(class) + 4
         /\ class # "url_creds" => Len(R) = Lead(class) + 3
         /\ R[Lead(class) + 1] = The("open") /\ R[Lead(class) + 2] = The("colon")
         /\ R[Lead(class) + 3] = CloseOf(class)
         /\ class = "url_creds" => R[1] = The("://") /\ R[5] = The("at") /\ Lead(class) = 1
         /\ class = "http_auth" =>
              R[1] = The("authorization") /\ R[2] = The("colon") /\ R[3] = The("space") /\ Lead(class) = 3
         /\ class = "bearer_token" => R[1] = The("bearer") /\ R[2] = The("space") /\ Lead(class) = 2
         /\ class = "env_secret" => R[1] = The("name") /\ Lead(class) = 1
         /\ class \notin Contextual => Lead(class) = 0
  <1> DEFINE o == The("open")
             c == The("colon")
             d == CloseOf(class)
             url == The("://")
             at == The("at")
             auth == The("authorization")
             sp == The("space")
             be == The("bearer")
             nm == The("name")
  <1>1. R \in Seq(Atom)
    BY ReplacementsAre
  <1>2. CASE class = "url_creds"
    <2>1. R = <<url, o, c, d, at>> /\ Lead(class) = 1
      BY <1>2, ReplacementsAre DEF Lead
    <2> HIDE DEF o, c, d, url, at, auth, sp, be, nm
    <2>2. Len(R) = 5 /\ R[1] = url /\ R[2] = o /\ R[3] = c /\ R[4] = d /\ R[5] = at
      BY <2>1
    <2>3. /\ R[Lead(class) + 1] = o /\ R[Lead(class) + 2] = c /\ R[Lead(class) + 3] = d
          /\ Lead(class) \in 0..3 /\ Len(R) = 5
      BY <2>1, <2>2
    <2>4. /\ R[Lead(class) + 1] = The("open") /\ R[Lead(class) + 2] = The("colon")
          /\ R[Lead(class) + 3] = CloseOf(class)
      BY <2>3 DEF o, c, d
    <2>5. Lead(class) = 1
      BY <2>1
    <2>6. Len(R) = Lead(class) + 4
      BY <2>2, <2>3, <2>5
    <2>7. R[1] = The("://") /\ R[5] = The("at")
      BY <2>2 DEF url, at
    <2>8. class \in Contextual
      BY <1>2 DEF Contextual
    <2>9. class # "http_auth" /\ class # "bearer_token" /\ class # "env_secret"
      BY <1>2
    <2>10. Lead(class) \in 0..3
      BY <2>5
    <2>11. QED BY <1>1, <1>2, <2>4, <2>5, <2>6, <2>7, <2>8, <2>9, <2>10, Zenon
  <1>3. CASE class = "http_auth"
    <2>1. R = <<auth, c, sp, o, c, d>> /\ Lead(class) = 3
      BY <1>3, ReplacementsAre DEF Lead
    <2> HIDE DEF o, c, d, url, at, auth, sp, be, nm
    <2>2. Len(R) = 6 /\ R[1] = auth /\ R[2] = c /\ R[3] = sp /\ R[4] = o /\ R[5] = c /\ R[6] = d
      BY <2>1
    <2>3. /\ R[Lead(class) + 1] = o /\ R[Lead(class) + 2] = c /\ R[Lead(class) + 3] = d
          /\ Lead(class) \in 0..3 /\ Len(R) = 6
      BY <2>1, <2>2
    <2>4. /\ R[Lead(class) + 1] = The("open") /\ R[Lead(class) + 2] = The("colon")
          /\ R[Lead(class) + 3] = CloseOf(class)
      BY <2>3 DEF o, c, d
    <2>5. Lead(class) = 3
      BY <2>1
    <2>6. Len(R) = Lead(class) + 3
      BY <2>2, <2>3, <2>5
    <2>7. R[1] = The("authorization") /\ R[2] = The("colon") /\ R[3] = The("space")
      BY <2>2 DEF auth, c, sp
    <2>8. class \in Contextual
      BY <1>3 DEF Contextual
    <2>9. class # "url_creds" /\ class # "bearer_token" /\ class # "env_secret"
      BY <1>3
    <2>10. Lead(class) \in 0..3
      BY <2>5
    <2>11. QED BY <1>1, <1>3, <2>4, <2>5, <2>6, <2>7, <2>8, <2>9, <2>10, Zenon
  <1>4. CASE class = "bearer_token"
    <2>1. R = <<be, sp, o, c, d>> /\ Lead(class) = 2
      BY <1>4, ReplacementsAre DEF Lead
    <2> HIDE DEF o, c, d, url, at, auth, sp, be, nm
    <2>2. Len(R) = 5 /\ R[1] = be /\ R[2] = sp /\ R[3] = o /\ R[4] = c /\ R[5] = d
      BY <2>1
    <2>3. /\ R[Lead(class) + 1] = o /\ R[Lead(class) + 2] = c /\ R[Lead(class) + 3] = d
          /\ Lead(class) \in 0..3 /\ Len(R) = 5
      BY <2>1, <2>2
    <2>4. /\ R[Lead(class) + 1] = The("open") /\ R[Lead(class) + 2] = The("colon")
          /\ R[Lead(class) + 3] = CloseOf(class)
      BY <2>3 DEF o, c, d
    <2>5. Lead(class) = 2
      BY <2>1
    <2>6. Len(R) = Lead(class) + 3
      BY <2>2, <2>3, <2>5
    <2>7. R[1] = The("bearer") /\ R[2] = The("space")
      BY <2>2 DEF be, sp
    <2>8. class \in Contextual
      BY <1>4 DEF Contextual
    <2>9. class # "url_creds" /\ class # "http_auth" /\ class # "env_secret"
      BY <1>4
    <2>10. Lead(class) \in 0..3
      BY <2>5
    <2>11. QED BY <1>1, <1>4, <2>4, <2>5, <2>6, <2>7, <2>8, <2>9, <2>10, Zenon
  <1>5. CASE class = "env_secret"
    <2>1. R = <<nm, o, c, d>> /\ Lead(class) = 1
      BY <1>5, ReplacementsAre DEF Lead
    <2> HIDE DEF o, c, d, url, at, auth, sp, be, nm
    <2>2. Len(R) = 4 /\ R[1] = nm /\ R[2] = o /\ R[3] = c /\ R[4] = d
      BY <2>1
    <2>3. /\ R[Lead(class) + 1] = o /\ R[Lead(class) + 2] = c /\ R[Lead(class) + 3] = d
          /\ Lead(class) \in 0..3 /\ Len(R) = 4
      BY <2>1, <2>2
    <2>4. /\ R[Lead(class) + 1] = The("open") /\ R[Lead(class) + 2] = The("colon")
          /\ R[Lead(class) + 3] = CloseOf(class)
      BY <2>3 DEF o, c, d
    <2>5. Lead(class) = 1
      BY <2>1
    <2>6. Len(R) = Lead(class) + 3
      BY <2>2, <2>3, <2>5
    <2>7. R[1] = The("name")
      BY <2>2 DEF nm
    <2>8. class \in Contextual
      BY <1>5 DEF Contextual
    <2>9. class # "url_creds" /\ class # "http_auth" /\ class # "bearer_token"
      BY <1>5
    <2>10. Lead(class) \in 0..3
      BY <2>5
    <2>11. QED BY <1>1, <1>5, <2>4, <2>5, <2>6, <2>7, <2>8, <2>9, <2>10, Zenon
  <1>6. CASE class \notin Contextual
    <2>1. R = <<o, c, d>> /\ Lead(class) = 0
      BY <1>6, ReplacementsAre DEF Lead, Contextual
    <2> HIDE DEF o, c, d, url, at, auth, sp, be, nm
    <2>2. Len(R) = 3 /\ R[1] = o /\ R[2] = c /\ R[3] = d
      BY <2>1
    <2>3. /\ R[Lead(class) + 1] = o /\ R[Lead(class) + 2] = c /\ R[Lead(class) + 3] = d
          /\ Lead(class) \in 0..3 /\ Len(R) = 3
      BY <2>1, <2>2
    <2>4. /\ R[Lead(class) + 1] = The("open") /\ R[Lead(class) + 2] = The("colon")
          /\ R[Lead(class) + 3] = CloseOf(class)
      BY <2>3 DEF o, c, d
    <2>5. Lead(class) = 0
      BY <2>1
    <2>6. QED BY <1>1, <1>6, <2>2, <2>3, <2>4, <2>5 DEF o, c, d, Contextual
  <1>7. QED BY <1>2, <1>3, <1>4, <1>5, <1>6 DEF Contextual

-----------------------------------------------------------------------------
(* Where a match begins and ends. *)

Fires(class, t, s) == Ends(class, t, s) # {}

EndOf(class, t, s) == CHOOSE e \in Ends(class, t, s) : TRUE

(* The atom at which the scan goes on after s, and what it writes for s.    *)
NextOf(class, t, s) == IF Fires(class, t, s) THEN EndOf(class, t, s) + 1 ELSE s + 1

Piece(class, t, s) == IF Fires(class, t, s) THEN Replacement(class) ELSE <<t[s]>>

(* A match is within the line. *)
LEMMA EndsAreAhead ==
  ASSUME NEW class \in Classes, NEW t \in Seq(Atom), NEW s \in 1..Len(t)
  PROVE  Ends(class, t, s) \subseteq s..Len(t)
  <1>0. \A v \in Nat : \A kinds : Run(t, v, kinds) \subseteq v..Len(t)
    BY DEF Run
  <1>1. \A n : AfterSpace(t, n) = n \/ AfterSpace(t, n) = n + 1
    BY DEF AfterSpace
  <1>2. CASE class = "url_creds"
    BY <1>2 DEF Ends, UrlCreds
  <1>3. CASE class = "http_auth"
    <2> DEFINE c == AfterSpace(t, s + 1)
               w == AfterSpace(t, c + 1)
    <2>1. HttpAuth(t, s) \subseteq Run(t, w + 2, NonSpace)
      BY DEF HttpAuth
    <2>2. c \in Nat /\ w \in Nat /\ w > s
      BY <1>1
    <2> HIDE DEF w, c
    <2>3. Run(t, w + 2, NonSpace) \subseteq s..Len(t)
      BY <1>0, <2>2
    <2>4. QED BY <1>3, <2>1, <2>3 DEF Ends
  <1>4. CASE class = "bearer_token"
    <2>1. Bearer(t, s) \subseteq Run(t, s + 2, Words \cup {"name"})
      BY DEF Bearer
    <2>2. Run(t, s + 2, Words \cup {"name"}) \subseteq s..Len(t)
      BY <1>0
    <2>3. QED BY <1>4, <2>1, <2>2 DEF Ends
  <1>5. CASE class = "env_secret"
    <2>1. EnvSecret(t, s) \subseteq Run(t, s + 1, Value)
      BY DEF EnvSecret
    <2>2. Run(t, s + 1, Value) \subseteq s..Len(t)
      BY <1>0
    <2>3. QED BY <1>5, <2>1, <2>2 DEF Ends
  <1>6. CASE class \notin Contextual
    BY <1>6 DEF Ends, Contextual
  <1>7. QED BY <1>2, <1>3, <1>4, <1>5, <1>6 DEF Contextual

(* The scan moves on, and a match ends within the line. *)
LEMMA NextIs ==
  ASSUME NEW class \in Classes, NEW t \in Seq(Atom), NEW s \in 1..Len(t)
  PROVE  /\ NextOf(class, t, s) \in s + 1..Len(t) + 1
         /\ Fires(class, t, s) =>
              /\ EndOf(class, t, s) \in Ends(class, t, s)
              /\ EndOf(class, t, s) \in s..Len(t)
  BY EndsAreAhead DEF NextOf, Fires, EndOf

(* The scan writes something at each stop. *)
LEMMA PieceIs ==
  ASSUME NEW class \in Classes, NEW t \in Seq(Atom), NEW s \in 1..Len(t)
  PROVE  Piece(class, t, s) \in Seq(Atom) /\ Len(Piece(class, t, s)) >= 1
  <1>1. Replacement(class) \in Seq(Atom) /\ Len(Replacement(class)) >= 1
    BY ReplacementIs
  <1>2. t[s] \in Atom
    OBVIOUS
  <1>3. <<t[s]>> \in Seq(Atom) /\ Len(<<t[s]>>) = 1
    BY <1>2
  <1>4. QED BY <1>1, <1>3 DEF Piece

-----------------------------------------------------------------------------
(* What Subn computes. *)

Masked == [text : Seq(Atom), n : Nat]

One(class, t, s) == IF Fires(class, t, s) THEN 1 ELSE 0

(* What the scan makes of the line from s on, for every s from x on.        *)
Scan(class, t, x, f) ==
  /\ f \in [x..Len(t) + 1 -> Masked]
  /\ f[Len(t) + 1] = [text |-> << >>, n |-> 0]
  /\ \A s \in x..Len(t) :
       f[s] = [text |-> Piece(class, t, s) \o f[NextOf(class, t, s)].text,
               n    |-> f[NextOf(class, t, s)].n + One(class, t, s)]

(* A scan of the rest of a line is one of what begins an atom earlier. *)
LEMMA ScanStep ==
  ASSUME NEW class \in Classes, NEW t \in Seq(Atom), NEW x \in 1..Len(t),
         NEW f, Scan(class, t, x + 1, f)
  PROVE  \E g : Scan(class, t, x, g)
  <1> DEFINE y == NextOf(class, t, x)
             v == [text |-> Piece(class, t, x) \o f[y].text, n |-> f[y].n + One(class, t, x)]
             g == [s \in x..Len(t) + 1 |-> IF s = x THEN v ELSE f[s]]
  <1>1. y \in x + 1..Len(t) + 1
    BY NextIs
  <1>2. f[y] \in Masked
    BY <1>1 DEF Scan
  <1>3. v \in Masked
    <2>1. Piece(class, t, x) \o f[y].text \in Seq(Atom)
      BY <1>2, PieceIs, ConcatProperties DEF Masked
    <2>2. f[y].n + One(class, t, x) \in Nat
      BY <1>2 DEF Masked, One
    <2>3. QED BY <2>1, <2>2 DEF Masked
  <1>4. g \in [x..Len(t) + 1 -> Masked]
    <2>1. \A s \in x + 1..Len(t) + 1 : f[s] \in Masked
      BY DEF Scan
    <2> HIDE DEF v, y
    <2>2. \A s \in x..Len(t) + 1 : s # x => s \in x + 1..Len(t) + 1
      OBVIOUS
    <2>3. QED BY <1>3, <2>1, <2>2
  <1>5. \A s \in x + 1..Len(t) + 1 : g[s] = f[s]
    OBVIOUS
  <1>6. g[x] = v
    OBVIOUS
  <1> HIDE DEF g
  <1>7. g[Len(t) + 1] = [text |-> << >>, n |-> 0]
    BY <1>5 DEF Scan
  <1>8. ASSUME NEW s \in x..Len(t)
        PROVE  g[s] = [text |-> Piece(class, t, s) \o g[NextOf(class, t, s)].text,
                       n    |-> g[NextOf(class, t, s)].n + One(class, t, s)]
    <2>1. NextOf(class, t, s) \in x + 1..Len(t) + 1
      BY NextIs
    <2>2. g[NextOf(class, t, s)] = f[NextOf(class, t, s)]
      BY <1>5, <2>1
    <2>3. CASE s = x
      BY <1>6, <2>2, <2>3
    <2>4. CASE s # x
      <3>1. s \in x + 1..Len(t) /\ s \in x + 1..Len(t) + 1
        BY <2>4
      <3>2. f[s] = [text |-> Piece(class, t, s) \o f[NextOf(class, t, s)].text,
                    n    |-> f[NextOf(class, t, s)].n + One(class, t, s)]
        BY <3>1 DEF Scan
      <3>3. QED BY <1>5, <2>2, <3>1, <3>2
    <2>5. QED BY <2>3, <2>4
  <1>9. QED BY <1>4, <1>7, <1>8 DEF Scan

(* The equations of Subn have a solution: by induction from the end of the   *)
(* line.                                                                     *)
LEMMA ScanExists ==
  ASSUME NEW class \in Classes, NEW t \in Seq(Atom)
  PROVE  \E f : Scan(class, t, 1, f)
  <1> DEFINE Ok(d) == \E f : Scan(class, t, Len(t) + 1 - d, f)
             Bad == {d \in Nat : d <= Len(t) /\ ~Ok(d)}
  <1>1. SUFFICES ASSUME Bad # {} PROVE FALSE
    <2>1. Len(t) \notin Bad => Ok(Len(t))
      OBVIOUS
    <2>2. Len(t) + 1 - Len(t) = 1
      OBVIOUS
    <2>3. QED BY <2>1, <2>2
  <1>2. PICK d \in Bad : \A e \in Bad : d <= e
    BY <1>1, LeastNatural
  <1>3. d # 0
    <2> DEFINE f == [s \in Len(t) + 1..Len(t) + 1 |-> [text |-> << >>, n |-> 0]]
    <2>1. [text |-> << >>, n |-> 0] \in Masked
      BY DEF Masked
    <2>2. f \in [Len(t) + 1..Len(t) + 1 -> Masked] /\ f[Len(t) + 1] = [text |-> << >>, n |-> 0]
      BY <2>1
    <2>3. Scan(class, t, Len(t) + 1, f)
      BY <2>2 DEF Scan
    <2>4. Len(t) + 1 - 0 = Len(t) + 1
      OBVIOUS
    <2>5. Ok(0)
      BY <2>3, <2>4
    <2>6. QED BY <2>5
  <1>4. d - 1 \in Nat /\ d - 1 <= Len(t) /\ d - 1 \notin Bad
    BY <1>2, <1>3
  <1>5. PICK f : Scan(class, t, Len(t) + 1 - (d - 1), f)
    BY <1>4
  <1> DEFINE x == Len(t) + 1 - d
  <1>6. x \in 1..Len(t) /\ Len(t) + 1 - (d - 1) = x + 1
    BY <1>2, <1>3
  <1>7. \E g : Scan(class, t, x, g)
    BY <1>5, <1>6, ScanStep
  <1>8. QED BY <1>2, <1>7

(* What the scan writes at s, given what it makes of the rest. *)
Body(class, t, f, s) ==
  IF Ends(class, t, s) = {}
  THEN [f[s + 1] EXCEPT !.text = <<t[s]>> \o @]
  ELSE [f[(CHOOSE e \in Ends(class, t, s) : TRUE) + 1] EXCEPT
          !.text = Replacement(class) \o @, !.n = @ + 1]

(* What Subn prepends at s. *)
LEMMA BodyIs ==
  ASSUME NEW class, NEW t, NEW s, NEW w \in Masked, NEW f, f[NextOf(class, t, s)] = w
  PROVE  Body(class, t, f, s) = [text |-> Piece(class, t, s) \o w.text, n |-> w.n + One(class, t, s)]
  <1>1. w.n \in Nat
    BY DEF Masked
  <1>2. \A u : [w EXCEPT !.text = u] = [text |-> u, n |-> w.n]
    BY DEF Masked
  <1>3. \A u, i : [w EXCEPT !.text = u, !.n = i] = [text |-> u, n |-> i]
    <2>1. \A u, i : [w EXCEPT !.text = u, !.n = i] = [[w EXCEPT !.text = u] EXCEPT !.n = i]
      OBVIOUS
    <2>2. \A u, i, k : [[text |-> u, n |-> k] EXCEPT !.n = i] = [text |-> u, n |-> i]
      OBVIOUS
    <2>3. ASSUME NEW u, NEW i PROVE [w EXCEPT !.text = u, !.n = i] = [text |-> u, n |-> i]
      <3> DEFINE v == [w EXCEPT !.text = u]
      <3>1. [w EXCEPT !.text = u, !.n = i] = [v EXCEPT !.n = i]
        BY <2>1
      <3>2. v = [text |-> u, n |-> w.n]
        BY <1>2
      <3> HIDE DEF v
      <3>3. [v EXCEPT !.n = i] = [text |-> u, n |-> i]
        BY <2>2, <3>2
      <3>4. QED BY <3>1, <3>3, Zenon
    <2>4. QED BY <2>3, Zenon
  <1>4. CASE Ends(class, t, s) = {}
    <2>1. NextOf(class, t, s) = s + 1 /\ Piece(class, t, s) = <<t[s]>> /\ One(class, t, s) = 0
      BY <1>4 DEF NextOf, Piece, One, Fires
    <2>2. [f[s + 1] EXCEPT !.text = <<t[s]>> \o @] = [text |-> <<t[s]>> \o w.text, n |-> w.n]
      BY <1>2, <2>1
    <2>3. w.n + 0 = w.n
      BY <1>1
    <2>4. Body(class, t, f, s) = [f[s + 1] EXCEPT !.text = <<t[s]>> \o @]
      BY <1>4 DEF Body
    <2>5. QED BY <2>1, <2>2, <2>3, <2>4
  <1>5. CASE Ends(class, t, s) # {}
    <2> DEFINE e == CHOOSE e \in Ends(class, t, s) : TRUE
    <2>1. NextOf(class, t, s) = e + 1 /\ Piece(class, t, s) = Replacement(class) /\ One(class, t, s) = 1
      BY <1>5 DEF NextOf, Piece, One, Fires, EndOf
    <2> HIDE DEF e
    <2>2. [f[e + 1] EXCEPT !.text = Replacement(class) \o @, !.n = @ + 1]
            = [text |-> Replacement(class) \o w.text, n |-> w.n + 1]
      <3>1. f[e + 1] = w
        BY <1>3, <2>1
      <3>2. [w EXCEPT !.text = Replacement(class) \o @, !.n = @ + 1]
              = [text |-> Replacement(class) \o w.text, n |-> w.n + 1]
        BY <1>3
      <3>3. QED BY <3>1, <3>2
    <2>3. Body(class, t, f, s) = [f[e + 1] EXCEPT !.text = Replacement(class) \o @, !.n = @ + 1]
      BY <1>5 DEF Body, e
    <2>4. QED BY <2>1, <2>2, <2>3
  <1>6. QED BY <1>4, <1>5

(* Subn is the value of such a solution: there is no other, by induction     *)
(* from the end again.                                                       *)
LEMMA SubnIs ==
  ASSUME NEW class \in Classes, NEW t \in Seq(Atom)
  PROVE  \E f : Scan(class, t, 1, f) /\ Subn(class, t) = f[1]
  <1> DEFINE F(h) == [s \in 1..Len(t) + 1 |->
                        IF s > Len(t) THEN [text |-> << >>, n |-> 0] ELSE Body(class, t, h, s)]
             h == CHOOSE h : h = F(h)
  <1>1. PICK f : Scan(class, t, 1, f)
    BY ScanExists
  <1>2. ASSUME NEW s \in 1..Len(t)
        PROVE  /\ NextOf(class, t, s) \in s + 1..Len(t) + 1
               /\ f[NextOf(class, t, s)] \in Masked
               /\ \A g : g[NextOf(class, t, s)] = f[NextOf(class, t, s)] => Body(class, t, g, s) = f[s]
    <2> DEFINE y == NextOf(class, t, s)
               w == f[y]
    <2>1. y \in s + 1..Len(t) + 1
      BY NextIs
    <2>2. w \in Masked
      BY <1>1, <2>1 DEF Scan
    <2>3. f[s] = [text |-> Piece(class, t, s) \o w.text, n |-> w.n + One(class, t, s)]
      BY <1>1 DEF Scan
    <2>4. ASSUME NEW g, g[y] = w PROVE Body(class, t, g, s) = f[s]
      <3>1. Body(class, t, g, s) = [text |-> Piece(class, t, s) \o w.text, n |-> w.n + One(class, t, s)]
        BY <2>2, <2>4, BodyIs
      <3>2. QED BY <2>3, <3>1
    <2>5. QED BY <2>1, <2>2, <2>4
  <1>3. \A s \in 1..Len(t) : f[s] = Body(class, t, f, s)
    BY <1>2
  <1>4. f[Len(t) + 1] = [text |-> << >>, n |-> 0] /\ f = [s \in 1..Len(t) + 1 |-> f[s]]
    BY <1>1 DEF Scan
  <1>5. f = F(f)
    <2>1. \A s \in 1..Len(t) + 1 : f[s] = IF s > Len(t) THEN [text |-> << >>, n |-> 0] ELSE Body(class, t, f, s)
      BY <1>3, <1>4
    <2>2. QED BY <1>4, <2>1
  <1>6. h = F(h)
    BY <1>5
  <1> HIDE DEF h
  <1>7. \A s \in 1..Len(t) : h[s] = Body(class, t, h, s)
    BY <1>6
  <1>8. h[Len(t) + 1] = f[Len(t) + 1]
    BY <1>4, <1>6
  <1> DEFINE Bad == {s \in 1..Len(t) + 1 : h[s] # f[s]}
  <1>9. SUFFICES ASSUME Bad # {} PROVE FALSE
    <2>1. h[1] = f[1]
      BY <1>9
    <2>2. Subn(class, t) = h[1]
      BY DEF Subn, h, F, Body
    <2>3. QED BY <1>1, <2>1, <2>2
  <1>10. IsFiniteSet(Bad) /\ Bad \in SUBSET Nat
    <2>1. IsFiniteSet(1..Len(t) + 1) /\ Bad \in SUBSET (1..Len(t) + 1)
      BY FS_Interval
    <2>2. QED BY <2>1, FS_Subset
  <1>11. PICK s \in Bad : \A x \in Bad : x <= s
    BY <1>9, <1>10, GreatestOfFinite
  <1>12. s \in 1..Len(t) /\ h[s] # f[s]
    BY <1>8, <1>11
  <1>13. NextOf(class, t, s) \in s + 1..Len(t) + 1
    BY <1>2, <1>12
  <1>14. h[NextOf(class, t, s)] = f[NextOf(class, t, s)]
    BY <1>11, <1>13
  <1>15. Body(class, t, h, s) = f[s]
    BY <1>2, <1>12, <1>14
  <1>16. QED BY <1>7, <1>12, <1>15

-----------------------------------------------------------------------------
(* The scan, as a whole.  K are the atoms it stops at, from x on, the end of *)
(* the line among them; what it writes for s in K begins at g[s] of r; n of  *)
(* them begin a match.                                                       *)
Fired(class, t, K) == {s \in K : s <= Len(t) /\ Fires(class, t, s)}

Laid(class, t, x, r, n, K, g) ==
  /\ K \subseteq x..Len(t) + 1 /\ x \in K /\ Len(t) + 1 \in K
  /\ g \in [K -> Nat \ {0}] /\ g[x] = 1 /\ g[Len(t) + 1] = Len(r) + 1
  /\ \A s \in K : s <= Len(t) =>
       /\ NextOf(class, t, s) \in K
       /\ g[NextOf(class, t, s)] = g[s] + Len(Piece(class, t, s))
       /\ \A i \in 1..Len(Piece(class, t, s)) : r[g[s] + i - 1] = Piece(class, t, s)[i]
  /\ \A s, z \in K : s < z => NextOf(class, t, s) <= z /\ g[s] < g[z]
  /\ \A z \in K \ {x} : \E s \in K : s < z /\ NextOf(class, t, s) = z
  /\ \A p \in 1..Len(r) : \E s \in K : s <= Len(t) /\ g[s] <= p /\ p < g[NextOf(class, t, s)]
  /\ \A p \in x..Len(t) : \E s \in K : s <= p /\ p < NextOf(class, t, s)
  /\ n = Cardinality(Fired(class, t, K))

(* Past the end of a line nothing is written. *)
LEMMA LaidEnd ==
  ASSUME NEW class \in Classes, NEW t \in Seq(Atom)
  PROVE  \E K, g : Laid(class, t, Len(t) + 1, << >>, 0, K, g)
  <1> DEFINE z == Len(t) + 1
             K == {z}
             g == [s \in K |-> 1]
  <1>1. z \in Nat /\ z > Len(t) /\ Len(<< >>) = 0 /\ K \subseteq z..z
    OBVIOUS
  <1>2. Fired(class, t, K) = {}
    BY <1>1 DEF Fired
  <1>3. Cardinality(Fired(class, t, K)) = 0
    BY <1>2, FS_EmptySet
  <1>4. Laid(class, t, z, << >>, 0, K, g)
    BY <1>1, <1>3 DEF Laid
  <1>5. QED BY <1>4

(* What is laid out from the next stop on is laid out one piece further on. *)
LEMMA LaidStep ==
  ASSUME NEW class \in Classes, NEW t \in Seq(Atom), NEW x \in 1..Len(t),
         NEW y, y = NextOf(class, t, x), NEW u, u = Piece(class, t, x),
         NEW r \in Seq(Atom), NEW n \in Nat, NEW K, NEW g, Laid(class, t, y, r, n, K, g)
  PROVE  \E L, h : Laid(class, t, x, u \o r, n + One(class, t, x), L, h)
  <1> DEFINE d == Len(u)
             L == K \cup {x}
             h == [s \in L |-> IF s = x THEN 1 ELSE g[s] + d]
             q == u \o r
  <1>1. y \in x + 1..Len(t) + 1 /\ u \in Seq(Atom) /\ d \in Nat /\ d >= 1
    BY NextIs, PieceIs
  <1>2. q \in Seq(Atom) /\ Len(q) = d + Len(r)
    BY <1>1, ConcatProperties
  <1>3. \A i \in 1..d : q[i] = u[i]
    BY <1>1, ConcatProperties
  <1>4. \A i \in 1..Len(r) : q[d + i] = r[i]
    <2> TAKE i \in 1..Len(r)
    <2>1. d + i \in 1..d + Len(r) /\ ~(d + i <= d) /\ d + i - d = i
      BY <1>1
    <2>2. QED BY <1>1, <2>1, ConcatProperties
  <1>5. /\ K \subseteq y..Len(t) + 1 /\ y \in K /\ Len(t) + 1 \in K /\ x \notin K
        /\ g \in [K -> Nat \ {0}] /\ g[y] = 1 /\ g[Len(t) + 1] = Len(r) + 1
    BY <1>1 DEF Laid
  <1>6. h[x] = 1 /\ \A s \in K : h[s] = g[s] + d /\ g[s] \in Nat /\ g[s] >= 1
    BY <1>5
  <1>7. h \in [L -> Nat \ {0}]
    <2>1. \A s \in K : g[s] + d \in Nat \ {0}
      BY <1>1, <1>5
    <2>2. QED BY <2>1
  <1> HIDE DEF d, q, h
  <1>8. L \subseteq x..Len(t) + 1 /\ x \in L /\ Len(t) + 1 \in L /\ h[Len(t) + 1] = Len(q) + 1
    BY SMTT(40), <1>1, <1>2, <1>5, <1>6
  <1>9. ASSUME NEW s \in L, s <= Len(t)
        PROVE  /\ NextOf(class, t, s) \in L
               /\ h[NextOf(class, t, s)] = h[s] + Len(Piece(class, t, s))
               /\ \A i \in 1..Len(Piece(class, t, s)) : q[h[s] + i - 1] = Piece(class, t, s)[i]
    <2>1. CASE s = x
      <3>1. h[y] = 1 + d
        BY <1>1, <1>5, <1>6
      <3>2. \A i \in 1..d : 1 + i - 1 = i
        BY <1>1
      <3>3. QED BY SMTT(40), <1>3, <1>5, <1>6, <2>1, <3>1, <3>2 DEF d
    <2>2. CASE s \in K
      <3> DEFINE z == NextOf(class, t, s)
                 v == Piece(class, t, s)
      <3>1. z \in K /\ g[z] = g[s] + Len(v) /\ \A i \in 1..Len(v) : r[g[s] + i - 1] = v[i]
        BY <1>9, <2>2 DEF Laid
      <3>2. s \in 1..Len(t)
        BY <1>1, <1>5, <1>9, <2>2
      <3>3. Len(v) \in Nat
        BY <3>2, PieceIs
      <3>4. z <= Len(t) + 1 /\ g[z] <= Len(r) + 1
        <4>1. z \in Nat /\ z <= Len(t) + 1
          BY <3>2, NextIs
        <4>2. CASE z = Len(t) + 1
          BY <1>5, <4>2
        <4>3. CASE z < Len(t) + 1
          <5>1. g[z] < g[Len(t) + 1]
            BY <1>5, <3>1, <4>3 DEF Laid
          <5>2. QED BY <1>5, <1>6, <3>1, <4>1, <5>1
        <4>4. QED BY <4>1, <4>2, <4>3
      <3> HIDE DEF z, v
      <3>5. h[z] = h[s] + Len(v)
        BY SMTT(40), <1>1, <1>6, <2>2, <3>1, <3>3
      <3>6. ASSUME NEW i \in 1..Len(v) PROVE q[h[s] + i - 1] = v[i]
        <4>1. g[s] + i - 1 \in 1..Len(r)
          BY SMTT(40), <1>6, <2>2, <3>1, <3>3, <3>4
        <4>2. h[s] + i - 1 = d + (g[s] + i - 1)
          BY <1>1, <1>6, <2>2, <3>3
        <4>3. QED BY <1>4, <3>1, <4>1, <4>2
      <3>7. QED BY <3>1, <3>5, <3>6 DEF z, v
    <2>3. QED BY <2>1, <2>2
  <1>10. ASSUME NEW s \in L, NEW z \in L, s < z
         PROVE  NextOf(class, t, s) <= z /\ h[s] < h[z]
    <2>1. z \in K
      BY <1>1, <1>5, <1>10
    <2>2. CASE s = x
      BY SMTT(40), <1>1, <1>5, <1>6, <2>1, <2>2
    <2>3. CASE s \in K
      <3>1. NextOf(class, t, s) <= z /\ g[s] < g[z]
        BY <1>10, <2>1, <2>3 DEF Laid
      <3>2. QED BY <1>1, <1>6, <2>1, <2>3, <3>1
    <2>4. QED BY <2>2, <2>3
  <1>11. ASSUME NEW z \in L \ {x}
         PROVE  \E s \in L : s < z /\ NextOf(class, t, s) = z
    <2>1. CASE z = y
      BY <1>1, <2>1
    <2>2. CASE z # y
      BY <2>2 DEF Laid
    <2>3. QED BY <2>1, <2>2
  <1>12. ASSUME NEW p \in 1..Len(q)
         PROVE  \E s \in L : s <= Len(t) /\ h[s] <= p /\ p < h[NextOf(class, t, s)]
    <2>1. CASE p <= d
      <3>1. h[y] = 1 + d /\ x <= Len(t)
        BY <1>1, <1>5, <1>6
      <3>2. QED BY <1>1, <1>6, <2>1, <3>1
    <2>2. CASE p > d
      <3>1. p - d \in 1..Len(r)
        BY <1>1, <1>2, <2>2
      <3>2. PICK s \in K : s <= Len(t) /\ g[s] <= p - d /\ p - d < g[NextOf(class, t, s)]
        BY <3>1 DEF Laid
      <3>3. NextOf(class, t, s) \in K
        BY <3>2 DEF Laid
      <3>4. h[s] <= p /\ p < h[NextOf(class, t, s)]
        BY SMTT(40), <1>1, <1>2, <1>6, <3>2, <3>3
      <3>5. QED BY <3>2, <3>4
    <2>3. QED BY <1>1, <1>2, <2>1, <2>2
  <1>13. ASSUME NEW p \in x..Len(t)
         PROVE  \E s \in L : s <= p /\ p < NextOf(class, t, s)
    <2>1. CASE p < y
      BY <1>1, <2>1
    <2>2. CASE p >= y
      <3>1. p \in y..Len(t)
        BY <1>1, <2>2
      <3>2. QED BY <3>1 DEF Laid
    <2>3. QED BY <1>1, <2>1, <2>2
  <1>14. n + One(class, t, x) = Cardinality(Fired(class, t, L))
    <2>1. n = Cardinality(Fired(class, t, K))
      BY DEF Laid
    <2>2. IsFiniteSet(Fired(class, t, K)) /\ x \notin Fired(class, t, K)
      <3>1. y \in Int /\ Len(t) + 1 \in Int
        BY <1>1
      <3>2. IsFiniteSet(y..Len(t) + 1)
        BY <3>1, FS_Interval
      <3>3. Fired(class, t, K) \in SUBSET (y..Len(t) + 1)
        BY <1>5 DEF Fired
      <3>4. IsFiniteSet(Fired(class, t, K))
        BY <3>2, <3>3, FS_Subset
      <3>5. QED BY <1>5, <3>4 DEF Fired
    <2>3. CASE Fires(class, t, x)
      <3>1. Fired(class, t, L) = Fired(class, t, K) \cup {x}
        BY <2>3 DEF Fired
      <3>2. QED BY <2>1, <2>2, <2>3, <3>1, FS_AddElement DEF One
    <2>4. CASE ~Fires(class, t, x)
      <3>1. Fired(class, t, L) = Fired(class, t, K)
        BY <2>4 DEF Fired
      <3>2. QED BY <2>1, <2>4, <3>1 DEF One
    <2>5. QED BY <2>3, <2>4
  <1>15. Laid(class, t, x, q, n + One(class, t, x), L, h)
    BY <1>6, <1>7, <1>8, <1>9, <1>10, <1>11, <1>12, <1>13, <1>14 DEF Laid
  <1>16. QED BY <1>15 DEF q

(* What Pattern.subn makes of any line: at each stop, in order, what it      *)
(* copies or puts in place of a match, with no gap and no overlap, and as    *)
(* many matches as it counts.                                                *)
THEOREM SubnIsLaid ==
  ASSUME NEW class \in Classes, NEW t \in Seq(Atom), NEW m, m = Subn(class, t)
  PROVE  /\ m.text \in Seq(Atom) /\ m.n \in Nat
         /\ \E K, g : Laid(class, t, 1, m.text, m.n, K, g)
  <1>1. PICK f : Scan(class, t, 1, f) /\ m = f[1]
    BY SubnIs
  <1>2. \A s \in 1..Len(t) + 1 : f[s].text \in Seq(Atom) /\ f[s].n \in Nat
    BY <1>1 DEF Scan, Masked
  <1> DEFINE Ok(s) == \E K, g : Laid(class, t, s, f[s].text, f[s].n, K, g)
             Bad == {s \in 1..Len(t) + 1 : ~Ok(s)}
  <1>3. SUFFICES ASSUME Bad # {} PROVE FALSE
    <2>1. 1 \in 1..Len(t) + 1
      OBVIOUS
    <2>2. Ok(1)
      BY <1>3, <2>1
    <2>3. QED BY <1>1, <1>2, <2>1, <2>2
  <1>4. IsFiniteSet(Bad) /\ Bad \in SUBSET Nat
    <2>1. IsFiniteSet(1..Len(t) + 1) /\ Bad \in SUBSET (1..Len(t) + 1)
      BY FS_Interval
    <2>2. Bad \in SUBSET Nat
      OBVIOUS
    <2> HIDE DEF Bad
    <2>3. IsFiniteSet(Bad)
      BY <2>1, FS_Subset
    <2>4. QED BY <2>2, <2>3
  <1>5. PICK s \in Bad : \A x \in Bad : x <= s
    <2> HIDE DEF Bad
    <2>1. QED BY <1>3, <1>4, GreatestOfFinite
  <1>6. s # Len(t) + 1
    <2>1. f[Len(t) + 1] = [text |-> << >>, n |-> 0]
      BY <1>1 DEF Scan
    <2>2. f[Len(t) + 1].text = << >> /\ f[Len(t) + 1].n = 0
      BY <2>1
    <2>3. Ok(Len(t) + 1)
      BY <2>2, LaidEnd
    <2>4. QED BY <2>3
  <1>7. s \in 1..Len(t)
    BY <1>6
  <1> DEFINE y == NextOf(class, t, s)
  <1>8. y \in s + 1..Len(t) + 1
    BY <1>7, NextIs
  <1>9. Ok(y)
    BY <1>5, <1>8
  <1>10. PICK K, g : Laid(class, t, y, f[y].text, f[y].n, K, g)
    BY <1>9
  <1>11. f[s] = [text |-> Piece(class, t, s) \o f[y].text, n |-> f[y].n + One(class, t, s)]
    BY <1>1, <1>7 DEF Scan
  <1>12. f[s].text = Piece(class, t, s) \o f[y].text /\ f[s].n = f[y].n + One(class, t, s)
    BY <1>11
  <1>13. f[y].text \in Seq(Atom) /\ f[y].n \in Nat
    BY <1>2, <1>8
  <1>14. Ok(s)
    BY <1>7, <1>10, <1>12, <1>13, LaidStep
  <1>15. QED BY <1>14

-----------------------------------------------------------------------------
(* Where the rules match: a rule that takes the longest run matches wherever *)
(* a run begins.                                                             *)

(* A run that holds is within a longest one. *)
LEMMA RunExists ==
  ASSUME NEW t \in Seq(Atom), NEW kinds, NEW v \in Nat \ {0}, NEW x \in v..Len(t),
         \A n \in v..x : Is(t, n, kinds)
  PROVE  \E e \in Run(t, v, kinds) : x <= e
  <1> DEFINE B == {e \in v..Len(t) : \A n \in v..e : Is(t, n, kinds)}
  <1>1. B # {} /\ B \in SUBSET Nat /\ x \in B
    OBVIOUS
  <1>2. IsFiniteSet(B)
    <2>1. IsFiniteSet(v..Len(t)) /\ B \in SUBSET (v..Len(t))
      BY FS_Interval
    <2> HIDE DEF B
    <2>2. QED BY <2>1, FS_Subset
  <1>3. PICK e \in B : \A y \in B : y <= e
    <2> HIDE DEF B
    <2>1. QED BY <1>1, <1>2, GreatestOfFinite
  <1>4. ~Is(t, e + 1, kinds)
    <2> SUFFICES ASSUME Is(t, e + 1, kinds) PROVE FALSE
      OBVIOUS
    <2>1. e + 1 \in v..Len(t)
      BY DEF Is
    <2>2. \A n \in v..e + 1 : n \in v..e \/ n = e + 1
      OBVIOUS
    <2>3. e + 1 \in B
      BY <2>1, <2>2
    <2>4. QED BY <1>3, <2>3
  <1>5. e \in Run(t, v, kinds)
    BY <1>4 DEF Run
  <1>6. QED BY <1>1, <1>3, <1>5

(* What a longest run is. *)
LEMMA RunIs ==
  ASSUME NEW t, NEW kinds, NEW v \in Nat, NEW e \in Run(t, v, kinds), Len(t) \in Nat
  PROVE  /\ e \in v..Len(t) /\ (\A n \in v..e : Is(t, n, kinds)) /\ Is(t, v, kinds)
         /\ Is(t, e, kinds) /\ ~Is(t, e + 1, kinds)
  <1>1. e \in v..Len(t) /\ (\A n \in v..e : Is(t, n, kinds)) /\ ~Is(t, e + 1, kinds)
    BY DEF Run
  <1>2. v \in v..e /\ e \in v..e
    BY <1>1
  <1>3. QED BY <1>1, <1>2

(* The atoms of a header before the credentials. *)
Colon(t, s) == AfterSpace(t, s + 1)

Word(t, s) == AfterSpace(t, Colon(t, s) + 1)

HttpStarts(t, s) ==
  /\ Is(t, s, {"authorization"}) /\ Is(t, Colon(t, s), {"colon"})
  /\ Is(t, Word(t, s), {"word", "authorization"}) /\ Is(t, Word(t, s) + 1, {"space"})
  /\ Is(t, Word(t, s) + 2, NonSpace)

BearerStarts(t, s) ==
  /\ Is(t, s, {"bearer"}) /\ Is(t, s + 1, {"space"})
  /\ \E e \in s + 2..Len(t) :
       /\ \A n \in s + 2..e : Is(t, n, Words \cup {"name"})
       /\ ~Is(t, e, {"word", "bearer"})

EnvStarts(t, s) ==
  /\ Is(t, s, {"name"}) /\ (s = 1 \/ Is(t, s - 1, {"space", "colon", ";"}))
  /\ Is(t, s + 1, NonSpace) /\ ~Is(t, s + 1, {"open"})

(* Blanks between the pieces of a header are optional. *)
LEMMA WordIsAhead ==
  ASSUME NEW t, NEW s \in Nat
  PROVE  /\ Colon(t, s) \in s + 1..s + 2
         /\ Word(t, s) \in Colon(t, s) + 1..Colon(t, s) + 2
         /\ Word(t, s) \in Nat
  <1>1. \A n \in Nat : AfterSpace(t, n) \in n..n + 1
    BY DEF AfterSpace
  <1>2. Colon(t, s) \in s + 1..s + 2
    BY <1>1 DEF Colon
  <1>3. Word(t, s) \in Colon(t, s) + 1..Colon(t, s) + 2
    BY <1>1, <1>2 DEF Word
  <1>4. QED BY <1>2, <1>3

(* Where http_auth fires, and how far it takes. *)
LEMMA HttpIs ==
  ASSUME NEW t \in Seq(Atom), NEW s \in 1..Len(t)
  PROVE  /\ Fires("http_auth", t, s) <=> HttpStarts(t, s)
         /\ Fires("http_auth", t, s) =>
              LET e == EndOf("http_auth", t, s)
              IN  /\ Word(t, s) + 2 <= e /\ e <= Len(t)
                  /\ Is(t, e, NonSpace) /\ ~Is(t, e + 1, NonSpace)
  <1> DEFINE c == Colon(t, s)
             w == Word(t, s)
  <1>1. w \in Nat /\ w > s
    BY WordIsAhead
  <1>2. Ends("http_auth", t, s) =
          {e \in Run(t, w + 2, NonSpace) :
             /\ Is(t, s, {"authorization"}) /\ Is(t, c, {"colon"})
             /\ Is(t, w, {"word", "authorization"}) /\ Is(t, w + 1, {"space"})}
    BY DEF Ends, HttpAuth, Colon, Word
  <1>3. ASSUME NEW e \in Ends("http_auth", t, s)
        PROVE  /\ HttpStarts(t, s) /\ w + 2 <= e /\ e <= Len(t)
               /\ Is(t, e, NonSpace) /\ ~Is(t, e + 1, NonSpace)
    <2>1. /\ e \in Run(t, w + 2, NonSpace)
          /\ Is(t, s, {"authorization"}) /\ Is(t, c, {"colon"})
          /\ Is(t, w, {"word", "authorization"}) /\ Is(t, w + 1, {"space"})
      BY <1>2, <1>3
    <2> HIDE DEF c, w
    <2>2. /\ e \in w + 2..Len(t) /\ Is(t, w + 2, NonSpace)
          /\ Is(t, e, NonSpace) /\ ~Is(t, e + 1, NonSpace)
      BY <1>1, <2>1, RunIs
    <2>3. QED BY <1>1, <2>1, <2>2 DEF HttpStarts, c, w
  <1>4. ASSUME HttpStarts(t, s) PROVE Ends("http_auth", t, s) # {}
    <2>1. /\ Is(t, s, {"authorization"}) /\ Is(t, c, {"colon"})
          /\ Is(t, w, {"word", "authorization"}) /\ Is(t, w + 1, {"space"})
          /\ Is(t, w + 2, NonSpace)
      BY <1>4 DEF HttpStarts
    <2> HIDE DEF c, w
    <2>2. w + 2 \in w + 2..Len(t) /\ w + 2 \in Nat \ {0} /\ \A n \in w + 2..w + 2 : n = w + 2
      BY <1>1, <2>1 DEF Is
    <2>3. \A n \in w + 2..w + 2 : Is(t, n, NonSpace)
      BY <2>1, <2>2
    <2>4. PICK e \in Run(t, w + 2, NonSpace) : w + 2 <= e
      BY <2>2, <2>3, RunExists
    <2>5. QED BY <1>2, <2>1, <2>4
  <1>5. Fires("http_auth", t, s) => EndOf("http_auth", t, s) \in Ends("http_auth", t, s)
    BY DEF Fires, EndOf
  <1> HIDE DEF c
  <1>6. QED BY <1>3, <1>4, <1>5 DEF Fires

(* Where bearer_token fires, and how far it takes. *)
LEMMA BearerIs ==
  ASSUME NEW t \in Seq(Atom), NEW s \in 1..Len(t)
  PROVE  /\ Fires("bearer_token", t, s) <=> BearerStarts(t, s)
         /\ Fires("bearer_token", t, s) =>
              LET e == EndOf("bearer_token", t, s)
              IN  /\ s + 2 <= e /\ e <= Len(t)
                  /\ \A n \in s + 2..e : Is(t, n, Words \cup {"name"})
                  /\ ~Is(t, e + 1, Words \cup {"name"})
  <1>1. Ends("bearer_token", t, s) =
          {e \in Run(t, s + 2, Words \cup {"name"}) :
             /\ Is(t, s, {"bearer"}) /\ Is(t, s + 1, {"space"})
             /\ \E n \in s + 2..e : ~Is(t, n, {"word", "bearer"})}
    BY DEF Ends, Bearer
  <1>2. ASSUME NEW e \in Ends("bearer_token", t, s)
        PROVE  /\ BearerStarts(t, s)
               /\ s + 2 <= e /\ e <= Len(t)
               /\ \A n \in s + 2..e : Is(t, n, Words \cup {"name"})
               /\ ~Is(t, e + 1, Words \cup {"name"})
    <2>1. /\ e \in Run(t, s + 2, Words \cup {"name"})
          /\ Is(t, s, {"bearer"}) /\ Is(t, s + 1, {"space"})
          /\ \E n \in s + 2..e : ~Is(t, n, {"word", "bearer"})
      BY <1>1
    <2>2. s + 2 \in Nat /\ Len(t) \in Nat
      OBVIOUS
    <2>3. /\ e \in s + 2..Len(t) /\ (\A n \in s + 2..e : Is(t, n, Words \cup {"name"}))
          /\ ~Is(t, e + 1, Words \cup {"name"})
      BY <2>1, <2>2, RunIs
    <2>4. PICK n \in s + 2..e : ~Is(t, n, {"word", "bearer"})
      BY <2>1
    <2>5. n \in s + 2..Len(t) /\ \A i \in s + 2..n : i \in s + 2..e
      BY <2>3, <2>4
    <2>6. \A i \in s + 2..n : Is(t, i, Words \cup {"name"})
      BY <2>3, <2>5
    <2>7. ~Is(t, n, {"word", "bearer"})
      BY <2>4
    <2>8. BearerStarts(t, s)
      BY <2>1, <2>5, <2>6, <2>7 DEF BearerStarts
    <2>9. s + 2 <= e /\ e <= Len(t)
      BY <2>3
    <2>10. QED BY <2>3, <2>8, <2>9
  <1>3. ASSUME BearerStarts(t, s) PROVE Ends("bearer_token", t, s) # {}
    <2>1. PICK e \in s + 2..Len(t) :
            /\ \A n \in s + 2..e : Is(t, n, Words \cup {"name"})
            /\ ~Is(t, e, {"word", "bearer"})
      BY <1>3 DEF BearerStarts
    <2>2. PICK x \in Run(t, s + 2, Words \cup {"name"}) : e <= x
      <3> DEFINE kinds == Words \cup {"name"}
      <3>1. s + 2 \in Nat \ {0}
        OBVIOUS
      <3>2. \A n \in s + 2..e : Is(t, n, kinds)
        BY <2>1, Zenon
      <3> HIDE DEF kinds
      <3>3. \E x \in Run(t, s + 2, kinds) : e <= x
        BY <2>1, <3>1, <3>2, RunExists
      <3>4. QED BY <3>3 DEF kinds
    <2>3. x \in Int /\ e \in s + 2..x
      BY <2>1, <2>2 DEF Run
    <2>4. QED BY <1>1, <1>3, <2>1, <2>2, <2>3 DEF BearerStarts
  <1>4. Fires("bearer_token", t, s) => EndOf("bearer_token", t, s) \in Ends("bearer_token", t, s)
    BY DEF Fires, EndOf
  <1>5. QED BY <1>2, <1>3, <1>4 DEF Fires

(* Where env_secret fires, and how far it takes. *)
LEMMA EnvIs ==
  ASSUME NEW t \in Seq(Atom), NEW s \in 1..Len(t)
  PROVE  /\ Fires("env_secret", t, s) <=> EnvStarts(t, s)
         /\ Fires("env_secret", t, s) =>
              LET e == EndOf("env_secret", t, s)
              IN  /\ s + 1 <= e /\ e <= Len(t)
                  /\ Is(t, e, NonSpace) /\ ~Is(t, e + 1, NonSpace)
  <1>1. Ends("env_secret", t, s) =
          {e \in Run(t, s + 1, NonSpace) :
             /\ Is(t, s, {"name"}) /\ (s = 1 \/ Is(t, s - 1, {"space", "colon", ";"}))
             /\ ~Is(t, s + 1, {"open"})}
    BY DEF Ends, EnvSecret, Value
  <1>2. ASSUME NEW e \in Ends("env_secret", t, s)
        PROVE  /\ EnvStarts(t, s) /\ s + 1 <= e /\ e <= Len(t)
               /\ Is(t, e, NonSpace) /\ ~Is(t, e + 1, NonSpace)
    <2>1. s + 1 \in Nat /\ Len(t) \in Nat
      OBVIOUS
    <2>2. /\ e \in s + 1..Len(t) /\ Is(t, s + 1, NonSpace)
          /\ Is(t, e, NonSpace) /\ ~Is(t, e + 1, NonSpace)
      BY <1>1, <2>1, RunIs
    <2>3. /\ Is(t, s, {"name"}) /\ ~Is(t, s + 1, {"open"})
          /\ s = 1 \/ Is(t, s - 1, {"space", "colon", ";"})
      BY <1>1
    <2>4. EnvStarts(t, s)
      BY <2>2, <2>3 DEF EnvStarts
    <2>5. s + 1 <= e /\ e <= Len(t)
      BY <2>2
    <2>6. QED BY <2>2, <2>4, <2>5
  <1>3. ASSUME EnvStarts(t, s) PROVE Ends("env_secret", t, s) # {}
    <2>1. Is(t, s + 1, NonSpace)
      BY <1>3 DEF EnvStarts
    <2>2. s + 1 \in s + 1..Len(t) /\ \A n \in s + 1..s + 1 : n = s + 1
      BY <2>1 DEF Is
    <2>3. \A n \in s + 1..s + 1 : Is(t, n, NonSpace)
      BY <2>1, <2>2
    <2>4. PICK x \in Run(t, s + 1, NonSpace) : s + 1 <= x
      BY <2>2, <2>3, RunExists
    <2>5. QED BY <1>1, <1>3, <2>4 DEF EnvStarts
  <1>4. Fires("env_secret", t, s) => EndOf("env_secret", t, s) \in Ends("env_secret", t, s)
    BY DEF Fires, EndOf
  <1>5. QED BY <1>2, <1>3, <1>4 DEF Fires

(* A match of url_creds, from a "://" to an "@". *)
LEMMA UrlIs ==
  ASSUME NEW t \in Seq(Atom), NEW s \in 1..Len(t), Fires("url_creds", t, s)
  PROVE  /\ Is(t, s, {"://"}) /\ EndOf("url_creds", t, s) >= s + 4
         /\ Is(t, EndOf("url_creds", t, s), {"at"})
  <1>1. EndOf("url_creds", t, s) \in UrlCreds(t, s)
    BY DEF Fires, EndOf, Ends
  <1>2. QED BY <1>1 DEF UrlCreds

(* A rule of a shape takes the secret and no more. *)
LEMMA ShapeIs ==
  ASSUME NEW class \in Classes \ Contextual, NEW t, NEW s
  PROVE  /\ Fires(class, t, s) <=> t[s] = Secret(class)
         /\ Fires(class, t, s) => EndOf(class, t, s) = s
  BY DEF Fires, EndOf, Ends, Contextual

(* What a replacement consists of: only what the rule leaves standing could *)
(* begin another match, and a token follows it.                             *)
LEMMA ReplacementKinds ==
  ASSUME NEW class \in Classes, NEW R, R = Replacement(class)
  PROVE  /\ Len(R) \in Nat /\ Lead(class) \in Nat /\ Lead(class) + 3 <= Len(R) /\ Len(R) >= 1
         /\ R[Lead(class) + 1].kind = "open" /\ R[Lead(class) + 2].kind = "colon"
         /\ R[Lead(class) + 3] = CloseOf(class)
         /\ R[Len(R)].kind \in {"close", "at"}
         /\ R[1].kind \in {"://", "authorization", "bearer", "name", "open"}
         /\ class \notin Contextual => R[1].kind = "open"
         /\ class \in Contextual => R[1].kind # "open"
         /\ \A i \in 1..Len(R) : R[i] \in Atom /\ R[i].kind \notin {"secret", "word"}
         /\ \A i \in 1..Len(R) : R[i].kind = "open" => i = Lead(class) + 1
         /\ \A i \in 1..Len(R) : R[i].kind = "close" => i = Lead(class) + 3
         /\ \A i \in 1..Len(R) : R[i].kind = "://" => i = 1
         /\ \A i \in 1..Len(R) : R[i].kind = "name" => i = 1 /\ R[2].kind = "open"
         /\ \A i \in 1..Len(R) :
              R[i].kind = "bearer" => i = 1 /\ R[2].kind = "space" /\ R[3].kind = "open"
         /\ \A i \in 1..Len(R) :
              R[i].kind = "authorization" =>
                i = 1 /\ R[2].kind = "colon" /\ R[3].kind = "space" /\ R[4].kind = "open"
  <1>1. R \in Seq(Atom) /\ \A i \in 1..Len(R) : R[i] \in Atom
    BY ReplacementIs
  <1>2. \A kind \in {"open", "colon", "space", "at", "://", "authorization", "bearer", "name"} :
          The(kind).kind = kind
    BY DEF The
  <1>3. CloseOf(class).kind = "close"
    BY AtomsAre
  <1>4. CASE class = "url_creds"
    <2>1. class \in Contextual
      BY <1>4 DEF Contextual
    <2>2. Lead(class) = 1 /\ Len(R) = 5
      <3>1. Lead(class) = 1
        BY <1>4, <2>1, ReplacementIs, Zenon
      <3>2. Len(R) = Lead(class) + 4
        BY <1>4, <2>1, ReplacementIs, Zenon
      <3>3. QED BY <3>1, <3>2
    <2>3. R[1].kind = "://" /\ R[2].kind = "open" /\ R[3].kind = "colon" /\ R[4].kind = "close" /\ R[5].kind = "at"
      <3>1. Lead(class) + 1 = 2 /\ Lead(class) + 2 = 3 /\ Lead(class) + 3 = 4
        BY <2>2
      <3>2. R[2] = The("open") /\ R[3] = The("colon") /\ R[4] = CloseOf(class)
        BY <3>1, ReplacementIs
      <3>3. R[1] = The("://") /\ R[5] = The("at")
        BY <1>4, ReplacementIs
      <3>4. QED BY <1>2, <1>3, <3>2, <3>3
    <2>4. /\ Len(R) \in Nat /\ Lead(class) \in Nat /\ Lead(class) + 3 <= Len(R) /\ Len(R) >= 1
          /\ R[Lead(class) + 1].kind = "open" /\ R[Lead(class) + 2].kind = "colon"
          /\ R[Lead(class) + 3] = CloseOf(class)
      BY <2>2, <2>3, ReplacementIs
    <2>5. R[Len(R)].kind \in {"close", "at"} /\ R[1].kind \in {"://", "authorization", "bearer", "name", "open"}
      BY <2>2, <2>3
    <2>6. \A i \in 1..Len(R) : i = 1 \/ i = 2 \/ i = 3 \/ i = 4 \/ i = 5
      BY <2>2
    <2>7. \A i \in 1..Len(R) : R[i].kind \notin {"secret", "word"}
      BY <2>3, <2>6
    <2>8. /\ \A i \in 1..Len(R) : R[i].kind = "open" => i = Lead(class) + 1
          /\ \A i \in 1..Len(R) : R[i].kind = "close" => i = Lead(class) + 3
          /\ \A i \in 1..Len(R) : R[i].kind = "://" => i = 1
      BY <2>2, <2>3, <2>6
    <2>9. \A i \in 1..Len(R) : R[i].kind = "name" => i = 1 /\ R[2].kind = "open"
      BY <2>3, <2>6
    <2>10. \A i \in 1..Len(R) :
             R[i].kind = "bearer" => i = 1 /\ R[2].kind = "space" /\ R[3].kind = "open"
      BY <2>3, <2>6
    <2>11. \A i \in 1..Len(R) :
             R[i].kind = "authorization" =>
               i = 1 /\ R[2].kind = "colon" /\ R[3].kind = "space" /\ R[4].kind = "open"
      BY <2>3, <2>6
    <2>12. /\ class \notin Contextual => R[1].kind = "open"
           /\ class \in Contextual => R[1].kind # "open"
      BY <2>1, <2>3
    <2>13. QED BY <1>1, <2>4, <2>5, <2>7, <2>8, <2>9, <2>10, <2>11, <2>12, Zenon
  <1>5. CASE class = "http_auth"
    <2>1. class \in Contextual
      BY <1>5 DEF Contextual
    <2>2. Lead(class) = 3 /\ Len(R) = 6
      <3>1. Lead(class) = 3
        BY <1>5, <2>1, ReplacementIs, Zenon
      <3>2. Len(R) = Lead(class) + 3
        BY <1>5, <2>1, ReplacementIs, Zenon
      <3>3. QED BY <3>1, <3>2
    <2>3. R[1].kind = "authorization" /\ R[2].kind = "colon" /\ R[3].kind = "space" /\ R[4].kind = "open" /\ R[5].kind = "colon" /\ R[6].kind = "close"
      <3>1. Lead(class) + 1 = 4 /\ Lead(class) + 2 = 5 /\ Lead(class) + 3 = 6
        BY <2>2
      <3>2. R[4] = The("open") /\ R[5] = The("colon") /\ R[6] = CloseOf(class)
        BY <3>1, ReplacementIs
      <3>3. R[1] = The("authorization") /\ R[2] = The("colon") /\ R[3] = The("space")
        BY <1>5, ReplacementIs
      <3>4. QED BY <1>2, <1>3, <3>2, <3>3
    <2>4. /\ Len(R) \in Nat /\ Lead(class) \in Nat /\ Lead(class) + 3 <= Len(R) /\ Len(R) >= 1
          /\ R[Lead(class) + 1].kind = "open" /\ R[Lead(class) + 2].kind = "colon"
          /\ R[Lead(class) + 3] = CloseOf(class)
      BY <2>2, <2>3, ReplacementIs
    <2>5. R[Len(R)].kind \in {"close", "at"} /\ R[1].kind \in {"://", "authorization", "bearer", "name", "open"}
      BY <2>2, <2>3
    <2>6. \A i \in 1..Len(R) : i = 1 \/ i = 2 \/ i = 3 \/ i = 4 \/ i = 5 \/ i = 6
      BY <2>2
    <2>7. \A i \in 1..Len(R) : R[i].kind \notin {"secret", "word"}
      BY <2>3, <2>6
    <2>8. /\ \A i \in 1..Len(R) : R[i].kind = "open" => i = Lead(class) + 1
          /\ \A i \in 1..Len(R) : R[i].kind = "close" => i = Lead(class) + 3
          /\ \A i \in 1..Len(R) : R[i].kind = "://" => i = 1
      BY <2>2, <2>3, <2>6
    <2>9. \A i \in 1..Len(R) : R[i].kind = "name" => i = 1 /\ R[2].kind = "open"
      BY <2>3, <2>6
    <2>10. \A i \in 1..Len(R) :
             R[i].kind = "bearer" => i = 1 /\ R[2].kind = "space" /\ R[3].kind = "open"
      BY <2>3, <2>6
    <2>11. \A i \in 1..Len(R) :
             R[i].kind = "authorization" =>
               i = 1 /\ R[2].kind = "colon" /\ R[3].kind = "space" /\ R[4].kind = "open"
      BY <2>3, <2>6
    <2>12. /\ class \notin Contextual => R[1].kind = "open"
           /\ class \in Contextual => R[1].kind # "open"
      BY <2>1, <2>3
    <2>13. QED BY <1>1, <2>4, <2>5, <2>7, <2>8, <2>9, <2>10, <2>11, <2>12, Zenon
  <1>6. CASE class = "bearer_token"
    <2>1. class \in Contextual
      BY <1>6 DEF Contextual
    <2>2. Lead(class) = 2 /\ Len(R) = 5
      <3>1. Lead(class) = 2
        BY <1>6, <2>1, ReplacementIs, Zenon
      <3>2. Len(R) = Lead(class) + 3
        BY <1>6, <2>1, ReplacementIs, Zenon
      <3>3. QED BY <3>1, <3>2
    <2>3. R[1].kind = "bearer" /\ R[2].kind = "space" /\ R[3].kind = "open" /\ R[4].kind = "colon" /\ R[5].kind = "close"
      <3>1. Lead(class) + 1 = 3 /\ Lead(class) + 2 = 4 /\ Lead(class) + 3 = 5
        BY <2>2
      <3>2. R[3] = The("open") /\ R[4] = The("colon") /\ R[5] = CloseOf(class)
        BY <3>1, ReplacementIs
      <3>3. R[1] = The("bearer") /\ R[2] = The("space")
        BY <1>6, ReplacementIs
      <3>4. QED BY <1>2, <1>3, <3>2, <3>3
    <2>4. /\ Len(R) \in Nat /\ Lead(class) \in Nat /\ Lead(class) + 3 <= Len(R) /\ Len(R) >= 1
          /\ R[Lead(class) + 1].kind = "open" /\ R[Lead(class) + 2].kind = "colon"
          /\ R[Lead(class) + 3] = CloseOf(class)
      BY <2>2, <2>3, ReplacementIs
    <2>5. R[Len(R)].kind \in {"close", "at"} /\ R[1].kind \in {"://", "authorization", "bearer", "name", "open"}
      BY <2>2, <2>3
    <2>6. \A i \in 1..Len(R) : i = 1 \/ i = 2 \/ i = 3 \/ i = 4 \/ i = 5
      BY <2>2
    <2>7. \A i \in 1..Len(R) : R[i].kind \notin {"secret", "word"}
      BY <2>3, <2>6
    <2>8. /\ \A i \in 1..Len(R) : R[i].kind = "open" => i = Lead(class) + 1
          /\ \A i \in 1..Len(R) : R[i].kind = "close" => i = Lead(class) + 3
          /\ \A i \in 1..Len(R) : R[i].kind = "://" => i = 1
      BY <2>2, <2>3, <2>6
    <2>9. \A i \in 1..Len(R) : R[i].kind = "name" => i = 1 /\ R[2].kind = "open"
      BY <2>3, <2>6
    <2>10. \A i \in 1..Len(R) :
             R[i].kind = "bearer" => i = 1 /\ R[2].kind = "space" /\ R[3].kind = "open"
      BY <2>3, <2>6
    <2>11. \A i \in 1..Len(R) :
             R[i].kind = "authorization" =>
               i = 1 /\ R[2].kind = "colon" /\ R[3].kind = "space" /\ R[4].kind = "open"
      BY <2>3, <2>6
    <2>12. /\ class \notin Contextual => R[1].kind = "open"
           /\ class \in Contextual => R[1].kind # "open"
      BY <2>1, <2>3
    <2>13. QED BY <1>1, <2>4, <2>5, <2>7, <2>8, <2>9, <2>10, <2>11, <2>12, Zenon
  <1>7. CASE class = "env_secret"
    <2>1. class \in Contextual
      BY <1>7 DEF Contextual
    <2>2. Lead(class) = 1 /\ Len(R) = 4
      <3>1. Lead(class) = 1
        BY <1>7, <2>1, ReplacementIs, Zenon
      <3>2. Len(R) = Lead(class) + 3
        BY <1>7, <2>1, ReplacementIs, Zenon
      <3>3. QED BY <3>1, <3>2
    <2>3. R[1].kind = "name" /\ R[2].kind = "open" /\ R[3].kind = "colon" /\ R[4].kind = "close"
      <3>1. Lead(class) + 1 = 2 /\ Lead(class) + 2 = 3 /\ Lead(class) + 3 = 4
        BY <2>2
      <3>2. R[2] = The("open") /\ R[3] = The("colon") /\ R[4] = CloseOf(class)
        BY <3>1, ReplacementIs
      <3>3. R[1] = The("name")
        BY <1>7, ReplacementIs
      <3>4. QED BY <1>2, <1>3, <3>2, <3>3
    <2>4. /\ Len(R) \in Nat /\ Lead(class) \in Nat /\ Lead(class) + 3 <= Len(R) /\ Len(R) >= 1
          /\ R[Lead(class) + 1].kind = "open" /\ R[Lead(class) + 2].kind = "colon"
          /\ R[Lead(class) + 3] = CloseOf(class)
      BY <2>2, <2>3, ReplacementIs
    <2>5. R[Len(R)].kind \in {"close", "at"} /\ R[1].kind \in {"://", "authorization", "bearer", "name", "open"}
      BY <2>2, <2>3
    <2>6. \A i \in 1..Len(R) : i = 1 \/ i = 2 \/ i = 3 \/ i = 4
      BY <2>2
    <2>7. \A i \in 1..Len(R) : R[i].kind \notin {"secret", "word"}
      BY <2>3, <2>6
    <2>8. /\ \A i \in 1..Len(R) : R[i].kind = "open" => i = Lead(class) + 1
          /\ \A i \in 1..Len(R) : R[i].kind = "close" => i = Lead(class) + 3
          /\ \A i \in 1..Len(R) : R[i].kind = "://" => i = 1
      BY <2>2, <2>3, <2>6
    <2>9. \A i \in 1..Len(R) : R[i].kind = "name" => i = 1 /\ R[2].kind = "open"
      BY <2>3, <2>6
    <2>10. \A i \in 1..Len(R) :
             R[i].kind = "bearer" => i = 1 /\ R[2].kind = "space" /\ R[3].kind = "open"
      BY <2>3, <2>6
    <2>11. \A i \in 1..Len(R) :
             R[i].kind = "authorization" =>
               i = 1 /\ R[2].kind = "colon" /\ R[3].kind = "space" /\ R[4].kind = "open"
      BY <2>3, <2>6
    <2>12. /\ class \notin Contextual => R[1].kind = "open"
           /\ class \in Contextual => R[1].kind # "open"
      BY <2>1, <2>3
    <2>13. QED BY <1>1, <2>4, <2>5, <2>7, <2>8, <2>9, <2>10, <2>11, <2>12, Zenon
  <1>8. CASE class \notin Contextual
    <2>1. class # "url_creds" /\ class # "http_auth" /\ class # "bearer_token" /\ class # "env_secret"
      BY <1>8 DEF Contextual
    <2>2. Lead(class) = 0 /\ Len(R) = 3
      <3>1. Lead(class) = 0
        BY <1>8, <2>1, ReplacementIs, Zenon
      <3>2. Len(R) = Lead(class) + 3
        BY <1>8, <2>1, ReplacementIs, Zenon
      <3>3. QED BY <3>1, <3>2
    <2>3. R[1].kind = "open" /\ R[2].kind = "colon" /\ R[3].kind = "close"
      <3>1. Lead(class) + 1 = 1 /\ Lead(class) + 2 = 2 /\ Lead(class) + 3 = 3
        BY <2>2
      <3>2. R[1] = The("open") /\ R[2] = The("colon") /\ R[3] = CloseOf(class)
        BY <3>1, ReplacementIs
      <3>3. QED BY <1>2, <1>3, <3>2
    <2>4. /\ Len(R) \in Nat /\ Lead(class) \in Nat /\ Lead(class) + 3 <= Len(R) /\ Len(R) >= 1
          /\ R[Lead(class) + 1].kind = "open" /\ R[Lead(class) + 2].kind = "colon"
          /\ R[Lead(class) + 3] = CloseOf(class)
      BY <2>2, <2>3, ReplacementIs
    <2>5. R[Len(R)].kind \in {"close", "at"} /\ R[1].kind \in {"://", "authorization", "bearer", "name", "open"}
      BY <2>2, <2>3
    <2>6. \A i \in 1..Len(R) : i = 1 \/ i = 2 \/ i = 3
      BY <2>2
    <2>7. \A i \in 1..Len(R) : R[i].kind \notin {"secret", "word"}
      BY <2>3, <2>6
    <2>8. /\ \A i \in 1..Len(R) : R[i].kind = "open" => i = Lead(class) + 1
          /\ \A i \in 1..Len(R) : R[i].kind = "close" => i = Lead(class) + 3
          /\ \A i \in 1..Len(R) : R[i].kind = "://" => i = 1
      BY <2>2, <2>3, <2>6
    <2>9. \A i \in 1..Len(R) : R[i].kind = "name" => i = 1 /\ R[2].kind = "open"
      BY <2>3, <2>6
    <2>10. \A i \in 1..Len(R) :
             R[i].kind = "bearer" => i = 1 /\ R[2].kind = "space" /\ R[3].kind = "open"
      BY <2>3, <2>6
    <2>11. \A i \in 1..Len(R) :
             R[i].kind = "authorization" =>
               i = 1 /\ R[2].kind = "colon" /\ R[3].kind = "space" /\ R[4].kind = "open"
      BY <2>3, <2>6
    <2>12. /\ class \notin Contextual => R[1].kind = "open"
           /\ class \in Contextual => R[1].kind # "open"
      BY <1>8, <2>1, <2>3
    <2>13. QED BY <1>1, <2>4, <2>5, <2>7, <2>8, <2>9, <2>10, <2>11, <2>12, Zenon
  <1>9. QED BY <1>4, <1>5, <1>6, <1>7, <1>8 DEF Contextual

(* A match begins at what its replacement begins with, or at the secret.    *)
LEMMA HeadIs ==
  ASSUME NEW class \in Classes, NEW t \in Seq(Atom), NEW s \in 1..Len(t), Fires(class, t, s)
  PROVE  /\ class \in Contextual => Replacement(class)[1].kind = t[s].kind
         /\ class \notin Contextual => t[s] = Secret(class)
         /\ t[s].kind \in {"://", "authorization", "bearer", "name", "secret"}
         /\ t[s].kind = "secret" => class \notin Contextual
  <1>1. CASE class = "url_creds"
    <2>1. t[s].kind = "://"
      BY <1>1, UrlIs DEF Is
    <2>2. Replacement(class)[1] = The("://")
      BY <1>1, ReplacementIs
    <2>3. class \in Contextual
      BY <1>1 DEF Contextual
    <2>4. QED BY <2>1, <2>2, <2>3 DEF The
  <1>2. CASE class = "http_auth"
    <2>1. t[s].kind = "authorization"
      BY <1>2, HttpIs DEF Is, HttpStarts
    <2>2. Replacement(class)[1] = The("authorization")
      BY <1>2, ReplacementIs
    <2>3. class \in Contextual
      BY <1>2 DEF Contextual
    <2>4. QED BY <2>1, <2>2, <2>3 DEF The
  <1>3. CASE class = "bearer_token"
    <2>1. t[s].kind = "bearer"
      BY <1>3, BearerIs DEF Is, BearerStarts
    <2>2. Replacement(class)[1] = The("bearer")
      BY <1>3, ReplacementIs
    <2>3. class \in Contextual
      BY <1>3 DEF Contextual
    <2>4. QED BY <2>1, <2>2, <2>3 DEF The
  <1>4. CASE class = "env_secret"
    <2>1. t[s].kind = "name"
      <3>1. EnvStarts(t, s)
        BY <1>4, EnvIs
      <3>2. Is(t, s, {"name"})
        BY <3>1 DEF EnvStarts
      <3>3. QED BY <3>2 DEF Is
    <2>2. Replacement(class)[1] = The("name")
      BY <1>4, ReplacementIs
    <2>3. class \in Contextual
      BY <1>4 DEF Contextual
    <2>4. QED BY <2>1, <2>2, <2>3 DEF The
  <1>5. CASE class \notin Contextual
    <2>1. t[s] = Secret(class)
      BY <1>5, ShapeIs
    <2>2. QED BY <1>5, <2>1, AtomsAre
  <1>6. QED BY <1>1, <1>2, <1>3, <1>4, <1>5 DEF Contextual

(* No match ends within a token.                                            *)
LEMMA TailIs ==
  ASSUME NEW class \in Classes, NEW t \in Seq(Atom), NEW s \in 1..Len(t), Fires(class, t, s),
         NEW e, e = EndOf(class, t, s), e + 1 <= Len(t),
         t[e].kind \in {"open", "colon"}, t[e + 1].kind \in {"colon", "close"}
  PROVE  FALSE
  <1>1. e \in 1..Len(t) /\ e + 1 \in 1..Len(t)
    BY NextIs
  <1>2. "colon" \in NonSpace /\ "close" \in NonSpace
    BY DEF NonSpace, Plain
  <1>3. Is(t, e + 1, NonSpace)
    BY <1>1, <1>2 DEF Is
  <1>4. class # "url_creds"
    BY UrlIs DEF Is
  <1>5. class # "http_auth"
    BY <1>3, HttpIs
  <1>6. class # "bearer_token"
    <2>1. ~Is(t, e, Words \cup {"name"})
      BY DEF Is, Words
    <2>2. SUFFICES ASSUME class = "bearer_token" PROVE FALSE
      OBVIOUS
    <2>3. s + 2 <= e /\ \A n \in s + 2..e : Is(t, n, Words \cup {"name"})
      BY <2>2, BearerIs
    <2>4. e \in s + 2..e
      BY <1>1, <2>3
    <2>5. QED BY <2>1, <2>3, <2>4, Zenon
  <1>7. class # "env_secret"
    BY <1>3, EnvIs
  <1>8. class \notin Contextual => t[e].kind = "secret"
    BY ShapeIs, AtomsAre
  <1>9. QED BY <1>4, <1>5, <1>6, <1>7, <1>8 DEF Contextual

-----------------------------------------------------------------------------
(* What is written, atom by atom. *)

(* The stops of a scan are atoms of the line, in order. *)
LEMMA StopsAre ==
  ASSUME NEW class \in Classes, NEW t \in Seq(Atom), NEW r \in Seq(Atom), NEW n, NEW K, NEW g,
         Laid(class, t, 1, r, n, K, g)
  PROVE  /\ 1 \in K /\ g[1] = 1 /\ Len(t) + 1 \in K /\ g[Len(t) + 1] = Len(r) + 1
         /\ \A s \in K : s \in 1..Len(t) + 1 /\ g[s] \in 1..Len(r) + 1
         /\ \A s \in K : s <= Len(t) => s \in 1..Len(t) /\ g[s] \in 1..Len(r)
         /\ \A s \in K : g[s] <= Len(r) => s \in 1..Len(t)
         /\ \A s, z \in K : g[s] = g[z] => s = z
  <1>1. /\ K \subseteq 1..Len(t) + 1 /\ 1 \in K /\ Len(t) + 1 \in K
        /\ g \in [K -> Nat \ {0}] /\ g[1] = 1 /\ g[Len(t) + 1] = Len(r) + 1
        /\ \A s, z \in K : s < z => g[s] < g[z]
    BY DEF Laid
  <1>2. \A s \in K : s \in Nat /\ g[s] \in Nat \ {0}
    BY <1>1
  <1>3. \A s, z \in K : g[s] = g[z] => s = z
    <2> SUFFICES ASSUME NEW s \in K, NEW z \in K, g[s] = g[z], s # z PROVE FALSE
      OBVIOUS
    <2>1. s < z \/ z < s
      BY <1>2
    <2>2. QED BY <1>1, <1>2, <2>1
  <1>4. \A s \in K : s <= Len(t) => s \in 1..Len(t) /\ g[s] \in 1..Len(r)
    <2> SUFFICES ASSUME NEW s \in K, s <= Len(t) PROVE s \in 1..Len(t) /\ g[s] \in 1..Len(r)
      OBVIOUS
    <2>1. s < Len(t) + 1
      BY <1>1, <1>2
    <2>2. g[s] < Len(r) + 1
      BY <1>1, <2>1
    <2>3. QED BY <1>1, <1>2, <2>2
  <1>5. \A s \in K : s \in 1..Len(t) + 1 /\ g[s] \in 1..Len(r) + 1
    <2> SUFFICES ASSUME NEW s \in K PROVE s \in 1..Len(t) + 1 /\ g[s] \in 1..Len(r) + 1
      OBVIOUS
    <2>1. s \in 1..Len(t) + 1
      BY <1>1
    <2>2. CASE s = Len(t) + 1
      BY <1>1, <2>2
    <2>3. CASE s # Len(t) + 1
      BY <1>4, <2>1, <2>3
    <2>4. QED BY <2>1, <2>2, <2>3
  <1>6. \A s \in K : g[s] <= Len(r) => s \in 1..Len(t)
    <2> SUFFICES ASSUME NEW s \in K, g[s] <= Len(r) PROVE s \in 1..Len(t)
      OBVIOUS
    <2>1. s # Len(t) + 1
      BY <1>1
    <2>2. QED BY <1>1, <2>1
  <1>7. QED BY <1>1, <1>3, <1>4, <1>5, <1>6

(* What is copied, and what is replaced. *)
LEMMA CopiedIs ==
  ASSUME NEW class \in Classes, NEW t \in Seq(Atom), NEW r \in Seq(Atom), NEW n, NEW K, NEW g,
         Laid(class, t, 1, r, n, K, g), NEW s \in K, s <= Len(t), ~Fires(class, t, s)
  PROVE  s + 1 \in K /\ g[s + 1] = g[s] + 1 /\ r[g[s]] = t[s]
  <1> DEFINE v == Piece(class, t, s)
  <1>1. NextOf(class, t, s) = s + 1 /\ v = <<t[s]>>
    BY DEF NextOf, Piece
  <1>2. Len(v) = 1 /\ v[1] = t[s] /\ 1 \in 1..1
    BY <1>1
  <1> HIDE DEF v
  <1>3. /\ NextOf(class, t, s) \in K
        /\ g[NextOf(class, t, s)] = g[s] + Len(v)
        /\ \A i \in 1..Len(v) : r[g[s] + i - 1] = v[i]
    BY DEF Laid, v
  <1>4. r[g[s] + 1 - 1] = v[1]
    BY <1>2, <1>3
  <1>5. g[s] + 1 - 1 = g[s]
    BY StopsAre
  <1>6. QED BY <1>1, <1>2, <1>3, <1>4, <1>5

(* Where a rule fires, its replacement is in the result. *)
LEMMA ReplacedIs ==
  ASSUME NEW class \in Classes, NEW t \in Seq(Atom), NEW r \in Seq(Atom), NEW n, NEW K, NEW g,
         Laid(class, t, 1, r, n, K, g), NEW s \in K, s <= Len(t), Fires(class, t, s),
         NEW R, R = Replacement(class)
  PROVE  /\ EndOf(class, t, s) + 1 \in K /\ g[EndOf(class, t, s) + 1] = g[s] + Len(R)
         /\ \A i \in 1..Len(R) : g[s] + i - 1 \in 1..Len(r) /\ r[g[s] + i - 1] = R[i]
         /\ r[g[s]] = R[1]
  <1>1. NextOf(class, t, s) = EndOf(class, t, s) + 1 /\ Piece(class, t, s) = R
    BY DEF NextOf, Piece
  <1> DEFINE e == EndOf(class, t, s)
  <1>2. e + 1 \in K /\ g[e + 1] = g[s] + Len(R) /\ \A i \in 1..Len(R) : r[g[s] + i - 1] = R[i]
    BY <1>1 DEF Laid
  <1> HIDE DEF e
  <1>3. Len(R) \in Nat /\ Len(R) >= 1
    BY ReplacementKinds
  <1>4. g[s] \in 1..Len(r) /\ g[e + 1] <= Len(r) + 1
    BY <1>2, StopsAre
  <1>5. \A i \in 1..Len(R) : g[s] + i - 1 \in 1..Len(r)
    BY <1>2, <1>3, <1>4
  <1>6. g[s] + 1 - 1 = g[s] /\ 1 \in 1..Len(R)
    BY <1>3, <1>4
  <1>7. r[g[s]] = R[1]
    BY <1>2, <1>6
  <1>8. QED BY <1>2, <1>5, <1>7 DEF e

(* Where an atom of the masked line comes from. *)
LEMMA OriginIs ==
  ASSUME NEW class \in Classes, NEW t \in Seq(Atom), NEW r \in Seq(Atom), NEW n, NEW K, NEW g,
         Laid(class, t, 1, r, n, K, g), NEW p \in 1..Len(r)
  PROVE  \E s \in K :
           /\ s \in 1..Len(t)
           /\ \/ ~Fires(class, t, s) /\ p = g[s] /\ r[p] = t[s]
              \/ /\ Fires(class, t, s)
                 /\ \E i \in 1..Len(Replacement(class)) :
                      p = g[s] + i - 1 /\ r[p] = Replacement(class)[i]
  <1>1. PICK s \in K : s <= Len(t) /\ g[s] <= p /\ p < g[NextOf(class, t, s)]
    BY DEF Laid
  <1>2. s \in 1..Len(t) /\ g[s] \in 1..Len(r)
    BY <1>1, StopsAre
  <1>3. CASE ~Fires(class, t, s)
    <2>1. g[NextOf(class, t, s)] = g[s] + 1 /\ r[g[s]] = t[s]
      BY <1>1, <1>3, CopiedIs DEF NextOf
    <2>2. p = g[s]
      BY <1>1, <1>2, <2>1
    <2>3. QED BY <1>2, <1>3, <2>1, <2>2
  <1>4. CASE Fires(class, t, s)
    <2> DEFINE R == Replacement(class)
               i == p - g[s] + 1
    <2>1. g[NextOf(class, t, s)] = g[s] + Len(R) /\ \A j \in 1..Len(R) : r[g[s] + j - 1] = R[j]
      BY <1>1, <1>4, ReplacedIs DEF NextOf
    <2>2. Len(R) \in Nat
      BY ReplacementKinds
    <2>3. i \in 1..Len(R) /\ p = g[s] + i - 1
      BY <1>1, <1>2, <2>1, <2>2
    <2> HIDE DEF i
    <2>4. QED BY <1>2, <1>4, <2>1, <2>3
  <1>5. QED BY <1>3, <1>4

(* The first atom of what is written for s. *)
LEMMA FirstIs ==
  ASSUME NEW class \in Classes, NEW t \in Seq(Atom), NEW r \in Seq(Atom), NEW n, NEW K, NEW g,
         Laid(class, t, 1, r, n, K, g), NEW s \in K, s <= Len(t)
  PROVE  /\ \/ r[g[s]].kind = t[s].kind
            \/ /\ Fires(class, t, s) /\ class \notin Contextual
               /\ r[g[s]].kind = "open" /\ t[s] = Secret(class)
         /\ r[g[s]].kind \notin {"://", "authorization", "bearer", "name", "open"} =>
              ~Fires(class, t, s)
         /\ t[s].kind \notin {"://", "authorization", "bearer", "name", "secret"} =>
              ~Fires(class, t, s)
  <1>1. s \in 1..Len(t)
    BY StopsAre
  <1>2. CASE ~Fires(class, t, s)
    BY <1>2, CopiedIs
  <1>3. CASE Fires(class, t, s)
    <2>1. r[g[s]] = Replacement(class)[1]
      BY <1>3, ReplacedIs
    <2>2. QED BY <1>1, <1>3, <2>1, HeadIs, ReplacementKinds
  <1>4. QED BY <1>2, <1>3

(* The atom before what is written for s. *)
LEMMA LastIs ==
  ASSUME NEW class \in Classes, NEW t \in Seq(Atom), NEW r \in Seq(Atom), NEW n, NEW K, NEW g,
         Laid(class, t, 1, r, n, K, g), NEW s \in K, s > 1
  PROVE  /\ g[s] - 1 \in 1..Len(r) /\ s - 1 \in 1..Len(t)
         /\ \/ /\ s - 1 \in K /\ ~Fires(class, t, s - 1) /\ g[s - 1] = g[s] - 1
               /\ r[g[s] - 1] = t[s - 1]
            \/ /\ r[g[s] - 1].kind \in {"close", "at"}
               /\ \E z \in K : /\ z \in 1..Len(t) /\ Fires(class, t, z)
                               /\ EndOf(class, t, z) = s - 1
  <1>1. PICK z \in K : z < s /\ NextOf(class, t, z) = s
    <2>1. \A y \in K \ {1} : \E z \in K : z < y /\ NextOf(class, t, z) = y
      BY DEF Laid
    <2>2. s \in K \ {1}
      BY StopsAre
    <2>3. QED BY <2>1, <2>2
  <1>2. s \in 1..Len(t) + 1 /\ z \in 1..Len(t) + 1 /\ g[s] \in 1..Len(r) + 1
    BY StopsAre
  <1>3. z \in 1..Len(t) /\ g[z] \in 1..Len(r) /\ s - 1 \in 1..Len(t) /\ z <= Len(t)
    BY <1>1, <1>2, StopsAre
  <1>4. g[z] < g[s]
    BY <1>1 DEF Laid
  <1>5. g[s] - 1 \in 1..Len(r)
    BY <1>2, <1>3, <1>4
  <1>6. CASE ~Fires(class, t, z)
    <2>1. z = s - 1
      BY <1>1, <1>3, <1>6 DEF NextOf
    <2>2. g[s] = g[z] + 1 /\ r[g[z]] = t[z]
      BY <1>1, <1>3, <1>6, CopiedIs DEF NextOf
    <2>3. g[z] = g[s] - 1
      BY <1>2, <1>3, <2>2
    <2>4. QED BY <1>3, <1>5, <1>6, <2>1, <2>2, <2>3
  <1>7. CASE Fires(class, t, z)
    <2> DEFINE R == Replacement(class)
               e == EndOf(class, t, z)
    <2>1. e + 1 = s /\ e \in 1..Len(t)
      BY <1>1, <1>3, <1>7, NextIs DEF NextOf
    <2>2. g[s] = g[z] + Len(R) /\ \A j \in 1..Len(R) : r[g[z] + j - 1] = R[j]
      BY <1>3, <1>7, <2>1, ReplacedIs
    <2>3. Len(R) \in Nat /\ Len(R) >= 1 /\ R[Len(R)].kind \in {"close", "at"}
      BY ReplacementKinds
    <2> HIDE DEF R, e
    <2>4. r[g[s] - 1] = R[Len(R)]
      <3>1. Len(R) \in 1..Len(R) /\ g[z] + Len(R) - 1 = g[s] - 1
        BY <1>2, <1>3, <2>2, <2>3
      <3>2. QED BY <2>2, <3>1
    <2>5. e = s - 1
      BY <1>2, <2>1
    <2>6. QED BY <1>3, <1>5, <1>7, <2>3, <2>4, <2>5 DEF e
  <1>8. QED BY <1>6, <1>7

-----------------------------------------------------------------------------
(* One rule, applied to the whole line. *)

(* The atom after one that is copied. *)
LEMMA FollowsIs ==
  ASSUME NEW class \in Classes, NEW t \in Seq(Atom), NEW r \in Seq(Atom), NEW n, NEW K, NEW g,
         Laid(class, t, 1, r, n, K, g), NEW s \in K, s <= Len(t), ~Fires(class, t, s)
  PROVE  /\ s + 1 \in K /\ g[s + 1] = g[s] + 1
         /\ \A kinds : "open" \notin kinds /\ Is(r, g[s] + 1, kinds) => Is(t, s + 1, kinds)
         /\ \A kinds : Is(r, g[s] + 1, kinds) => s + 1 \in 1..Len(t)
         /\ \A kinds :
              /\ kinds \cap {"://", "authorization", "bearer", "name", "open"} = {}
              /\ Is(r, g[s] + 1, kinds)
              => ~Fires(class, t, s + 1)
         /\ \A kinds :
              /\ kinds \cap {"://", "authorization", "bearer", "name", "secret"} = {}
              /\ Is(t, s + 1, kinds)
              => Is(r, g[s] + 1, kinds) /\ ~Fires(class, t, s + 1)
  <1>1. s + 1 \in K /\ g[s + 1] = g[s] + 1 /\ s \in 1..Len(t) /\ g[s] \in 1..Len(r)
    BY CopiedIs, StopsAre
  <1>2. DOMAIN r = 1..Len(r) /\ DOMAIN t = 1..Len(t)
    OBVIOUS
  <1>3. g[s] + 1 \in 1..Len(r) <=> s + 1 \in 1..Len(t)
    BY <1>1, StopsAre
  <1>4. s + 1 \in 1..Len(t) =>
          /\ \/ r[g[s] + 1].kind = t[s + 1].kind
             \/ r[g[s] + 1].kind = "open" /\ t[s + 1] = Secret(class)
          /\ r[g[s] + 1].kind \notin {"://", "authorization", "bearer", "name", "open"} =>
               ~Fires(class, t, s + 1)
          /\ t[s + 1].kind \notin {"://", "authorization", "bearer", "name", "secret"} =>
               ~Fires(class, t, s + 1)
    BY <1>1, FirstIs
  <1>5. Secret(class).kind = "secret"
    BY AtomsAre
  <1>6. ASSUME NEW kinds, "open" \notin kinds, Is(r, g[s] + 1, kinds)
        PROVE  Is(t, s + 1, kinds)
    BY <1>2, <1>3, <1>4, <1>6 DEF Is
  <1>7. ASSUME NEW kinds, Is(r, g[s] + 1, kinds)
        PROVE  s + 1 \in 1..Len(t)
    BY <1>2, <1>3, <1>7 DEF Is
  <1>8. ASSUME NEW kinds, kinds \cap {"://", "authorization", "bearer", "name", "open"} = {},
               Is(r, g[s] + 1, kinds)
        PROVE  ~Fires(class, t, s + 1)
    BY <1>2, <1>3, <1>4, <1>8 DEF Is
  <1>9. ASSUME NEW kinds, kinds \cap {"://", "authorization", "bearer", "name", "secret"} = {},
               Is(t, s + 1, kinds)
        PROVE  Is(r, g[s] + 1, kinds) /\ ~Fires(class, t, s + 1)
    BY <1>2, <1>3, <1>4, <1>5, <1>9 DEF Is
  <1>10. QED BY <1>1, <1>6, <1>7, <1>8, <1>9

(* No rule tears the token of another. *)
LEMMA PassIsWhole ==
  ASSUME NEW class \in Classes, NEW t \in Seq(Atom), NEW r \in Seq(Atom), NEW n, NEW K, NEW g,
         Laid(class, t, 1, r, n, K, g), AreWhole(t)
  PROVE  AreWhole(r)
  <1> DEFINE R == Replacement(class)
             l == Lead(class)
  <1>1. DOMAIN r = 1..Len(r) /\ DOMAIN t = 1..Len(t)
    OBVIOUS
  <1>2. ASSUME NEW s \in K, s \in 1..Len(t), Fires(class, t, s)
        PROVE  /\ g[s] \in Nat /\ g[s] >= 1 /\ l \in Nat
               /\ Is(r, g[s] + l, {"open"}) /\ Is(r, g[s] + l + 1, {"colon"})
               /\ Is(r, g[s] + l + 2, {"close"})
    <2>1. \A i \in 1..Len(R) : g[s] + i - 1 \in 1..Len(r) /\ r[g[s] + i - 1] = R[i]
      BY <1>2, ReplacedIs
    <2>2. /\ Len(R) \in Nat /\ l \in Nat /\ l + 3 <= Len(R)
          /\ R[l + 1].kind = "open" /\ R[l + 2].kind = "colon" /\ R[l + 3].kind = "close"
      BY ReplacementKinds, AtomsAre
    <2>3. g[s] \in Nat /\ g[s] >= 1
      BY StopsAre
    <2> HIDE DEF R, l
    <2>4. l + 1 \in 1..Len(R) /\ l + 2 \in 1..Len(R) /\ l + 3 \in 1..Len(R)
      BY <2>2
    <2>5. g[s] + (l + 1) - 1 = g[s] + l /\ g[s] + (l + 2) - 1 = g[s] + l + 1
          /\ g[s] + (l + 3) - 1 = g[s] + l + 2
      <3>1. \A a, b \in Nat : a + (b + 1) - 1 = a + b /\ a + (b + 2) - 1 = a + b + 1
                              /\ a + (b + 3) - 1 = a + b + 2
        OBVIOUS
      <3>2. QED BY <2>2, <2>3, <3>1
    <2>6. QED BY <1>1, <2>1, <2>2, <2>3, <2>4, <2>5 DEF Is
  <1>3. ASSUME NEW p \in DOMAIN r, Is(r, p, {"open"})
        PROVE  Is(r, p + 1, {"colon"}) /\ Is(r, p + 2, {"close"})
    <2>1. PICK s \in K :
            /\ s \in 1..Len(t)
            /\ \/ ~Fires(class, t, s) /\ p = g[s] /\ r[p] = t[s]
               \/ /\ Fires(class, t, s)
                  /\ \E i \in 1..Len(R) : p = g[s] + i - 1 /\ r[p] = R[i]
      BY SMTT(40), <1>1, OriginIs
    <2>2. CASE ~Fires(class, t, s)
      <3>1. p = g[s] /\ r[p] = t[s] /\ p \in Nat
        BY <1>1, <2>1, <2>2
      <3>2. Is(t, s, {"open"})
        BY <1>1, <1>3, <2>1, <3>1 DEF Is
      <3>3. Is(t, s + 1, {"colon"}) /\ Is(t, s + 2, {"close"})
        BY <1>1, <2>1, <3>2 DEF AreWhole
      <3>4. s + 1 \in K /\ g[s + 1] = p + 1 /\ Is(r, p + 1, {"colon"}) /\ ~Fires(class, t, s + 1)
        BY <2>1, <2>2, <3>1, <3>3, FollowsIs
      <3>5. s + 1 <= Len(t) /\ s + 1 + 1 = s + 2 /\ p + 1 + 1 = p + 2
        BY <1>1, <2>1, <3>1, <3>3 DEF Is
      <3>6. Is(r, g[s + 1] + 1, {"close"})
        BY <3>3, <3>4, <3>5, FollowsIs
      <3>7. QED BY <3>4, <3>5, <3>6
    <2>3. CASE Fires(class, t, s)
      <3>1. PICK i \in 1..Len(R) : p = g[s] + i - 1 /\ r[p] = R[i]
        BY <2>1, <2>3
      <3>2. R[i].kind = "open"
        BY <1>3, <3>1 DEF Is
      <3>3. i = l + 1
        BY <3>2, ReplacementKinds
      <3>4. /\ g[s] \in Nat /\ l \in Nat /\ Is(r, g[s] + l + 1, {"colon"})
            /\ Is(r, g[s] + l + 2, {"close"})
        BY <1>2, <2>1, <2>3
      <3> HIDE DEF R, l
      <3>5. p + 1 = g[s] + l + 1 /\ p + 2 = g[s] + l + 2
        BY <3>1, <3>3, <3>4
      <3>6. QED BY <3>4, <3>5
    <2>4. QED BY <2>2, <2>3
  <1>4. ASSUME NEW p \in DOMAIN r, Is(r, p, {"close"})
        PROVE  p > 2 /\ Is(r, p - 2, {"open"}) /\ Is(r, p - 1, {"colon"})
    <2>1. PICK s \in K :
            /\ s \in 1..Len(t)
            /\ \/ ~Fires(class, t, s) /\ p = g[s] /\ r[p] = t[s]
               \/ /\ Fires(class, t, s)
                  /\ \E i \in 1..Len(R) : p = g[s] + i - 1 /\ r[p] = R[i]
      BY SMTT(40), <1>1, OriginIs
    <2>2. CASE ~Fires(class, t, s)
      <3>1. p = g[s] /\ r[p] = t[s] /\ p \in Nat
        BY <1>1, <2>1, <2>2
      <3>2. Is(t, s, {"close"})
        BY <1>1, <1>4, <2>1, <3>1 DEF Is
      <3>3. s > 2 /\ Is(t, s - 2, {"open"}) /\ Is(t, s - 1, {"colon"})
        BY <1>1, <2>1, <3>2 DEF AreWhole
      <3>4. /\ t[s].kind = "close" /\ t[s - 1].kind = "colon" /\ t[s - 2].kind = "open"
            /\ s - 1 \in 1..Len(t) /\ s - 2 \in 1..Len(t) /\ s > 1 /\ s - 1 > 1
            /\ s - 1 + 1 = s /\ s - 2 + 1 = s - 1 /\ s - 1 - 1 = s - 2
        BY <1>1, <2>1, <3>2, <3>3 DEF Is
      <3>5. ASSUME NEW z \in 1..Len(t), Fires(class, t, z), NEW e, e = EndOf(class, t, z),
                   e \in {s - 1, s - 2}
            PROVE  FALSE
        <4>1. e + 1 <= Len(t) /\ t[e].kind \in {"open", "colon"} /\ t[e + 1].kind \in {"colon", "close"}
          BY <2>1, <3>4, <3>5
        <4>2. QED BY <3>5, <4>1, TailIs
      <3>6. \A z \in 1..Len(t) : Fires(class, t, z) => EndOf(class, t, z) \notin {s - 1, s - 2}
        BY <3>5
      <3>7. s - 1 \in K /\ g[s - 1] = p - 1 /\ r[p - 1] = t[s - 1] /\ p - 1 \in 1..Len(r)
        BY <3>1, <3>4, <3>6, LastIs
      <3>8. /\ g[s - 1] - 1 \in 1..Len(r)
            /\ r[g[s - 1] - 1] = t[s - 1 - 1]
        <4> DEFINE y == s - 1
        <4>1. y \in K /\ y > 1 /\ \A z \in 1..Len(t) : Fires(class, t, z) => EndOf(class, t, z) # y - 1
          BY <3>4, <3>6, <3>7
        <4> HIDE DEF y
        <4>2. g[y] - 1 \in 1..Len(r) /\ r[g[y] - 1] = t[y - 1]
          BY <4>1, LastIs
        <4>3. QED BY <4>2 DEF y
      <3>9. p - 1 - 1 = p - 2
        BY <3>1
      <3>10. p - 2 \in 1..Len(r) /\ r[p - 2] = t[s - 2]
        BY <3>4, <3>7, <3>8, <3>9
      <3>11. QED BY <1>1, <3>1, <3>4, <3>7, <3>10 DEF Is
    <2>3. CASE Fires(class, t, s)
      <3>1. PICK i \in 1..Len(R) : p = g[s] + i - 1 /\ r[p] = R[i]
        BY <2>1, <2>3
      <3>2. R[i].kind = "close"
        BY <1>4, <3>1 DEF Is
      <3>3. i = l + 3
        BY <3>2, ReplacementKinds
      <3>4. /\ g[s] \in Nat /\ g[s] >= 1 /\ l \in Nat /\ Is(r, g[s] + l, {"open"})
            /\ Is(r, g[s] + l + 1, {"colon"})
        BY <1>2, <2>1, <2>3
      <3> HIDE DEF R, l
      <3>5. p - 1 = g[s] + l + 1 /\ p - 2 = g[s] + l /\ p > 2
        BY <3>1, <3>3, <3>4
      <3>6. QED BY <3>4, <3>5
    <2>4. QED BY <2>2, <2>3
  <1>5. QED BY <1>3, <1>4 DEF AreWhole

(* A secret in what is left was there before, and the class of the rule has *)
(* none, if it is a shape.                                                   *)
LEMMA PassSecrets ==
  ASSUME NEW class \in Classes, NEW t \in Seq(Atom), NEW r \in Seq(Atom), NEW n, NEW K, NEW g,
         Laid(class, t, 1, r, n, K, g), NEW p \in 1..Len(r), r[p].kind = "secret"
  PROVE  /\ \E s \in K : s \in 1..Len(t) /\ g[s] = p /\ t[s] = r[p]
         /\ class \notin Contextual => r[p] # Secret(class)
  <1>1. PICK s \in K :
          /\ s \in 1..Len(t)
          /\ \/ ~Fires(class, t, s) /\ p = g[s] /\ r[p] = t[s]
             \/ /\ Fires(class, t, s)
                /\ \E i \in 1..Len(Replacement(class)) :
                     p = g[s] + i - 1 /\ r[p] = Replacement(class)[i]
    BY OriginIs
  <1>2. ~Fires(class, t, s)
    BY <1>1, ReplacementKinds
  <1>3. QED BY <1>1, <1>2, ShapeIs

(* A line in which the scan finds no match is left as it is. *)
LEMMA PassIsIdle ==
  ASSUME NEW class \in Classes, NEW t \in Seq(Atom), NEW r \in Seq(Atom), NEW n, NEW K, NEW g,
         Laid(class, t, 1, r, n, K, g), \A s \in K : s <= Len(t) => ~Fires(class, t, s)
  PROVE  r = t /\ n = 0
  <1> DEFINE Bad == {s \in 1..Len(t) + 1 : ~(s \in K /\ g[s] = s)}
  <1>1. Bad = {}
    <2> SUFFICES ASSUME Bad # {} PROVE FALSE
      OBVIOUS
    <2>1. Bad \in SUBSET Nat
      OBVIOUS
    <2>2. PICK s \in Bad : \A z \in Bad : s <= z
      <3> HIDE DEF Bad
      <3>1. QED BY <2>1, LeastNatural
    <2>3. s # 1
      BY StopsAre
    <2>4. s - 1 \in 1..Len(t) /\ s - 1 \notin Bad
      BY <2>2, <2>3
    <2>5. s - 1 \in K /\ g[s - 1] = s - 1 /\ s - 1 <= Len(t) /\ ~Fires(class, t, s - 1)
      BY <2>4
    <2>6. s - 1 + 1 \in K /\ g[s - 1 + 1] = g[s - 1] + 1
      BY <2>5, CopiedIs
    <2>7. s - 1 + 1 = s
      OBVIOUS
    <2>8. QED BY <2>5, <2>6, <2>7
  <1>2. \A s \in 1..Len(t) : s \in K /\ g[s] = s /\ s <= Len(t) /\ ~Fires(class, t, s)
    BY <1>1
  <1>3. \A s \in 1..Len(t) : r[s] = t[s]
    BY <1>2, CopiedIs
  <1>4. Len(r) = Len(t)
    <2>1. g[Len(t) + 1] = Len(t) + 1
      BY <1>1
    <2>2. QED BY <2>1, StopsAre
  <1>5. Fired(class, t, K) = {}
    BY StopsAre DEF Fired
  <1>6. n = 0
    BY <1>5, FS_EmptySet DEF Laid
  <1>7. QED BY <1>3, <1>4, <1>6, SeqEqual

-----------------------------------------------------------------------------
(* Where a rule has matched nothing matches it again, and no later rule      *)
(* makes a match for an earlier one.                                         *)

(* A blank that the result has is one that the line had. *)
LEMMA AfterSpaceIs ==
  ASSUME NEW class \in Classes, NEW t \in Seq(Atom), NEW r \in Seq(Atom), NEW n, NEW K, NEW g,
         Laid(class, t, 1, r, n, K, g), NEW s \in K, s <= Len(t), ~Fires(class, t, s),
         NEW d, d = AfterSpace(r, g[s] + 1), NEW x, x = AfterSpace(t, s + 1),
         d \in 1..Len(r), r[d].kind \notin {"open", "space"}
  PROVE  /\ x \in K /\ x \in 1..Len(t) /\ g[x] = d /\ t[x].kind = r[d].kind
         /\ r[d].kind \notin {"://", "authorization", "bearer", "name"} => ~Fires(class, t, x)
  <1>1. s \in 1..Len(t) /\ g[s] \in 1..Len(r)
    BY StopsAre
  <1>2. DOMAIN r = 1..Len(r) /\ DOMAIN t = 1..Len(t)
    OBVIOUS
  <1>3. ASSUME x \in K, g[x] = d
        PROVE  /\ x \in 1..Len(t) /\ t[x].kind = r[d].kind
               /\ r[d].kind \notin {"://", "authorization", "bearer", "name"} => ~Fires(class, t, x)
    <2>1. x \in 1..Len(t)
      BY <1>3, StopsAre
    <2>2. QED BY <1>3, <2>1, FirstIs
  <1>4. s + 1 \in K /\ g[s + 1] = g[s] + 1
    BY FollowsIs
  <1>5. s + 1 \in 1..Len(t) =>
          /\ \/ r[g[s] + 1].kind = t[s + 1].kind
             \/ r[g[s] + 1].kind = "open"
          /\ r[g[s] + 1].kind = "space" => ~Fires(class, t, s + 1)
    BY <1>4, FirstIs
  <1>6. g[s] + 1 \in 1..Len(r) <=> s + 1 \in 1..Len(t)
    BY <1>1, <1>4, StopsAre
  <1>7. CASE Is(r, g[s] + 1, {"space"})
    <2>1. s + 1 \in 1..Len(t) /\ t[s + 1].kind = "space" /\ ~Fires(class, t, s + 1)
      BY <1>2, <1>5, <1>6, <1>7 DEF Is
    <2>2. d = g[s] + 1 + 1 /\ x = s + 1 + 1
      BY <1>2, <1>7, <2>1 DEF AfterSpace, Is
    <2>3. s + 1 + 1 \in K /\ g[s + 1 + 1] = g[s + 1] + 1
      BY <1>4, <2>1, CopiedIs
    <2>4. QED BY <1>3, <1>4, <2>2, <2>3
  <1>8. CASE ~Is(r, g[s] + 1, {"space"})
    <2>1. d = g[s] + 1
      BY <1>8 DEF AfterSpace
    <2>2. ~Is(t, s + 1, {"space"})
      BY <1>2, <1>5, <1>6, <2>1 DEF Is
    <2>3. x = s + 1
      BY <2>2 DEF AfterSpace
    <2>4. QED BY <1>3, <1>4, <2>1, <2>3
  <1>9. QED BY <1>7, <1>8

(* A replacement that might be taken for the beginning of a match. *)
LEMMA ReplacedAt ==
  ASSUME NEW class \in Classes, NEW t \in Seq(Atom), NEW r \in Seq(Atom), NEW n, NEW K, NEW g,
         Laid(class, t, 1, r, n, K, g), NEW s \in K, s <= Len(t), Fires(class, t, s),
         Replacement(class)[1].kind \in {"authorization", "bearer", "name"}
  PROVE  /\ g[s] + 1 \in 1..Len(r) /\ r[g[s] + 1] = Replacement(class)[2]
         /\ g[s] + 2 \in 1..Len(r) /\ r[g[s] + 2] = Replacement(class)[3]
         /\ g[s] + 3 \in 1..Len(r) /\ r[g[s] + 3] = Replacement(class)[4]
         /\ Is(r, g[s] + 1, {"colon", "space", "open"})
  <1> DEFINE R == Replacement(class)
  <1>1. \A j \in 1..Len(R) : g[s] + j - 1 \in 1..Len(r) /\ r[g[s] + j - 1] = R[j]
    BY ReplacedIs
  <1>2. Len(R) \in Nat /\ Len(R) >= 1
    BY ReplacementKinds
  <1>3. Len(R) >= 4
    <2>1. Lead(class) \in Nat /\ Lead(class) + 3 <= Len(R) /\ R[Lead(class) + 1].kind = "open"
      BY ReplacementKinds
    <2>2. Lead(class) # 0
      <3>1. Lead(class) = 0 => Lead(class) + 1 = 1
        OBVIOUS
      <3>2. QED BY <2>1, <3>1
    <2>3. QED BY <1>2, <2>1, <2>2
  <1>4. g[s] \in 1..Len(r)
    BY StopsAre
  <1>5. ASSUME NEW j \in 0..3 PROVE g[s] + j \in 1..Len(r) /\ r[g[s] + j] = R[j + 1]
    <2>1. j + 1 \in 1..Len(R) /\ g[s] + (j + 1) - 1 = g[s] + j
      BY <1>2, <1>3, <1>4
    <2>2. QED BY <1>1, <2>1
  <1>6. 1 \in 1..Len(R)
    BY <1>2
  <1>7. R[2].kind \in {"colon", "space", "open"}
    BY <1>6, ReplacementKinds
  <1>8. /\ g[s] + 1 \in 1..Len(r) /\ r[g[s] + 1] = R[2]
        /\ g[s] + 2 \in 1..Len(r) /\ r[g[s] + 2] = R[3]
        /\ g[s] + 3 \in 1..Len(r) /\ r[g[s] + 3] = R[4]
    <2>1. 1 + 1 = 2 /\ 2 + 1 = 3 /\ 3 + 1 = 4
      OBVIOUS
    <2>2. g[s] + 1 \in 1..Len(r) /\ r[g[s] + 1] = R[1 + 1]
      BY <1>5
    <2>3. g[s] + 2 \in 1..Len(r) /\ r[g[s] + 2] = R[2 + 1]
      BY <1>5
    <2>4. g[s] + 3 \in 1..Len(r) /\ r[g[s] + 3] = R[3 + 1]
      BY <1>5
    <2>5. QED BY <2>1, <2>2, <2>3, <2>4
  <1>9. Is(r, g[s] + 1, {"colon", "space", "open"})
    BY <1>7, <1>8 DEF Is
  <1>10. QED BY <1>8, <1>9

(* No rule opens a place for http_auth, and http_auth leaves none. *)
LEMMA PassHttp ==
  ASSUME NEW class \in Classes, NEW t \in Seq(Atom), NEW r \in Seq(Atom), NEW n, NEW K, NEW g,
         Laid(class, t, 1, r, n, K, g),
         class = "http_auth" \/ \A s \in 1..Len(t) : ~HttpStarts(t, s),
         NEW p \in 1..Len(r), HttpStarts(r, p)
  PROVE  FALSE
  <1> DEFINE c == Colon(r, p)
             w == Word(r, p)
  <1>1. /\ r[p].kind = "authorization" /\ Is(r, c, {"colon"}) /\ Is(r, w, {"word", "authorization"})
        /\ Is(r, w + 1, {"space"}) /\ Is(r, w + 2, NonSpace)
    BY DEF HttpStarts, Is
  <1>2. c = AfterSpace(r, p + 1) /\ w = AfterSpace(r, c + 1)
    BY DEF Colon, Word
  <1> HIDE DEF c, w
  <1>3. PICK s \in K :
          /\ s \in 1..Len(t)
          /\ \/ ~Fires(class, t, s) /\ p = g[s] /\ r[p] = t[s]
             \/ /\ Fires(class, t, s)
                /\ \E i \in 1..Len(Replacement(class)) :
                     p = g[s] + i - 1 /\ r[p] = Replacement(class)[i]
    BY OriginIs
  <1>4. CASE Fires(class, t, s)
    <2> DEFINE R == Replacement(class)
    <2>1. PICK i \in 1..Len(R) : p = g[s] + i - 1 /\ r[p] = R[i]
      BY <1>3, <1>4
    <2>2. /\ R[2].kind = "colon" /\ R[3].kind = "space" /\ R[4].kind = "open"
          /\ i = 1 /\ R[1].kind = "authorization"
      BY <1>1, <2>1, ReplacementKinds
    <2>3. /\ p + 1 \in 1..Len(r) /\ r[p + 1] = R[2] /\ p + 2 \in 1..Len(r) /\ r[p + 2] = R[3]
          /\ p + 3 \in 1..Len(r) /\ r[p + 3] = R[4]
      <3>1. R[1].kind \in {"authorization", "bearer", "name"} /\ s <= Len(t)
        BY <1>3, <2>2
      <3>2. p = g[s]
        BY <2>1, <2>2, StopsAre
      <3>3. QED BY <1>4, <3>1, <3>2, ReplacedAt
    <2> HIDE DEF R
    <2>4. /\ p + 1 \in 1..Len(r) /\ r[p + 1].kind = "colon"
          /\ p + 2 \in 1..Len(r) /\ r[p + 2].kind = "space"
          /\ p + 3 \in 1..Len(r) /\ r[p + 3].kind = "open"
      BY <2>2, <2>3
    <2>5. c = p + 1
      BY <1>2, <2>4 DEF AfterSpace, Is
    <2>6. c + 1 = p + 2 /\ Is(r, p + 2, {"space"})
      BY <2>4, <2>5 DEF Is
    <2>7. w = p + 3
      BY <1>2, <2>6 DEF AfterSpace
    <2>8. QED BY <1>1, <2>4, <2>7 DEF Is
  <1>5. CASE ~Fires(class, t, s)
    <2> DEFINE C == Colon(t, s)
               W == Word(t, s)
    <2>1. p = g[s] /\ r[p] = t[s] /\ s <= Len(t) /\ Is(t, s, {"authorization"})
      BY <1>1, <1>3, <1>5 DEF Is
    <2>2. C = AfterSpace(t, s + 1) /\ W = AfterSpace(t, C + 1)
      BY DEF Colon, Word
    <2> HIDE DEF C, W
    <2>3. C \in K /\ C <= Len(t) /\ g[C] = c /\ Is(t, C, {"colon"}) /\ ~Fires(class, t, C)
      <3>1. c \in 1..Len(r) /\ r[c].kind = "colon" /\ c = AfterSpace(r, g[s] + 1)
        BY <1>1, <1>2, <2>1 DEF Is
      <3>2. /\ C \in K /\ C \in 1..Len(t) /\ g[C] = c /\ t[C].kind = r[c].kind
            /\ ~Fires(class, t, C)
        <4>1. /\ r[c].kind \notin {"open", "space"}
              /\ r[c].kind \notin {"://", "authorization", "bearer", "name"}
          BY <3>1
        <4>2. C \in K /\ C \in 1..Len(t) /\ g[C] = c /\ t[C].kind = r[c].kind
          BY <1>5, <2>1, <2>2, <3>1, <4>1, AfterSpaceIs
        <4>3. ~Fires(class, t, C)
          BY SMTT(40), <1>5, <2>1, <2>2, <3>1, <4>1, AfterSpaceIs
        <4>4. QED BY <4>2, <4>3
      <3>3. QED BY <3>1, <3>2 DEF Is
    <2>4. W \in K /\ W <= Len(t) /\ g[W] = w /\ Is(t, W, {"word", "authorization"})
      <3>1. /\ w \in 1..Len(r) /\ r[w].kind \in {"word", "authorization"}
            /\ w = AfterSpace(r, g[C] + 1)
        BY <1>1, <1>2, <2>3 DEF Is
      <3>2. W \in K /\ W \in 1..Len(t) /\ g[W] = w /\ t[W].kind = r[w].kind
        BY <2>2, <2>3, <3>1, AfterSpaceIs
      <3>3. QED BY <3>1, <3>2 DEF Is
    <2>5. ~Fires(class, t, W)
      <3> SUFFICES ASSUME Fires(class, t, W) PROVE FALSE
        OBVIOUS
      <3> DEFINE R == Replacement(class)
      <3>1. r[w] = R[1] /\ 1 \in 1..Len(R)
        BY <2>4, ReplacedIs, ReplacementKinds
      <3>2. R[1].kind \in {"word", "authorization"}
        BY <1>1, <3>1 DEF Is
      <3>3. R[1].kind \in {"authorization", "bearer", "name"}
        BY <3>1, <3>2, ReplacementKinds
      <3>4. Is(r, w + 1, {"colon", "space", "open"}) /\ r[w + 1] = R[2] /\ R[2].kind = "colon"
        <4>1. Is(r, g[W] + 1, {"colon", "space", "open"}) /\ r[g[W] + 1] = R[2]
          BY <2>4, <3>3, ReplacedAt
        <4>2. R[1].kind = "authorization"
          BY <3>1, <3>2, ReplacementKinds
        <4>3. R[2].kind = "colon"
          BY <3>1, <4>2, ReplacementKinds
        <4>4. QED BY <2>4, <4>1, <4>3
      <3>5. QED BY <1>1, <3>4 DEF Is
    <2>6. Is(t, W + 1, {"space"}) /\ ~Fires(class, t, W + 1) /\ W + 1 \in K /\ g[W + 1] = w + 1
      <3>1. "open" \notin {"space"} /\ {"space"} \cap {"://", "authorization", "bearer", "name", "open"} = {}
        OBVIOUS
      <3>2. QED BY <1>1, <2>4, <2>5, <3>1, FollowsIs
    <2>7. Is(t, W + 2, NonSpace)
      <3>1. W + 1 <= Len(t) /\ W \in Nat /\ w \in Nat
        BY <2>4, <2>6, StopsAre DEF Is
      <3>2. W + 1 + 1 = W + 2 /\ w + 1 + 1 = w + 2
        BY <3>1
      <3>3. W + 2 \in K /\ g[W + 2] = w + 2 /\ W + 2 \in 1..Len(t)
        <4> DEFINE y == W + 1
        <4>1. y \in K /\ y <= Len(t) /\ ~Fires(class, t, y) /\ g[y] + 1 = w + 2 /\ y + 1 = W + 2
          BY <2>6, <3>1, <3>2
        <4> HIDE DEF y
        <4>2. Is(r, g[y] + 1, NonSpace)
          BY <1>1, <4>1
        <4>3. y + 1 \in K /\ g[y + 1] = g[y] + 1
          BY <4>1, FollowsIs
        <4>4. \A kinds : Is(r, g[y] + 1, kinds) => y + 1 \in 1..Len(t)
          BY <4>1, FollowsIs
        <4>5. y + 1 \in 1..Len(t)
          BY <4>2, <4>4
        <4>6. QED BY <4>1, <4>3, <4>5
      <3>4. \/ r[w + 2].kind = t[W + 2].kind
            \/ t[W + 2] = Secret(class)
        BY <3>3, FirstIs
      <3>5. r[w + 2].kind \in NonSpace /\ "secret" \in NonSpace
        BY <1>1 DEF Is, NonSpace
      <3>6. t[W + 2].kind \in NonSpace
        BY <3>4, <3>5, AtomsAre
      <3>7. QED BY <3>3, <3>6 DEF Is
    <2>8. HttpStarts(t, s)
      BY <2>1, <2>3, <2>4, <2>6, <2>7 DEF HttpStarts, C, W
    <2>9. QED BY <1>3, <1>5, <2>8, HttpIs
  <1>6. QED BY <1>4, <1>5

(* What follows a copied atom is what followed it, or the token of a secret. *)
LEMMA NextKind ==
  ASSUME NEW class \in Classes, NEW t \in Seq(Atom), NEW r \in Seq(Atom), NEW n, NEW K, NEW g,
         Laid(class, t, 1, r, n, K, g), NEW s \in K, s <= Len(t), ~Fires(class, t, s),
         g[s] + 1 \in 1..Len(r)
  PROVE  /\ s + 1 \in K /\ g[s + 1] = g[s] + 1 /\ s + 1 \in 1..Len(t) /\ s + 1 <= Len(t)
         /\ \/ r[g[s] + 1].kind = t[s + 1].kind
            \/ r[g[s] + 1].kind = "open" /\ t[s + 1] = Secret(class)
         /\ r[g[s] + 1].kind \notin {"://", "authorization", "bearer", "name", "open"} =>
              ~Fires(class, t, s + 1)
  <1>1. s \in 1..Len(t) /\ g[s] \in 1..Len(r)
    BY StopsAre
  <1>2. s + 1 \in K /\ g[s + 1] = g[s] + 1
    BY CopiedIs
  <1>3. s + 1 \in 1..Len(t) /\ s + 1 <= Len(t)
    BY <1>1, <1>2, StopsAre
  <1>4. QED BY <1>2, <1>3, FirstIs

(* No rule opens a place for bearer_token, and bearer_token leaves none. *)
LEMMA PassBearer ==
  ASSUME NEW class \in Classes, NEW t \in Seq(Atom), NEW r \in Seq(Atom), NEW n, NEW K, NEW g,
         Laid(class, t, 1, r, n, K, g),
         class = "bearer_token" \/ \A s \in 1..Len(t) : ~BearerStarts(t, s),
         NEW p \in 1..Len(r), BearerStarts(r, p)
  PROVE  FALSE
  <1> DEFINE kinds == Words \cup {"name"}
  <1>1. r[p].kind = "bearer" /\ Is(r, p + 1, {"space"})
    BY DEF BearerStarts, Is
  <1>2. PICK e \in p + 2..Len(r) :
          /\ \A i \in p + 2..e : Is(r, i, kinds)
          /\ ~Is(r, e, {"word", "bearer"})
    BY DEF BearerStarts
  <1>3. DOMAIN r = 1..Len(r) /\ DOMAIN t = 1..Len(t) /\ "open" \notin kinds
        /\ "space" \notin kinds /\ "colon" \notin kinds /\ "://" \notin kinds
    BY DEF Words
  <1> HIDE DEF kinds
  <1>4. \A i \in p + 2..e : i \in 1..Len(r) /\ r[i].kind \in kinds
    BY <1>2, <1>3 DEF Is
  <1>5. PICK s \in K :
          /\ s \in 1..Len(t)
          /\ \/ ~Fires(class, t, s) /\ p = g[s] /\ r[p] = t[s]
             \/ /\ Fires(class, t, s)
                /\ \E i \in 1..Len(Replacement(class)) :
                     p = g[s] + i - 1 /\ r[p] = Replacement(class)[i]
    BY OriginIs
  <1>6. CASE Fires(class, t, s)
    <2> DEFINE R == Replacement(class)
    <2>1. PICK i \in 1..Len(R) : p = g[s] + i - 1 /\ r[p] = R[i]
      BY <1>5, <1>6
    <2>2. i = 1 /\ R[1].kind = "bearer" /\ R[3].kind = "open"
      BY SMTT(40), <1>1, <2>1, ReplacementKinds
    <2>3. p = g[s]
      BY <2>1, <2>2, StopsAre
    <2>4. R[1].kind \in {"authorization", "bearer", "name"} /\ s <= Len(t)
      BY <1>5, <2>2
    <2>5. r[p + 2] = R[3]
      BY <1>6, <2>3, <2>4, ReplacedAt
    <2>6. p + 2 \in p + 2..e
      BY <1>2
    <2>7. QED BY <1>3, <1>4, <2>2, <2>5, <2>6
  <1>7. CASE ~Fires(class, t, s)
    <2>1. p = g[s] /\ r[p] = t[s] /\ s <= Len(t)
      BY <1>5, <1>7
    <2>2. g[s] + 1 \in 1..Len(r) /\ r[g[s] + 1].kind = "space"
      BY <1>1, <1>3, <2>1 DEF Is
    <2>3. /\ s + 1 \in K /\ g[s + 1] = p + 1 /\ s + 1 \in 1..Len(t) /\ s + 1 <= Len(t)
          /\ t[s + 1].kind = "space" /\ ~Fires(class, t, s + 1)
      <3>1. /\ s + 1 \in K /\ g[s + 1] = g[s] + 1 /\ s + 1 \in 1..Len(t) /\ s + 1 <= Len(t)
            /\ \/ r[g[s] + 1].kind = t[s + 1].kind
               \/ r[g[s] + 1].kind = "open"
        BY <1>7, <2>1, <2>2, NextKind
      <3>2. ~Fires(class, t, s + 1)
        BY <2>2, <3>1, FirstIs
      <3>3. QED BY <2>1, <2>2, <3>1, <3>2
    <2> DEFINE At(i) == s + (i - p)
               Bad == {i \in p + 2..e : ~(At(i) \in K /\ g[At(i)] = i)}
    <2>4. \A i \in p + 2..e : At(i) \in Nat /\ At(i + 1) = At(i) + 1 /\ At(i) >= s + 2
      BY <1>5
    <2>5. ASSUME NEW i \in p + 2..e, At(i) \in K, g[At(i)] = i
          PROVE  /\ At(i) \in 1..Len(t) /\ t[At(i)].kind = r[i].kind
                 /\ i < e => ~Fires(class, t, At(i))
      <3> DEFINE x == At(i)
      <3>1. x \in K /\ g[x] = i /\ i \in 1..Len(r)
        BY <1>4, <2>5
      <3> HIDE DEF x
      <3>2. x \in 1..Len(t) /\ x <= Len(t)
        BY <3>1, StopsAre
      <3>3. t[x].kind = r[i].kind
        <4>1. r[g[x]].kind = t[x].kind \/ r[g[x]].kind = "open"
          BY <3>1, <3>2, FirstIs
        <4>2. QED BY <1>3, <1>4, <3>1, <4>1
      <3>4. ASSUME i < e, Fires(class, t, x) PROVE FALSE
        <4>1. r[i] = Replacement(class)[1]
          BY <3>1, <3>2, <3>4, ReplacedIs
        <4>2. Replacement(class)[1].kind \in {"authorization", "bearer", "name"}
          <5>1. Replacement(class)[1].kind \in {"://", "authorization", "bearer", "name", "open"}
            BY ReplacementKinds
          <5>2. Replacement(class)[1].kind \in kinds
            BY <1>4, <4>1
          <5>3. QED BY <1>3, <5>1, <5>2
        <4>3. Is(r, g[x] + 1, {"colon", "space", "open"})
          BY <3>1, <3>2, <3>4, <4>2, ReplacedAt
        <4>4. i + 1 \in p + 2..e
          BY <3>4
        <4>5. r[i + 1].kind \in kinds
          BY <1>4, <4>4
        <4>6. r[i + 1].kind \in {"colon", "space", "open"}
          BY <3>1, <4>3 DEF Is
        <4>7. QED BY <1>3, <4>5, <4>6
      <3>5. QED BY <3>2, <3>3, <3>4 DEF x
    <2>6. Bad = {}
      <3> SUFFICES ASSUME Bad # {} PROVE FALSE
        OBVIOUS
      <3>1. PICK i \in Bad : \A j \in Bad : i <= j
        <4>1. Bad \in SUBSET Nat
          OBVIOUS
        <4> HIDE DEF Bad
        <4>2. QED BY <4>1, LeastNatural
      <3>2. i # p + 2
        <4>1. s + 1 + 1 \in K /\ g[s + 1 + 1] = g[s + 1] + 1
          BY <2>3, CopiedIs
        <4>2. s + 1 + 1 = At(p + 2) /\ p + 1 + 1 = p + 2
          BY <1>5
        <4>3. At(p + 2) \in K /\ g[At(p + 2)] = p + 2
          BY <2>3, <4>1, <4>2
        <4>4. QED BY <4>3
      <3>3. i - 1 \in p + 2..e /\ i - 1 < e /\ i - 1 \notin Bad
        BY <3>1, <3>2
      <3> DEFINE x == At(i - 1)
      <3>4. x \in K /\ g[x] = i - 1
        BY <3>3
      <3>5. x \in 1..Len(t) /\ ~Fires(class, t, x)
        BY <2>5, <3>3, <3>4
      <3>6. At(i) = x + 1
        BY <1>5
      <3> HIDE DEF x
      <3>7. x + 1 \in K /\ g[x + 1] = g[x] + 1
        BY <3>4, <3>5, CopiedIs
      <3>8. g[x + 1] = i
        BY <3>4, <3>7
      <3>9. QED BY <3>1, <3>6, <3>7, <3>8
    <2>7. \A i \in p + 2..e : At(i) \in 1..Len(t) /\ t[At(i)].kind = r[i].kind
      BY <2>5, <2>6
    <2>8. \A m \in s + 2..At(e) : m \in 1..Len(t) /\ t[m].kind \in kinds
      <3> TAKE m \in s + 2..At(e)
      <3>1. p + (m - s) \in p + 2..e /\ At(p + (m - s)) = m
        BY <1>2, <1>5
      <3>2. QED BY <1>4, <2>7, <3>1
    <2>9. At(e) \in s + 2..Len(t) /\ t[At(e)].kind \notin {"word", "bearer"}
      <3>1. e \in p + 2..e /\ e \in 1..Len(r)
        BY <1>2
      <3>2. r[e].kind \notin {"word", "bearer"}
        BY <1>2, <1>3, <3>1 DEF Is
      <3>3. At(e) \in 1..Len(t) /\ t[At(e)].kind = r[e].kind /\ At(e) >= s + 2
        BY <2>4, <2>7, <3>1
      <3>4. QED BY <1>5, <3>2, <3>3
    <2>10. BearerStarts(t, s)
      <3> DEFINE z == At(e)
      <3>1. z \in s + 2..Len(t) /\ t[z].kind \notin {"word", "bearer"}
            /\ \A m \in s + 2..z : m \in 1..Len(t) /\ t[m].kind \in kinds
        BY <2>8, <2>9
      <3> HIDE DEF z
      <3>2. (\A m \in s + 2..z : Is(t, m, kinds)) /\ ~Is(t, z, {"word", "bearer"})
        BY <1>3, <3>1 DEF Is
      <3>3. Is(t, s, {"bearer"}) /\ Is(t, s + 1, {"space"})
        BY <1>1, <1>3, <1>5, <2>1, <2>3 DEF Is
      <3>4. QED BY <3>1, <3>2, <3>3 DEF BearerStarts, kinds
    <2>11. QED BY <1>5, <1>7, <2>10, BearerIs
  <1>8. QED BY <1>6, <1>7

(* No rule opens a place for env_secret, and env_secret leaves none. *)
LEMMA PassEnv ==
  ASSUME NEW class \in Classes, NEW t \in Seq(Atom), NEW r \in Seq(Atom), NEW n, NEW K, NEW g,
         Laid(class, t, 1, r, n, K, g),
         class = "env_secret" \/ \A s \in 1..Len(t) : ~EnvStarts(t, s),
         NEW p \in 1..Len(r), EnvStarts(r, p)
  PROVE  FALSE
  <1>1. DOMAIN r = 1..Len(r) /\ DOMAIN t = 1..Len(t)
    OBVIOUS
  <1>2. /\ r[p].kind = "name" /\ p + 1 \in 1..Len(r) /\ r[p + 1].kind \in NonSpace
        /\ r[p + 1].kind # "open"
    BY <1>1 DEF EnvStarts, Is
  <1>3. p = 1 \/ r[p - 1].kind \in {"space", "colon", ";"}
    <2>1. p = 1 \/ Is(r, p - 1, {"space", "colon", ";"})
      BY DEF EnvStarts
    <2>2. QED BY <2>1 DEF Is
  <1>4. PICK s \in K :
          /\ s \in 1..Len(t)
          /\ \/ ~Fires(class, t, s) /\ p = g[s] /\ r[p] = t[s]
             \/ /\ Fires(class, t, s)
                /\ \E i \in 1..Len(Replacement(class)) :
                     p = g[s] + i - 1 /\ r[p] = Replacement(class)[i]
    BY OriginIs
  <1>5. CASE Fires(class, t, s)
    <2> DEFINE R == Replacement(class)
    <2>1. PICK i \in 1..Len(R) : p = g[s] + i - 1 /\ r[p] = R[i]
      BY <1>4, <1>5
    <2>2. i = 1 /\ R[1].kind = "name" /\ R[2].kind = "open"
      BY <1>2, <2>1, ReplacementKinds
    <2>3. p = g[s]
      BY <2>1, <2>2, StopsAre
    <2>4. R[1].kind \in {"authorization", "bearer", "name"} /\ s <= Len(t)
      BY <1>4, <2>2
    <2>5. r[p + 1] = R[2]
      BY <1>5, <2>3, <2>4, ReplacedAt
    <2>6. QED BY <1>2, <2>2, <2>5
  <1>6. CASE ~Fires(class, t, s)
    <2>1. p = g[s] /\ r[p] = t[s] /\ s <= Len(t)
      BY <1>4, <1>6
    <2>2. /\ s + 1 \in 1..Len(t)
          /\ \/ r[g[s] + 1].kind = t[s + 1].kind
             \/ r[g[s] + 1].kind = "open"
      BY <1>2, <1>6, <2>1, NextKind
    <2>3. t[s + 1].kind \in NonSpace /\ t[s + 1].kind # "open"
      BY <1>2, <2>1, <2>2
    <2>4. s = 1 \/ (s - 1 \in 1..Len(t) /\ t[s - 1].kind \in {"space", "colon", ";"})
      <3> SUFFICES ASSUME s # 1
                   PROVE  s - 1 \in 1..Len(t) /\ t[s - 1].kind \in {"space", "colon", ";"}
        OBVIOUS
      <3>1. s > 1
        BY <1>4
      <3>2. g[s] - 1 \in 1..Len(r) /\ s - 1 \in 1..Len(t)
            /\ (r[g[s] - 1] = t[s - 1] \/ r[g[s] - 1].kind \in {"close", "at"})
        BY <3>1, LastIs
      <3>3. r[p - 1].kind \in {"space", "colon", ";"}
        <4>1. p # 1
          BY <2>1, <3>2
        <4>2. QED BY <1>3, <4>1
      <3>4. QED BY <2>1, <3>2, <3>3
    <2>5. Is(t, s, {"name"}) /\ Is(t, s + 1, NonSpace) /\ ~Is(t, s + 1, {"open"})
      BY <1>1, <1>2, <1>4, <2>1, <2>2, <2>3 DEF Is
    <2>6. s = 1 \/ Is(t, s - 1, {"space", "colon", ";"})
      BY <1>1, <2>4 DEF Is
    <2>7. EnvStarts(t, s)
      BY <2>5, <2>6 DEF EnvStarts
    <2>8. QED BY <1>4, <1>6, <2>7, EnvIs
  <1>7. QED BY <1>5, <1>6

-----------------------------------------------------------------------------
(* How many there are.  Every atom that counts for something is the first of *)
(* what is written for an atom that counted for the same.                    *)

(* A set that another one covers is not larger. *)
LEMMA CountOnto ==
  ASSUME NEW P, NEW Q, IsFiniteSet(Q), NEW f, \A p \in P : \E q \in Q : f[q] = p
  PROVE  IsFiniteSet(P) /\ Cardinality(P) <= Cardinality(Q)
  <1> DEFINE T == {q \in Q : f[q] \in P}
             h == [q \in T |-> f[q]]
  <1>1. IsFiniteSet(T) /\ Cardinality(T) <= Cardinality(Q)
    BY FS_Subset
  <1>2. h \in Surjection(T, P)
    <2>1. h \in [T -> P]
      OBVIOUS
    <2>2. \A p \in P : \E q \in T : h[q] = p
      OBVIOUS
    <2>3. QED BY <2>1, <2>2 DEF Surjection
  <1>3. IsFiniteSet(P) /\ Cardinality(P) <= Cardinality(T)
    BY <1>1, <1>2, FS_Surjection
  <1>4. Cardinality(P) \in Nat /\ Cardinality(T) \in Nat /\ Cardinality(Q) \in Nat
    BY <1>1, <1>3, FS_CardinalityType
  <1>5. QED BY <1>1, <1>3, <1>4

(* A set that goes into another one is not larger. *)
LEMMA CountInto ==
  ASSUME NEW P, NEW Q, IsFiniteSet(Q), NEW f, \A p \in P : f[p] \in Q,
         \A p, q \in P : f[p] = f[q] => p = q
  PROVE  IsFiniteSet(P) /\ Cardinality(P) <= Cardinality(Q)
  <1> DEFINE h == [p \in P |-> f[p]]
  <1>1. h \in Injection(P, Q)
    <2>1. h \in [P -> Q]
      OBVIOUS
    <2>2. \A p, q \in DOMAIN h : h[p] = h[q] => p = q
      OBVIOUS
    <2>3. QED BY <2>1, <2>2 DEF Injection, IsInjective
  <1>2. QED BY <1>1, FS_Injection

Urls(t) == {n \in DOMAIN t : Is(t, n, {"://"})}

HttpWords(t) == {n \in DOMAIN t : Is(t, n, {"word", "authorization"}) /\ Is(t, n + 1, {"space"})}

Bearers(t) ==
  {n \in DOMAIN t :
     /\ Is(t, n, {"bearer"}) /\ Is(t, n + 1, {"space"}) /\ Is(t, n + 2, Words \cup {"name"})
     /\ t[n + 2] # Secret("github_token")}

Names(t) ==
  {n \in DOMAIN t :
     Is(t, n, {"name"}) /\ Is(t, n + 1, NonSpace \ {"secret", "close", "open"})}

SecretsOf(t, class) == {n \in DOMAIN t : t[n] = Secret(class)}

Closes(t, class) == {n \in DOMAIN t : Is(t, n, {"close"}) /\ t[n].class = class}

(* None of these is more than the line is long. *)
LEMMA CountsAreFinite ==
  ASSUME NEW t \in Seq(Atom), NEW class
  PROVE  /\ IsFiniteSet(Urls(t)) /\ IsFiniteSet(HttpWords(t)) /\ IsFiniteSet(Bearers(t))
         /\ IsFiniteSet(Names(t)) /\ IsFiniteSet(SecretsOf(t, class)) /\ IsFiniteSet(Closes(t, class))
         /\ \A P \in {Urls(t), HttpWords(t), Bearers(t), Names(t), SecretsOf(t, class)} :
              Cardinality(P) <= Len(t)
         /\ Cardinality(Urls(t)) \in Nat /\ Cardinality(HttpWords(t)) \in Nat
         /\ Cardinality(Bearers(t)) \in Nat /\ Cardinality(Names(t)) \in Nat
         /\ Cardinality(SecretsOf(t, class)) \in Nat /\ Cardinality(Closes(t, class)) \in Nat
  <1>1. IsFiniteSet(1..Len(t)) /\ Cardinality(1..Len(t)) = Len(t)
    <2>1. 1 \in Int /\ Len(t) \in Int /\ Len(t) \in Nat
      OBVIOUS
    <2>2. /\ IsFiniteSet(1..Len(t))
          /\ Cardinality(1..Len(t)) = IF 1 > Len(t) THEN 0 ELSE Len(t) - 1 + 1
      BY <2>1, FS_Interval
    <2>3. (IF 1 > Len(t) THEN 0 ELSE Len(t) - 1 + 1) = Len(t)
      BY <2>1
    <2>4. QED BY <2>2, <2>3
  <1>2. DOMAIN t = 1..Len(t)
    OBVIOUS
  <1>3. \A P \in SUBSET (1..Len(t)) :
          IsFiniteSet(P) /\ Cardinality(P) <= Len(t) /\ Cardinality(P) \in Nat
    BY <1>1, FS_Subset, FS_CardinalityType
  <1>4. Urls(t) \in SUBSET (1..Len(t)) /\ HttpWords(t) \in SUBSET (1..Len(t))
        /\ Bearers(t) \in SUBSET (1..Len(t)) /\ Names(t) \in SUBSET (1..Len(t))
        /\ SecretsOf(t, class) \in SUBSET (1..Len(t)) /\ Closes(t, class) \in SUBSET (1..Len(t))
    BY <1>2 DEF Urls, HttpWords, Bearers, Names, SecretsOf, Closes
  <1>5. QED BY <1>3, <1>4

(* No rule makes a place at which another could fire. *)
LEMMA PassCounts ==
  ASSUME NEW class \in Classes, NEW t \in Seq(Atom), NEW r \in Seq(Atom), NEW n, NEW K, NEW g,
         Laid(class, t, 1, r, n, K, g)
  PROVE  /\ Cardinality(Urls(r)) <= Cardinality(Urls(t))
         /\ Cardinality(HttpWords(r)) <= Cardinality(HttpWords(t))
         /\ Cardinality(Bearers(r)) <= Cardinality(Bearers(t))
         /\ Cardinality(Names(r)) <= Cardinality(Names(t))
         /\ \A c : Cardinality(SecretsOf(r, c)) <= Cardinality(SecretsOf(t, c))
  <1>1. DOMAIN r = 1..Len(r) /\ DOMAIN t = 1..Len(t)
    OBVIOUS
  <1> DEFINE From(s, p) ==
               /\ s \in 1..Len(t) /\ s <= Len(t)
               /\ \/ ~Fires(class, t, s) /\ p = g[s] /\ r[p] = t[s]
                  \/ /\ Fires(class, t, s)
                     /\ \E i \in 1..Len(Replacement(class)) :
                          p = g[s] + i - 1 /\ r[p] = Replacement(class)[i]
  <1>2. \A p \in 1..Len(r) : \E s \in K : From(s, p)
    BY OriginIs
  <1>3. ASSUME NEW p \in 1..Len(r), NEW s \in K, From(s, p), Fires(class, t, s)
        PROVE  /\ r[p].kind \notin {"secret", "word"}
               /\ r[p].kind \in {"://", "authorization", "bearer", "name"} => p = g[s]
               /\ r[p].kind \in {"authorization", "bearer", "name"} =>
                    Is(r, p + 1, {"colon", "space", "open"})
               /\ r[p].kind = "authorization" => r[p + 1].kind = "colon"
               /\ r[p].kind = "bearer" => r[p + 2].kind = "open"
               /\ r[p].kind = "name" => r[p + 1].kind = "open"
    <2> DEFINE R == Replacement(class)
    <2>1. PICK i \in 1..Len(R) : p = g[s] + i - 1 /\ r[p] = R[i]
      BY <1>3
    <2>2. r[p].kind \notin {"secret", "word"}
      BY <2>1, ReplacementKinds
    <2>3. r[p].kind \in {"://", "authorization", "bearer", "name"} => i = 1
      BY <2>1, ReplacementKinds
    <2>4. i = 1 => p = g[s]
      BY <2>1, StopsAre
    <2>5. r[p].kind \in {"authorization", "bearer", "name"} =>
            /\ r[p] = R[1] /\ p = g[s]
            /\ r[p + 1] = R[2] /\ r[p + 2] = R[3]
            /\ Is(r, p + 1, {"colon", "space", "open"})
      <3> SUFFICES ASSUME r[p].kind \in {"authorization", "bearer", "name"}
                   PROVE  /\ r[p] = R[1] /\ p = g[s]
                          /\ r[p + 1] = R[2] /\ r[p + 2] = R[3]
                          /\ Is(r, p + 1, {"colon", "space", "open"})
        OBVIOUS
      <3>1. r[p] = R[1] /\ p = g[s]
        BY <2>1, <2>3, <2>4
      <3>2. R[1].kind \in {"authorization", "bearer", "name"} /\ s <= Len(t)
        BY <1>3, <3>1
      <3>3. QED BY <1>3, <3>1, <3>2, ReplacedAt
    <2>6. 1 \in 1..Len(R)
      BY ReplacementKinds
    <2>7. /\ R[1].kind = "authorization" => R[2].kind = "colon"
          /\ R[1].kind = "bearer" => R[3].kind = "open"
          /\ R[1].kind = "name" => R[2].kind = "open"
      BY <2>6, ReplacementKinds
    <2>8. QED BY <2>2, <2>3, <2>4, <2>5, <2>7
  <1>4. ASSUME NEW p \in 1..Len(r), NEW s \in K, From(s, p), r[p].kind = "://"
        PROVE  g[s] = p /\ s \in Urls(t)
    <2>1. g[s] = p
      BY <1>3, <1>4
    <2>2. t[s].kind = "://"
      BY <1>4, <2>1, FirstIs
    <2>3. QED BY <1>1, <1>4, <2>1, <2>2 DEF Urls, Is
  <1>5. ASSUME NEW p \in HttpWords(r), NEW s \in K, From(s, p)
        PROVE  g[s] = p /\ s \in HttpWords(t)
    <2>1. p \in 1..Len(r) /\ r[p].kind \in {"word", "authorization"} /\ p + 1 \in 1..Len(r)
          /\ r[p + 1].kind = "space"
      BY <1>1 DEF HttpWords, Is
    <2>2. ~Fires(class, t, s)
      BY <1>3, <1>5, <2>1
    <2>3. g[s] = p /\ r[p] = t[s] /\ s <= Len(t)
      BY <1>5, <2>2
    <2>4. s + 1 \in 1..Len(t) /\ t[s + 1].kind = "space"
      BY <2>1, <2>2, <2>3, NextKind
    <2>5. QED BY <1>1, <1>5, <2>1, <2>3, <2>4 DEF HttpWords, Is
  <1>6. ASSUME NEW p \in Names(r), NEW s \in K, From(s, p)
        PROVE  g[s] = p /\ s \in Names(t)
    <2> DEFINE kinds == NonSpace \ {"secret", "close", "open"}
    <2>1. p \in 1..Len(r) /\ r[p].kind = "name" /\ p + 1 \in 1..Len(r) /\ r[p + 1].kind \in kinds
      BY <1>1 DEF Names, Is
    <2>2. r[p + 1].kind # "open"
      BY <2>1
    <2> HIDE DEF kinds
    <2>3. ~Fires(class, t, s)
      BY <1>3, <1>6, <2>1, <2>2
    <2>4. g[s] = p /\ r[p] = t[s] /\ s <= Len(t)
      BY <1>6, <2>3
    <2>5. s + 1 \in 1..Len(t) /\ t[s + 1].kind \in kinds
      BY <2>1, <2>2, <2>3, <2>4, NextKind
    <2>6. Is(t, s, {"name"}) /\ Is(t, s + 1, kinds) /\ s \in DOMAIN t
      BY <1>1, <1>6, <2>1, <2>4, <2>5 DEF Is
    <2>7. QED BY <2>4, <2>6 DEF Names, kinds
  <1>7. ASSUME NEW p \in Bearers(r), NEW s \in K, From(s, p)
        PROVE  g[s] = p /\ s \in Bearers(t)
    <2> DEFINE kinds == Words \cup {"name"}
    <2>1. /\ p \in 1..Len(r) /\ r[p].kind = "bearer"
          /\ p + 1 \in 1..Len(r) /\ r[p + 1].kind = "space"
          /\ p + 2 \in 1..Len(r) /\ r[p + 2].kind \in kinds
          /\ r[p + 2] # Secret("github_token")
      BY <1>1 DEF Bearers, Is
    <2>2. r[p + 2].kind # "open"
      BY <2>1 DEF Words
    <2> HIDE DEF kinds
    <2>3. ~Fires(class, t, s)
      BY <1>3, <1>7, <2>1, <2>2
    <2>4. g[s] = p /\ r[p] = t[s] /\ s <= Len(t)
      BY <1>7, <2>3
    <2>5. p \in Nat /\ s \in Nat /\ g[s] + 1 \in 1..Len(r)
      BY <2>1, <2>4, StopsAre
    <2>6. s + 1 \in K /\ g[s + 1] = g[s] + 1 /\ s + 1 \in 1..Len(t) /\ s + 1 <= Len(t)
      BY <2>3, <2>4, <2>5, NextKind
    <2>7. t[s + 1].kind = "space"
      BY SMTT(40), <2>1, <2>3, <2>4, <2>5, NextKind
    <2>8. PICK y \in K : y = s + 1
      BY <2>6
    <2>9. /\ g[y] = p + 1 /\ y \in 1..Len(t) /\ y <= Len(t) /\ t[y].kind = "space"
          /\ g[y] + 1 = p + 2 /\ y + 1 = s + 2
      BY <2>4, <2>5, <2>6, <2>7, <2>8
    <2>10. ~Fires(class, t, y)
      BY <2>9, FirstIs
    <2>11. g[y] + 1 \in 1..Len(r)
      BY <2>1, <2>9
    <2>12. /\ y + 1 \in K /\ g[y + 1] = g[y] + 1 /\ y + 1 \in 1..Len(t) /\ y + 1 <= Len(t)
           /\ (r[g[y] + 1].kind = t[y + 1].kind \/ r[g[y] + 1].kind = "open")
      BY <2>9, <2>10, <2>11, NextKind
    <2>13. s + 2 \in K /\ g[s + 2] = p + 2 /\ s + 2 \in 1..Len(t) /\ s + 2 <= Len(t)
           /\ t[s + 2].kind = r[p + 2].kind
      BY <2>2, <2>9, <2>12
    <2>14. t[s + 2].kind \in kinds
      BY <2>1, <2>13
    <2>15. t[s + 2] # Secret("github_token")
      <3> SUFFICES ASSUME t[s + 2] = Secret("github_token") PROVE FALSE
        OBVIOUS
      <3>1. r[g[s + 2]].kind = "secret"
        BY <2>13, AtomsAre
      <3>2. ~Fires(class, t, s + 2)
        BY <2>13, <3>1, FirstIs
      <3>3. r[g[s + 2]] = t[s + 2]
        BY <2>13, <3>2, CopiedIs
      <3>4. QED BY <2>1, <2>13, <3>3
    <2>16. /\ Is(t, s, {"bearer"}) /\ Is(t, s + 1, {"space"}) /\ Is(t, s + 2, kinds)
           /\ s \in DOMAIN t
      BY <1>1, <1>7, <2>1, <2>4, <2>6, <2>7, <2>13, <2>14 DEF Is
    <2>17. QED BY <2>4, <2>15, <2>16 DEF Bearers, kinds
  <1>8. \A p \in Urls(r) : \E s \in Urls(t) : g[s] = p
    BY <1>1, <1>2, <1>4 DEF Urls, Is
  <1>9. \A p \in HttpWords(r) : \E s \in HttpWords(t) : g[s] = p
    BY <1>1, <1>2, <1>5 DEF HttpWords
  <1>10. \A p \in Names(r) : \E s \in Names(t) : g[s] = p
    BY <1>1, <1>2, <1>6 DEF Names
  <1>11. \A p \in Bearers(r) : \E s \in Bearers(t) : g[s] = p
    BY <1>1, <1>2, <1>7 DEF Bearers
  <1>12. ASSUME NEW c PROVE \A p \in SecretsOf(r, c) : \E s \in SecretsOf(t, c) : g[s] = p
    <2> TAKE p \in SecretsOf(r, c)
    <2>1. p \in 1..Len(r) /\ r[p] = Secret(c) /\ r[p].kind = "secret"
      BY <1>1, AtomsAre DEF SecretsOf
    <2>2. PICK s \in K : s \in 1..Len(t) /\ g[s] = p /\ t[s] = r[p]
      BY <2>1, PassSecrets
    <2>3. QED BY <1>1, <2>1, <2>2 DEF SecretsOf
  <1>13. QED BY SMTT(40), <1>8, <1>9, <1>10, <1>11, <1>12, CountsAreFinite, CountOnto

(* A rule fires at finitely many places, as many as it counts. *)
LEMMA FiredIs ==
  ASSUME NEW class \in Classes, NEW t \in Seq(Atom), NEW r \in Seq(Atom), NEW n, NEW K, NEW g,
         Laid(class, t, 1, r, n, K, g)
  PROVE  /\ IsFiniteSet(Fired(class, t, K)) /\ n = Cardinality(Fired(class, t, K)) /\ n \in Nat
         /\ \A s \in Fired(class, t, K) :
              s \in K /\ s \in 1..Len(t) /\ s <= Len(t) /\ Fires(class, t, s)
         /\ Fired(class, t, K) = {} => \A s \in K : s <= Len(t) => ~Fires(class, t, s)
  <1>1. \A s \in Fired(class, t, K) : s \in K /\ s \in 1..Len(t) /\ s <= Len(t) /\ Fires(class, t, s)
    BY StopsAre DEF Fired
  <1>2. IsFiniteSet(1..Len(t))
    <2>1. 1 \in Int /\ Len(t) \in Int
      OBVIOUS
    <2>2. QED BY <2>1, FS_Interval
  <1>3. Fired(class, t, K) \in SUBSET (1..Len(t))
    BY <1>1
  <1>4. IsFiniteSet(Fired(class, t, K)) /\ Cardinality(Fired(class, t, K)) \in Nat
    BY <1>2, <1>3, FS_Subset, FS_CardinalityType
  <1>5. n = Cardinality(Fired(class, t, K))
    BY DEF Laid
  <1>6. Fired(class, t, K) = {} => \A s \in K : s <= Len(t) => ~Fires(class, t, s)
    BY DEF Fired
  <1>7. QED BY <1>1, <1>4, <1>5, <1>6

(* What a rule that fired nowhere leaves is what it was given. *)
LEMMA PassOfNone ==
  ASSUME NEW class \in Classes, NEW t \in Seq(Atom), NEW r \in Seq(Atom), NEW n, NEW K, NEW g,
         Laid(class, t, 1, r, n, K, g), n = 0
  PROVE  r = t
  <1>1. Fired(class, t, K) = {}
    BY FiredIs, FS_EmptySet
  <1>2. \A s \in K : s <= Len(t) => ~Fires(class, t, s)
    BY <1>1, FiredIs
  <1>3. QED BY <1>2, PassIsIdle

(* url_creds fires at a "://" each time. *)
LEMMA UrlsFired ==
  ASSUME NEW t \in Seq(Atom), NEW r \in Seq(Atom), NEW n, NEW K, NEW g,
         Laid("url_creds", t, 1, r, n, K, g)
  PROVE  n <= Cardinality(Urls(t))
  <1>1. "url_creds" \in Classes
    BY ClassesAre DEF Contextual
  <1>2. Fired("url_creds", t, K) \subseteq Urls(t)
    <2> SUFFICES ASSUME NEW s \in Fired("url_creds", t, K) PROVE s \in Urls(t)
      OBVIOUS
    <2>1. s \in 1..Len(t) /\ Fires("url_creds", t, s)
      BY <1>1, FiredIs
    <2>2. Is(t, s, {"://"})
      BY <2>1, UrlIs
    <2>3. QED BY <2>1, <2>2 DEF Urls
  <1>3. IsFiniteSet(Urls(t)) /\ Fired("url_creds", t, K) \in SUBSET Urls(t)
    BY <1>2, CountsAreFinite
  <1>4. Cardinality(Fired("url_creds", t, K)) <= Cardinality(Urls(t))
    BY <1>3, FS_Subset
  <1>5. QED BY <1>1, <1>4, FiredIs

(* http_auth takes the scheme that stands before its blank with each match, *)
(* and no two matches take the same.                                        *)
LEMMA HttpWordsFired ==
  ASSUME NEW t \in Seq(Atom), NEW r \in Seq(Atom), NEW n, NEW K, NEW g,
         Laid("http_auth", t, 1, r, n, K, g)
  PROVE  n <= Cardinality(HttpWords(t))
  <1> DEFINE P == Fired("http_auth", t, K)
             f == [s \in P |-> Word(t, s)]
  <1>1. "http_auth" \in Classes
    BY ClassesAre DEF Contextual
  <1>2. \A s \in P : s \in K /\ s \in 1..Len(t) /\ s <= Len(t) /\ Fires("http_auth", t, s)
    BY <1>1, FiredIs
  <1>3. \A s \in P : Word(t, s) \in HttpWords(t)
    <2> TAKE s \in P
    <2>1. HttpStarts(t, s)
      BY <1>2, HttpIs
    <2>2. Is(t, Word(t, s), {"word", "authorization"}) /\ Is(t, Word(t, s) + 1, {"space"})
      BY <2>1 DEF HttpStarts
    <2>3. QED BY <2>2 DEF HttpWords, Is
  <1>4. ASSUME NEW s \in P, NEW z \in P, s < z PROVE Word(t, s) < Word(t, z)
    <2>1. s \in 1..Len(t) /\ z \in 1..Len(t) /\ s \in K /\ z \in K /\ s \in Nat /\ z \in Nat
      BY <1>2
    <2>2. NextOf("http_auth", t, s) <= z
      BY <1>4, <2>1 DEF Laid
    <2>3. Fires("http_auth", t, s)
      BY <1>2
    <2>4. Word(t, s) + 2 <= EndOf("http_auth", t, s)
      BY <2>1, <2>3, HttpIs
    <2>5. EndOf("http_auth", t, s) \in Nat /\ NextOf("http_auth", t, s) = EndOf("http_auth", t, s) + 1
      BY <1>1, <2>1, <2>3, NextIs DEF NextOf
    <2>6. Word(t, s) \in Nat /\ Word(t, z) \in Nat /\ Colon(t, z) \in z + 1..z + 2
          /\ Word(t, z) \in Colon(t, z) + 1..Colon(t, z) + 2
      BY <2>1, WordIsAhead
    <2>7. z < Word(t, z)
      BY <2>1, <2>6
    <2>8. QED BY <2>1, <2>2, <2>4, <2>5, <2>6, <2>7
  <1>5. \A s \in P : Word(t, s) \in Nat /\ s \in Nat
    BY <1>2, WordIsAhead
  <1>6. \A s, z \in P : Word(t, s) = Word(t, z) => s = z
    <2> HIDE DEF P
    <2> TAKE s, z \in P
    <2> SUFFICES ASSUME Word(t, s) = Word(t, z), s # z PROVE FALSE
      OBVIOUS
    <2>1. s < z \/ z < s
      BY <1>5
    <2>2. Word(t, s) < Word(t, z) \/ Word(t, z) < Word(t, s)
      BY <1>4, <2>1
    <2>3. QED BY <1>5, <2>2
  <1>7. (\A s \in P : f[s] \in HttpWords(t)) /\ \A s, z \in P : f[s] = f[z] => s = z
    <2> HIDE DEF P
    <2>1. QED BY <1>3, <1>6
  <1>8. IsFiniteSet(HttpWords(t))
    BY CountsAreFinite
  <1>9. Cardinality(P) <= Cardinality(HttpWords(t))
    <2> HIDE DEF P, f
    <2>1. QED BY <1>7, <1>8, CountInto
  <1>10. QED BY <1>1, <1>9, FiredIs

(* bearer_token fires at a Bearer each time, and where no GitHub token is    *)
(* left, none follows.                                                      *)
LEMMA BearersFired ==
  ASSUME NEW t \in Seq(Atom), NEW r \in Seq(Atom), NEW n, NEW K, NEW g,
         Laid("bearer_token", t, 1, r, n, K, g), \A p \in 1..Len(t) : t[p] # Secret("github_token")
  PROVE  n <= Cardinality(Bearers(t))
  <1>1. "bearer_token" \in Classes
    BY ClassesAre DEF Contextual
  <1>2. Fired("bearer_token", t, K) \subseteq Bearers(t)
    <2> SUFFICES ASSUME NEW s \in Fired("bearer_token", t, K) PROVE s \in Bearers(t)
      OBVIOUS
    <2>1. s \in 1..Len(t) /\ Fires("bearer_token", t, s)
      BY <1>1, FiredIs
    <2>2. BearerStarts(t, s)
      BY <2>1, BearerIs
    <2>3. Is(t, s, {"bearer"}) /\ Is(t, s + 1, {"space"})
      BY <2>2 DEF BearerStarts
    <2>4. Is(t, s + 2, Words \cup {"name"})
      <3>1. PICK e \in s + 2..Len(t) : \A m \in s + 2..e : Is(t, m, Words \cup {"name"})
        BY <2>2 DEF BearerStarts
      <3>2. s + 2 \in s + 2..e
        BY <2>1
      <3>3. QED BY <3>1, <3>2
    <2>5. t[s + 2] # Secret("github_token")
      BY <2>4 DEF Is
    <2>6. QED BY <2>1, <2>3, <2>4, <2>5 DEF Bearers
  <1>3. IsFiniteSet(Bearers(t)) /\ Fired("bearer_token", t, K) \in SUBSET Bearers(t)
    BY <1>2, CountsAreFinite
  <1>4. Cardinality(Fired("bearer_token", t, K)) <= Cardinality(Bearers(t))
    BY <1>3, FS_Subset
  <1>5. QED BY <1>1, <1>4, FiredIs

(* env_secret fires at a name each time, and where no secret of a shape is   *)
(* left and every token is whole, its value begins with neither.            *)
LEMMA NamesFired ==
  ASSUME NEW t \in Seq(Atom), NEW r \in Seq(Atom), NEW n, NEW K, NEW g,
         Laid("env_secret", t, 1, r, n, K, g), \A p \in 1..Len(t) : t[p].kind # "secret",
         AreWhole(t)
  PROVE  n <= Cardinality(Names(t))
  <1>1. "env_secret" \in Classes
    BY ClassesAre DEF Contextual
  <1>2. Fired("env_secret", t, K) \subseteq Names(t)
    <2> SUFFICES ASSUME NEW s \in Fired("env_secret", t, K) PROVE s \in Names(t)
      OBVIOUS
    <2>1. s \in 1..Len(t) /\ Fires("env_secret", t, s)
      BY <1>1, FiredIs
    <2>2. EnvStarts(t, s)
      BY <2>1, EnvIs
    <2>3. Is(t, s, {"name"}) /\ Is(t, s + 1, NonSpace) /\ ~Is(t, s + 1, {"open"})
      BY <2>2 DEF EnvStarts
    <2>4. s + 1 \in 1..Len(t) /\ t[s + 1].kind \in NonSpace /\ t[s + 1].kind # "open"
          /\ t[s].kind = "name"
      BY <2>3 DEF Is
    <2>5. t[s + 1].kind # "close"
      <3> SUFFICES ASSUME t[s + 1].kind = "close" PROVE FALSE
        OBVIOUS
      <3>1. PICK y \in DOMAIN t : y = s + 1
        BY <2>4
      <3>2. Is(t, y, {"close"}) => y > 2 /\ Is(t, y - 2, {"open"}) /\ Is(t, y - 1, {"colon"})
        BY DEF AreWhole
      <3>3. y - 1 = s /\ Is(t, y, {"close"})
        BY <2>1, <2>4, <3>1 DEF Is
      <3>4. Is(t, s, {"colon"})
        BY <3>2, <3>3
      <3>5. QED BY <2>4, <3>4 DEF Is
    <2>6. t[s + 1].kind \in NonSpace \ {"secret", "close", "open"}
      BY <2>4, <2>5
    <2>7. Is(t, s + 1, NonSpace \ {"secret", "close", "open"})
      BY <2>4, <2>6 DEF Is
    <2>8. QED BY <2>1, <2>3, <2>7 DEF Names
  <1>3. IsFiniteSet(Names(t)) /\ Fired("env_secret", t, K) \in SUBSET Names(t)
    BY <1>2, CountsAreFinite
  <1>4. Cardinality(Fired("env_secret", t, K)) <= Cardinality(Names(t))
    BY <1>3, FS_Subset
  <1>5. QED BY <1>1, <1>4, FiredIs

(* A rule of a shape takes every secret of its class, and nothing else. *)
LEMMA SecretsFired ==
  ASSUME NEW class \in Classes \ Contextual, NEW t \in Seq(Atom), NEW r \in Seq(Atom), NEW n,
         NEW K, NEW g, Laid(class, t, 1, r, n, K, g)
  PROVE  n = Cardinality(SecretsOf(t, class))
  <1>1. class \in Classes
    OBVIOUS
  <1>2. ASSUME NEW s \in Fired(class, t, K) PROVE s \in SecretsOf(t, class)
    <2>1. s \in 1..Len(t) /\ Fires(class, t, s)
      BY <1>1, FiredIs
    <2>2. t[s] = Secret(class)
      BY <2>1, ShapeIs
    <2>3. QED BY <2>1, <2>2 DEF SecretsOf
  <1>3. ASSUME NEW p \in SecretsOf(t, class) PROVE p \in Fired(class, t, K)
    <2>1. p \in 1..Len(t) /\ t[p] = Secret(class)
      BY DEF SecretsOf
    <2>2. PICK s \in K : s <= p /\ p < NextOf(class, t, s)
      BY <2>1 DEF Laid
    <2>3. s \in 1..Len(t) + 1
      BY <1>1, StopsAre
    <2>4. s \in 1..Len(t)
      BY <2>1, <2>2, <2>3
    <2>5. NextOf(class, t, s) = s + 1
      BY ShapeIs DEF NextOf
    <2>6. p = s
      BY <2>1, <2>2, <2>4, <2>5
    <2>7. Fires(class, t, p) /\ p \in K /\ p <= Len(t)
      BY <2>1, <2>2, <2>6, ShapeIs
    <2>8. QED BY <2>7 DEF Fired
  <1>4. Fired(class, t, K) = SecretsOf(t, class)
    BY <1>2, <1>3
  <1>5. QED BY <1>1, <1>4, FiredIs

(* A match of a shape, or of a bearer token, runs over no token's end. *)
LEMMA CloseStays ==
  ASSUME NEW class \in Classes \ {"url_creds", "http_auth", "env_secret"}, NEW t \in Seq(Atom),
         NEW r \in Seq(Atom), NEW n, NEW K, NEW g, Laid(class, t, 1, r, n, K, g),
         NEW p \in 1..Len(t), t[p].kind = "close"
  PROVE  p \in K /\ g[p] \in 1..Len(r) /\ r[g[p]] = t[p]
  <1>1. class \in Classes
    OBVIOUS
  <1>2. PICK s \in K : s <= p /\ p < NextOf(class, t, s)
    BY DEF Laid
  <1>3. s \in 1..Len(t) + 1
    BY <1>1, StopsAre
  <1>4. s \in 1..Len(t) /\ s <= Len(t)
    BY <1>2, <1>3
  <1>5. ASSUME Fires(class, t, s), class = "bearer_token" PROVE FALSE
    <2>1. /\ s + 2 <= EndOf(class, t, s) /\ EndOf(class, t, s) <= Len(t)
          /\ \A m \in s + 2..EndOf(class, t, s) : Is(t, m, Words \cup {"name"})
      BY <1>4, <1>5, BearerIs
    <2>2. BearerStarts(t, s)
      BY <1>4, <1>5, BearerIs
    <2>3. Is(t, s, {"bearer"}) /\ Is(t, s + 1, {"space"})
      BY <2>2 DEF BearerStarts
    <2>4. EndOf(class, t, s) \in s..Len(t) /\ NextOf(class, t, s) = EndOf(class, t, s) + 1
      BY <1>1, <1>4, <1>5, NextIs DEF NextOf
    <2>5. p = s \/ p = s + 1 \/ p \in s + 2..EndOf(class, t, s)
      BY <1>2, <1>4, <2>4
    <2>6. Is(t, p, {"bearer"}) \/ Is(t, p, {"space"}) \/ Is(t, p, Words \cup {"name"})
      BY <2>1, <2>3, <2>5
    <2>7. t[p].kind = "bearer" \/ t[p].kind = "space" \/ t[p].kind \in Words \cup {"name"}
      BY <2>6 DEF Is
    <2>8. QED BY <2>7 DEF Words
  <1>6. ASSUME Fires(class, t, s), class # "bearer_token" PROVE FALSE
    <2>1. class \in Classes \ Contextual
      BY <1>6 DEF Contextual
    <2>2. t[s] = Secret(class) /\ EndOf(class, t, s) = s
      BY <1>6, <2>1, ShapeIs
    <2>3. NextOf(class, t, s) = s + 1
      BY <1>6, <2>2 DEF NextOf
    <2>4. p = s
      BY <1>2, <1>4, <2>3
    <2>5. QED BY <2>2, <2>4, AtomsAre
  <1>7. ~Fires(class, t, s)
    BY <1>5, <1>6
  <1>8. NextOf(class, t, s) = s + 1
    BY <1>7 DEF NextOf
  <1>9. p = s
    BY <1>2, <1>4, <1>8
  <1>10. g[s] \in 1..Len(r) /\ r[g[s]] = t[s]
    BY <1>1, <1>4, <1>7, StopsAre, CopiedIs
  <1>11. QED BY <1>2, <1>9, <1>10

(* What a rule does to the tokens that are there: it makes none but of its   *)
(* own class, one at each match, and loses none unless its matches may run  *)
(* over one.                                                                *)
LEMMA PassCloses ==
  ASSUME NEW class \in Classes, NEW t \in Seq(Atom), NEW r \in Seq(Atom), NEW n, NEW K, NEW g,
         Laid(class, t, 1, r, n, K, g), NEW c
  PROVE  /\ c # class => Cardinality(Closes(r, c)) <= Cardinality(Closes(t, c))
         /\ c # class /\ class \notin {"url_creds", "http_auth", "env_secret"} =>
              Cardinality(Closes(t, c)) <= Cardinality(Closes(r, c))
         /\ c = class /\ Closes(t, c) = {} => Cardinality(Closes(r, c)) = n
  <1>1. DOMAIN r = 1..Len(r) /\ DOMAIN t = 1..Len(t)
    OBVIOUS
  <1>2. IsFiniteSet(Closes(t, c)) /\ IsFiniteSet(Closes(r, c))
        /\ Cardinality(Closes(t, c)) \in Nat /\ Cardinality(Closes(r, c)) \in Nat
    BY CountsAreFinite
  <1>3. ASSUME NEW p \in Closes(r, c)
        PROVE  \/ \E s \in Closes(t, c) : g[s] = p
               \/ c = class /\ \E s \in Fired(class, t, K) : p = g[s] + (Lead(class) + 2)
    <2>1. p \in 1..Len(r) /\ r[p].kind = "close" /\ r[p].class = c
      BY <1>1 DEF Closes, Is
    <2>2. PICK s \in K :
            /\ s \in 1..Len(t)
            /\ \/ ~Fires(class, t, s) /\ p = g[s] /\ r[p] = t[s]
               \/ /\ Fires(class, t, s)
                  /\ \E i \in 1..Len(Replacement(class)) :
                       p = g[s] + i - 1 /\ r[p] = Replacement(class)[i]
      BY <2>1, OriginIs
    <2>3. CASE ~Fires(class, t, s)
      <3>1. g[s] = p /\ t[s].kind = "close" /\ t[s].class = c
        BY <2>1, <2>2, <2>3
      <3>2. s \in Closes(t, c)
        BY <1>1, <2>2, <3>1 DEF Closes, Is
      <3>3. QED BY <3>1, <3>2
    <2>4. CASE Fires(class, t, s)
      <3> DEFINE R == Replacement(class)
      <3>1. PICK i \in 1..Len(R) : p = g[s] + i - 1 /\ r[p] = R[i]
        BY <2>2, <2>4
      <3>2. i = Lead(class) + 3 /\ R[i] = CloseOf(class) /\ Lead(class) \in Nat
        BY <2>1, <3>1, ReplacementKinds
      <3>3. r[p].class = class
        BY <3>1, <3>2, AtomsAre
      <3>4. g[s] \in Nat
        BY <2>2, StopsAre
      <3>5. p = g[s] + (Lead(class) + 2)
        BY <3>1, <3>2, <3>4
      <3>6. s \in Fired(class, t, K)
        BY <2>2, <2>4 DEF Fired
      <3>7. QED BY <2>1, <3>3, <3>5, <3>6
    <2>5. QED BY <2>3, <2>4
  <1>4. ASSUME c # class PROVE Cardinality(Closes(r, c)) <= Cardinality(Closes(t, c))
    <2>1. \A p \in Closes(r, c) : \E s \in Closes(t, c) : g[s] = p
      BY <1>3, <1>4
    <2>2. QED BY <1>2, <2>1, CountOnto
  <1>5. ASSUME c # class, class \notin {"url_creds", "http_auth", "env_secret"}
        PROVE  Cardinality(Closes(t, c)) <= Cardinality(Closes(r, c))
    <2>1. ASSUME NEW p \in Closes(t, c) PROVE p \in K /\ g[p] \in Closes(r, c)
      <3>1. p \in 1..Len(t) /\ t[p].kind = "close" /\ t[p].class = c
        BY <1>1 DEF Closes, Is
      <3>2. class \in Classes \ {"url_creds", "http_auth", "env_secret"}
        BY <1>5
      <3>3. p \in K /\ g[p] \in 1..Len(r) /\ r[g[p]] = t[p]
        BY <3>1, <3>2, CloseStays
      <3>4. QED BY <1>1, <3>1, <3>3 DEF Closes, Is
    <2>2. \A p, q \in Closes(t, c) : g[p] = g[q] => p = q
      BY <2>1, StopsAre
    <2>3. \A p \in Closes(t, c) : g[p] \in Closes(r, c)
      BY <2>1
    <2>4. QED BY <1>2, <2>2, <2>3, CountInto
  <1>6. ASSUME c = class, Closes(t, c) = {} PROVE Cardinality(Closes(r, c)) = n
    <2> DEFINE P == Fired(class, t, K)
               f == [s \in P |-> g[s] + (Lead(class) + 2)]
    <2>1. IsFiniteSet(P) /\ n = Cardinality(P) /\ n \in Nat
          /\ \A s \in P : s \in K /\ s <= Len(t) /\ Fires(class, t, s)
      BY FiredIs
    <2>2. \A p \in Closes(r, c) : \E s \in P : f[s] = p
      BY <1>3, <1>6
    <2>3. ASSUME NEW s \in P PROVE g[s] + (Lead(class) + 2) \in Closes(r, c) /\ g[s] \in Nat
      <3> DEFINE R == Replacement(class)
      <3> HIDE DEF P
      <3>1. s \in K /\ s <= Len(t) /\ Fires(class, t, s) /\ g[s] \in Nat
        BY <2>1, StopsAre
      <3>2. \A i \in 1..Len(R) : g[s] + i - 1 \in 1..Len(r) /\ r[g[s] + i - 1] = R[i]
        BY <3>1, ReplacedIs
      <3>3. Lead(class) \in Nat /\ Lead(class) + 3 \in 1..Len(R) /\ R[Lead(class) + 3] = CloseOf(class)
        BY ReplacementKinds
      <3>4. PICK i \in 1..Len(R) : i = Lead(class) + 3 /\ R[i] = CloseOf(class)
        BY <3>3
      <3>5. g[s] + i - 1 = g[s] + (Lead(class) + 2)
        BY <3>1, <3>3, <3>4
      <3>6. g[s] + (Lead(class) + 2) \in 1..Len(r) /\ r[g[s] + (Lead(class) + 2)] = CloseOf(class)
        BY <3>2, <3>4, <3>5
      <3>7. QED BY <1>1, <1>6, <3>1, <3>6, AtomsAre DEF Closes, Is
    <2>4. \A s \in P : f[s] \in Closes(r, c)
      BY <2>3
    <2>5. \A s, z \in P : f[s] = f[z] => s = z
      <3> TAKE s, z \in P
      <3> HIDE DEF P
      <3>1. Lead(class) \in Nat /\ g[s] \in Nat /\ g[z] \in Nat /\ s \in K /\ z \in K
        BY <2>1, <2>3, ReplacementKinds
      <3>2. \A a, b, d \in Nat : a + (d + 2) = b + (d + 2) => a = b
        OBVIOUS
      <3>3. g[s] + (Lead(class) + 2) = g[z] + (Lead(class) + 2) => g[s] = g[z]
        BY <3>1, <3>2
      <3>4. g[s] = g[z] => s = z
        BY <3>1, StopsAre
      <3>5. QED BY <3>3, <3>4
    <2> HIDE DEF P, f
    <2>6. Cardinality(Closes(r, c)) <= Cardinality(P)
      BY <2>1, <2>2, CountOnto
    <2>7. Cardinality(P) <= Cardinality(Closes(r, c))
      BY <1>2, <2>4, <2>5, CountInto
    <2>8. QED BY <1>2, <2>1, <2>6, <2>7
  <1>7. QED BY <1>4, <1>5, <1>6

-----------------------------------------------------------------------------
(* The rules, in order: what each is given is what the one before it left. *)

Unmasked(t) == [text |-> t, counts |-> [class \in Classes |-> 0]]

Chain(t, after) ==
  /\ after[0] = Unmasked(t)
  /\ \A k \in 1..13 : after[k] = Apply(Rules[k], after[k - 1])

(* The equations of mask_counted have a solution: by induction over the      *)
(* rules.                                                                    *)
LEMMA ChainExists ==
  ASSUME NEW t
  PROVE  \E after : Chain(t, after)
  <1> DEFINE Upto(d, f) == /\ f = [k \in 0..13 |-> f[k]] /\ f[0] = Unmasked(t)
                           /\ \A k \in 1..13 : k <= d => f[k] = Apply(Rules[k], f[k - 1])
             Ok(d) == \E f : Upto(d, f)
             Bad == {d \in Nat : d <= 13 /\ ~Ok(d)}
  <1>1. SUFFICES ASSUME Bad # {} PROVE FALSE
    <2>1. Ok(13)
      BY <1>1
    <2>2. PICK f : Upto(13, f)
      BY <2>1
    <2>3. QED BY <2>2 DEF Chain
  <1>2. PICK d \in Bad : \A e \in Bad : d <= e
    <2>1. Bad \in SUBSET Nat
      OBVIOUS
    <2> HIDE DEF Bad
    <2>2. QED BY <1>1, <2>1, LeastNatural
  <1>3. d # 0
    <2> DEFINE f == [k \in 0..13 |-> Unmasked(t)]
    <2>1. Upto(0, f)
      OBVIOUS
    <2>2. Ok(0)
      BY <2>1
    <2>3. QED BY <2>2
  <1>4. d \in 1..13 /\ d - 1 \in Nat /\ d - 1 <= 13 /\ d - 1 \notin Bad
    BY <1>2, <1>3
  <1>5. PICK f : Upto(d - 1, f)
    BY <1>4
  <1> DEFINE g == [k \in 0..13 |-> IF k = d THEN Apply(Rules[d], f[d - 1]) ELSE f[k]]
  <1>6. g = [k \in 0..13 |-> g[k]] /\ g[0] = Unmasked(t)
    BY <1>4, <1>5
  <1>7. ASSUME NEW k \in 1..13, k <= d PROVE g[k] = Apply(Rules[k], g[k - 1])
    <2>1. g[k - 1] = f[k - 1]
      BY <1>4, <1>7
    <2>2. CASE k = d
      <3>1. g[k] = Apply(Rules[k], f[k - 1])
        BY <2>2
      <3>2. QED BY <2>1, <3>1
    <2>3. CASE k # d
      <3>1. k <= d - 1
        BY <1>4, <1>7, <2>3
      <3>2. f[k] = Apply(Rules[k], f[k - 1])
        BY <1>5, <3>1
      <3>3. g[k] = f[k]
        BY <2>3
      <3>4. QED BY <2>1, <3>2, <3>3
    <2>4. QED BY <2>2, <2>3
  <1> HIDE DEF g
  <1>8. Upto(d, g)
    BY <1>6, <1>7
  <1>9. Ok(d)
    BY <1>8
  <1>10. QED BY <1>2, <1>9

(* mask_counted is the end of such a chain. *)
LEMMA MaskCountedIs ==
  ASSUME NEW t
  PROVE  \E after : Chain(t, after) /\ mask_counted(t) = after[13]
  <1> DEFINE F(h) == [k \in 0..Len(Rules) |->
                        IF k = 0 THEN [text |-> t, counts |-> [class \in Classes |-> 0]]
                        ELSE Apply(Rules[k], h[k - 1])]
             h == CHOOSE h : h = F(h)
  <1>1. PICK a : Chain(t, a)
    BY ChainExists
  <1>2. Len(Rules) = 13
    BY RulesAre
  <1> DEFINE f == [k \in 0..13 |-> a[k]]
  <1>3. ASSUME NEW k \in 0..13
        PROVE  f[k] = IF k = 0 THEN [text |-> t, counts |-> [class \in Classes |-> 0]]
                      ELSE Apply(Rules[k], f[k - 1])
    <2>1. CASE k = 0
      BY <1>1, <2>1 DEF Chain, Unmasked
    <2>2. CASE k # 0
      <3>1. k \in 1..13 /\ k - 1 \in 0..13
        BY <2>2
      <3>2. a[k] = Apply(Rules[k], a[k - 1])
        BY <1>1, <3>1 DEF Chain
      <3>3. f[k] = a[k] /\ f[k - 1] = a[k - 1]
        BY <3>1
      <3> HIDE DEF f
      <3>4. QED BY <2>2, <3>2, <3>3
    <2>3. QED BY <2>1, <2>2
  <1>4. f = [k \in 0..13 |-> f[k]]
    OBVIOUS
  <1> HIDE DEF f
  <1>5. f = F(f)
    BY <1>2, <1>3, <1>4
  <1>6. h = F(h)
    BY <1>5
  <1> HIDE DEF h
  <1>7. h[0] = Unmasked(t)
    BY <1>2, <1>6 DEF Unmasked
  <1>8. \A k \in 1..13 : h[k] = Apply(Rules[k], h[k - 1])
    BY <1>2, <1>6
  <1>9. mask_counted(t) = h[13]
    BY <1>2 DEF mask_counted, h, F
  <1>10. QED BY <1>7, <1>8, <1>9 DEF Chain

(* What is left once every rule has run: no secret that a shape tells, and   *)
(* no place where a rule but url_creds could fire.                          *)
Still(t) ==
  \A p \in 1..Len(t) :
    /\ t[p].kind # "secret"
    /\ ~HttpStarts(t, p) /\ ~BearerStarts(t, p) /\ ~EnvStarts(t, p)

(* The rules that look around, and the others. *)
LEMMA ClassCases ==
  ASSUME NEW class \in Classes
  PROVE  \/ class = "url_creds" \/ class = "http_auth" \/ class = "bearer_token"
         \/ class = "env_secret" \/ class \in Classes \ Contextual
  BY DEF Contextual

(* Then a rule other than url_creds changes nothing. *)
LEMMA StillIsIdle ==
  ASSUME NEW t \in Seq(Atom), Still(t), NEW class \in Classes, class # "url_creds"
  PROVE  Subn(class, t).text = t
  <1> DEFINE m == Subn(class, t)
  <1>1. m.text \in Seq(Atom) /\ \E K, g : Laid(class, t, 1, m.text, m.n, K, g)
    BY SubnIsLaid
  <1>2. PICK K, g : Laid(class, t, 1, m.text, m.n, K, g)
    BY <1>1
  <1> HIDE DEF m
  <1>3. ASSUME NEW s \in K, s <= Len(t), Fires(class, t, s) PROVE FALSE
    <2>1. s \in 1..Len(t)
      BY <1>1, <1>2, <1>3, StopsAre
    <2>2. t[s].kind # "secret" /\ ~HttpStarts(t, s) /\ ~BearerStarts(t, s) /\ ~EnvStarts(t, s)
      BY <2>1 DEF Still
    <2>3. CASE class \in Classes \ Contextual
      BY <1>3, <2>2, <2>3, ShapeIs, AtomsAre
    <2>4. CASE class = "http_auth"
      BY <1>3, <2>1, <2>2, <2>4, HttpIs
    <2>5. CASE class = "bearer_token"
      BY <1>3, <2>1, <2>2, <2>5, BearerIs
    <2>6. CASE class = "env_secret"
      BY <1>3, <2>1, <2>2, <2>6, EnvIs
    <2>7. QED BY <2>3, <2>4, <2>5, <2>6, ClassCases
  <1>4. m.text = t
    BY <1>1, <1>2, <1>3, PassIsIdle
  <1>5. QED BY <1>4 DEF m

(* A rule that finds it so leaves it so. *)
LEMMA StillStays ==
  ASSUME NEW t \in Seq(Atom), Still(t), NEW class \in Classes
  PROVE  Subn(class, t).text \in Seq(Atom) /\ Still(Subn(class, t).text)
  <1> DEFINE m == Subn(class, t)
  <1>1. m.text \in Seq(Atom) /\ \E K, g : Laid(class, t, 1, m.text, m.n, K, g)
    BY SubnIsLaid
  <1>2. PICK K, g : Laid(class, t, 1, m.text, m.n, K, g)
    BY <1>1
  <1> HIDE DEF m
  <1>3. /\ \A s \in 1..Len(t) : t[s].kind # "secret"
        /\ \A s \in 1..Len(t) : ~HttpStarts(t, s)
        /\ \A s \in 1..Len(t) : ~BearerStarts(t, s)
        /\ \A s \in 1..Len(t) : ~EnvStarts(t, s)
    BY DEF Still
  <1>4. ASSUME NEW p \in 1..Len(m.text)
        PROVE  /\ m.text[p].kind # "secret" /\ ~HttpStarts(m.text, p)
               /\ ~BearerStarts(m.text, p) /\ ~EnvStarts(m.text, p)
    <2>1. m.text[p].kind # "secret"
      BY <1>1, <1>2, <1>3, PassSecrets
    <2>2. ~HttpStarts(m.text, p)
      BY <1>1, <1>2, <1>3, PassHttp
    <2>3. ~BearerStarts(m.text, p)
      BY <1>1, <1>2, <1>3, PassBearer
    <2>4. ~EnvStarts(m.text, p)
      BY <1>1, <1>2, <1>3, PassEnv
    <2>5. QED BY <2>1, <2>2, <2>3, <2>4
  <1>5. Still(m.text)
    BY <1>4 DEF Still
  <1>6. QED BY <1>1, <1>5 DEF m

(* Masking what is masked (_mask_response): of the thirteen rules url_creds  *)
(* alone may fire again.                                                     *)
THEOREM SecondPass ==
  ASSUME NEW t \in Seq(Atom), Still(t)
  PROVE  mask(t) = Subn("url_creds", t).text
  <1> DEFINE u == Subn("url_creds", t).text
  <1>1. "url_creds" \in Classes
    BY ClassesAre DEF Contextual
  <1>2. u \in Seq(Atom) /\ Still(u)
    BY <1>1, StillStays
  <1>3. PICK after : Chain(t, after) /\ mask_counted(t) = after[13]
    BY MaskCountedIs
  <1> DEFINE Left(k) == IF k < 3 THEN t ELSE u
             Bad == {k \in Nat : k <= 13 /\ after[k].text # Left(k)}
  <1>4. SUFFICES ASSUME Bad # {} PROVE FALSE
    <2>1. after[13].text = u
      BY <1>4
    <2>2. QED BY <1>3, <2>1 DEF mask
  <1>5. PICK k \in Bad : \A j \in Bad : k <= j
    <2>1. Bad \in SUBSET Nat
      OBVIOUS
    <2> HIDE DEF Bad
    <2>2. QED BY <1>4, <2>1, LeastNatural
  <1>6. k # 0
    <2>1. after[0].text = t
      BY <1>3 DEF Chain, Unmasked
    <2>2. Left(0) = t
      OBVIOUS
    <2>3. QED BY <1>5, <2>1, <2>2
  <1>7. k \in 1..13 /\ k - 1 \in Nat /\ k - 1 \notin Bad /\ k - 1 <= 13
    BY <1>5, <1>6
  <1>8. after[k - 1].text = Left(k - 1)
    BY <1>7
  <1>9. after[k].text = Subn(Rules[k], Left(k - 1)).text
    <2>1. after[k] = Apply(Rules[k], after[k - 1])
      BY <1>3, <1>7 DEF Chain
    <2>2. QED BY <1>8, <2>1 DEF Apply
  <1> HIDE DEF u
  <1>10. Left(k - 1) \in Seq(Atom) /\ Still(Left(k - 1))
    BY <1>2
  <1>11. CASE k = 3
    <2>1. Rules[k] = "url_creds" /\ Left(k - 1) = t /\ Left(k) = u
      BY <1>11, RulesAre
    <2>2. after[k].text = u
      BY <1>9, <2>1 DEF u
    <2>3. QED BY <1>5, <2>1, <2>2
  <1>12. CASE k # 3
    <2>1. Rules[k] \in Classes /\ Rules[k] # "url_creds"
      BY <1>7, <1>12, RulesAre
    <2>2. after[k].text = Left(k - 1)
      <3> HIDE DEF Left
      <3>1. QED BY <1>9, <1>10, <2>1, StillIsIdle
    <2>3. Left(k - 1) = Left(k)
      BY <1>7, <1>12
    <2>4. QED BY <1>5, <2>2, <2>3
  <1>13. QED BY <1>11, <1>12

-----------------------------------------------------------------------------
(* The invariant of the rules: what is known of a line once k have run.      *)

IsLine(l) ==
  /\ l \in Seq(Atom)
  /\ \A p \in 1..Len(l) :
       l[p].kind \notin {"open", "close"} /\ (l[p].kind = "secret" => l[p].class \in Shapes)

(* No secret is left of a class whose rule has run, and a rule that has run  *)
(* fires nowhere: what the rules after it do opens no new match for it.     *)
Cleared(k, t) ==
  /\ AreWhole(t)
  /\ \A p \in 1..Len(t) :
       t[p].kind = "secret" => t[p].class \in Shapes /\ \A j \in 1..k : Rules[j] # t[p].class
  /\ k >= 4 => \A p \in 1..Len(t) : ~HttpStarts(t, p)
  /\ k >= 5 => \A p \in 1..Len(t) : ~BearerStarts(t, p)
  /\ k >= 13 => \A p \in 1..Len(t) : ~EnvStarts(t, p)

(* No rule opens a place where another could fire. *)
Bounded(l, k, t) ==
  /\ k = 0 => t = l
  /\ Cardinality(Urls(t)) <= Cardinality(Urls(l))
  /\ Cardinality(HttpWords(t)) <= Cardinality(HttpWords(l))
  /\ Cardinality(Bearers(t)) <= Cardinality(Bearers(l))
  /\ Cardinality(Names(t)) <= Cardinality(Names(l))
  /\ \A c : Cardinality(SecretsOf(t, c)) <= Cardinality(SecretsOf(l, c))

(* How often a rule can have fired. *)
Counted(l, k, n) ==
  /\ n \in [Classes -> 0..Len(l)]
  /\ \A j \in 1..13 : j > k => n[Rules[j]] = 0
  /\ n["http_auth"] <= Cardinality(HttpWords(l))
  /\ n["bearer_token"] <= Cardinality(Bearers(l))
  /\ n["env_secret"] <= Cardinality(Names(l))
  /\ k >= 1 => n["github_token"] = Cardinality(SecretsOf(l, "github_token"))

Covering == {"url_creds", "http_auth", "env_secret"}

(* A token that is not there any more is within what a later rule took. *)
Traced(k, t, n) ==
  /\ \A j \in 1..13 : j > k => Closes(t, Rules[j]) = {}
  /\ \A j \in 1..k :
       /\ Cardinality(Closes(t, Rules[j])) <= n[Rules[j]]
       /\ Cardinality(Closes(t, Rules[j])) # n[Rules[j]] =>
            \E i \in 1..k : j < i /\ n[Rules[i]] > 0 /\ Rules[i] \in Covering

(* What is assumed of the lines and the shapes. *)
LEMMA ShapesAre ==
  /\ Shapes \subseteq Classes \ Contextual
  /\ \A l \in Lines : IsLine(l)
  BY SanitizerAssumption DEF Contextual, IsLine

(* A rule that has run has nothing left, and nothing comes back. *)
LEMMA ClearedStep ==
  ASSUME NEW k \in 1..13, NEW t \in Seq(Atom), NEW r \in Seq(Atom), NEW n, NEW K, NEW g,
         Laid(Rules[k], t, 1, r, n, K, g), Cleared(k - 1, t)
  PROVE  Cleared(k, r)
  <1> DEFINE class == Rules[k]
  <1>1. class \in Classes
    BY RulesAre
  <1>2. k = 4 => class = "http_auth"
    BY RulesAre
  <1>3. k = 5 => class = "bearer_token"
    BY RulesAre
  <1>4. k = 13 => class = "env_secret"
    BY RulesAre
  <1>5. Laid(class, t, 1, r, n, K, g)
    OBVIOUS
  <1>6. ASSUME NEW j \in 1..k, j # k PROVE j \in 1..k - 1
    BY <1>6
  <1>7. class = Rules[k]
    OBVIOUS
  <1> HIDE DEF class
  <1>8. AreWhole(r)
    BY <1>1, <1>5, PassIsWhole DEF Cleared
  <1>9. ASSUME NEW p \in 1..Len(r), r[p].kind = "secret"
        PROVE  r[p].class \in Shapes /\ \A j \in 1..k : Rules[j] # r[p].class
    <2>1. PICK s \in 1..Len(t) : t[s] = r[p]
      BY <1>1, <1>5, <1>9, PassSecrets
    <2>2. t[s].class \in Shapes /\ \A j \in 1..k - 1 : Rules[j] # t[s].class
      BY <1>9, <2>1 DEF Cleared
    <2>3. r[p].class \in Classes \ Contextual
      BY <2>1, <2>2, ShapesAre
    <2>4. r[p] \in Atom /\ r[p] = Secret(r[p].class)
      BY <1>9, AtomsAre
    <2>5. class \notin Contextual => r[p] # Secret(class)
      BY <1>1, <1>5, <1>9, PassSecrets
    <2>6. class # r[p].class
      BY <2>3, <2>4, <2>5
    <2>7. \A j \in 1..k : Rules[j] # r[p].class
      BY <1>6, <1>7, <2>1, <2>2, <2>6
    <2>8. QED BY <2>1, <2>2, <2>7
  <1>10. k >= 4 => \A p \in 1..Len(r) : ~HttpStarts(r, p)
    <2> SUFFICES ASSUME k >= 4 PROVE \A p \in 1..Len(r) : ~HttpStarts(r, p)
      OBVIOUS
    <2>1. k = 4 \/ k - 1 >= 4
      OBVIOUS
    <2>2. class = "http_auth" \/ \A s \in 1..Len(t) : ~HttpStarts(t, s)
      BY <1>2, <2>1 DEF Cleared
    <2>3. QED BY <1>1, <1>5, <2>2, PassHttp
  <1>11. k >= 5 => \A p \in 1..Len(r) : ~BearerStarts(r, p)
    <2> SUFFICES ASSUME k >= 5 PROVE \A p \in 1..Len(r) : ~BearerStarts(r, p)
      OBVIOUS
    <2>1. k = 5 \/ k - 1 >= 5
      OBVIOUS
    <2>2. class = "bearer_token" \/ \A s \in 1..Len(t) : ~BearerStarts(t, s)
      BY <1>3, <2>1 DEF Cleared
    <2>3. QED BY <1>1, <1>5, <2>2, PassBearer
  <1>12. k >= 13 => \A p \in 1..Len(r) : ~EnvStarts(r, p)
    <2> SUFFICES ASSUME k >= 13 PROVE \A p \in 1..Len(r) : ~EnvStarts(r, p)
      OBVIOUS
    <2>1. class = "env_secret"
      BY <1>4
    <2>2. QED BY <1>1, <1>5, <2>1, PassEnv
  <1>13. QED BY <1>8, <1>9, <1>10, <1>11, <1>12 DEF Cleared

(* No rule adds a place. *)
LEMMA BoundedStep ==
  ASSUME NEW l \in Seq(Atom), NEW k \in 1..13, NEW t \in Seq(Atom), NEW r \in Seq(Atom), NEW n,
         NEW K, NEW g, Laid(Rules[k], t, 1, r, n, K, g), Bounded(l, k - 1, t)
  PROVE  Bounded(l, k, r)
  <1>1. Rules[k] \in Classes
    BY RulesAre
  <1>2. /\ Cardinality(Urls(r)) <= Cardinality(Urls(t))
        /\ Cardinality(HttpWords(r)) <= Cardinality(HttpWords(t))
        /\ Cardinality(Bearers(r)) <= Cardinality(Bearers(t))
        /\ Cardinality(Names(r)) <= Cardinality(Names(t))
        /\ \A c : Cardinality(SecretsOf(r, c)) <= Cardinality(SecretsOf(t, c))
    BY <1>1, PassCounts
  <1>3. \A u \in Seq(Atom) : \A c :
          /\ Cardinality(Urls(u)) \in Nat /\ Cardinality(HttpWords(u)) \in Nat
          /\ Cardinality(Bearers(u)) \in Nat /\ Cardinality(Names(u)) \in Nat
          /\ Cardinality(SecretsOf(u, c)) \in Nat
    BY CountsAreFinite
  <1>4. /\ Cardinality(Urls(t)) <= Cardinality(Urls(l))
        /\ Cardinality(HttpWords(t)) <= Cardinality(HttpWords(l))
        /\ Cardinality(Bearers(t)) <= Cardinality(Bearers(l))
        /\ Cardinality(Names(t)) <= Cardinality(Names(l))
        /\ \A c : Cardinality(SecretsOf(t, c)) <= Cardinality(SecretsOf(l, c))
    BY DEF Bounded
  <1>5. \A a, b, c \in Nat : a <= b /\ b <= c => a <= c
    OBVIOUS
  <1>6. Cardinality(Urls(r)) <= Cardinality(Urls(l))
    BY <1>2, <1>3, <1>4, <1>5
  <1>7. Cardinality(HttpWords(r)) <= Cardinality(HttpWords(l))
    BY <1>2, <1>3, <1>4, <1>5
  <1>8. Cardinality(Bearers(r)) <= Cardinality(Bearers(l))
    BY <1>2, <1>3, <1>4, <1>5
  <1>9. Cardinality(Names(r)) <= Cardinality(Names(l))
    BY <1>2, <1>3, <1>4, <1>5
  <1>10. ASSUME NEW c PROVE Cardinality(SecretsOf(r, c)) <= Cardinality(SecretsOf(l, c))
    BY <1>2, <1>3, <1>4, <1>5
  <1>11. k # 0
    OBVIOUS
  <1>12. QED BY <1>6, <1>7, <1>8, <1>9, <1>10, <1>11 DEF Bounded

(* A rule fires at most where the line it was first given would let it. *)
LEMMA FiredBound ==
  ASSUME NEW l \in Seq(Atom), NEW k \in 1..13, NEW t \in Seq(Atom), NEW r \in Seq(Atom), NEW n,
         NEW K, NEW g, Laid(Rules[k], t, 1, r, n, K, g), Cleared(k - 1, t), Bounded(l, k - 1, t),
         NEW class, class = Rules[k]
  PROVE  /\ n \in 0..Len(l)
         /\ class = "http_auth" => n <= Cardinality(HttpWords(l))
         /\ class = "bearer_token" => n <= Cardinality(Bearers(l))
         /\ class = "env_secret" => n <= Cardinality(Names(l))
         /\ k = 1 => n = Cardinality(SecretsOf(l, "github_token"))
  <1>1. class \in Classes /\ Laid(class, t, 1, r, n, K, g)
    BY RulesAre
  <1>2. n \in Nat
    BY <1>1, FiredIs
  <1>3. \A c :
          /\ Cardinality(Urls(l)) \in Nat /\ Cardinality(HttpWords(l)) \in Nat
          /\ Cardinality(Bearers(l)) \in Nat /\ Cardinality(Names(l)) \in Nat
          /\ Cardinality(SecretsOf(l, c)) \in Nat
    BY CountsAreFinite
  <1>4. \A c :
          /\ Cardinality(Urls(t)) \in Nat /\ Cardinality(HttpWords(t)) \in Nat
          /\ Cardinality(Bearers(t)) \in Nat /\ Cardinality(Names(t)) \in Nat
          /\ Cardinality(SecretsOf(t, c)) \in Nat
    BY CountsAreFinite
  <1>5. \A c :
          /\ Cardinality(Urls(l)) <= Len(l) /\ Cardinality(HttpWords(l)) <= Len(l)
          /\ Cardinality(Bearers(l)) <= Len(l) /\ Cardinality(Names(l)) <= Len(l)
          /\ Cardinality(SecretsOf(l, c)) <= Len(l)
    BY CountsAreFinite
  <1>6. /\ Cardinality(Urls(t)) <= Cardinality(Urls(l))
        /\ Cardinality(HttpWords(t)) <= Cardinality(HttpWords(l))
        /\ Cardinality(Bearers(t)) <= Cardinality(Bearers(l))
        /\ Cardinality(Names(t)) <= Cardinality(Names(l))
        /\ \A c : Cardinality(SecretsOf(t, c)) <= Cardinality(SecretsOf(l, c))
    BY DEF Bounded
  <1>7. \A a, b, c \in Nat : a <= b /\ b <= c => a <= c
    OBVIOUS
  <1>8. Len(l) \in Nat
    OBVIOUS
  <1>9. ASSUME class = "url_creds" PROVE n <= Cardinality(Urls(l))
    <2>1. n <= Cardinality(Urls(t))
      BY <1>1, <1>9, UrlsFired
    <2>2. QED BY <1>2, <1>3, <1>4, <1>6, <1>7, <2>1
  <1>10. ASSUME class = "http_auth" PROVE n <= Cardinality(HttpWords(l))
    <2>1. n <= Cardinality(HttpWords(t))
      BY <1>1, <1>10, HttpWordsFired
    <2>2. QED BY <1>2, <1>3, <1>4, <1>6, <1>7, <2>1
  <1>11. ASSUME class = "bearer_token" PROVE n <= Cardinality(Bearers(l))
    <2>1. k = 5
      <3>1. 5 \in 1..13 /\ Rules[5] = "bearer_token"
        BY RulesAre
      <3>2. Rules[k] = Rules[5]
        BY <1>11, <3>1
      <3>3. QED BY <3>1, <3>2, RulesAre
    <2>2. ASSUME NEW p \in 1..Len(t), t[p] = Secret("github_token") PROVE FALSE
      <3>1. t[p].kind = "secret" /\ t[p].class = "github_token"
        BY <2>2, AtomsAre
      <3>2. 1 \in 1..k - 1
        BY <2>1
      <3>3. Rules[1] # t[p].class
        BY <3>1, <3>2 DEF Cleared
      <3>4. QED BY <3>1, <3>3, RulesAre
    <2>3. n <= Cardinality(Bearers(t))
      BY <1>1, <1>11, <2>2, BearersFired
    <2>4. QED BY <1>2, <1>3, <1>4, <1>6, <1>7, <2>3
  <1>12. ASSUME class = "env_secret" PROVE n <= Cardinality(Names(l))
    <2>1. k = 13
      <3>1. 13 \in 1..13 /\ Rules[13] = "env_secret"
        BY RulesAre
      <3>2. Rules[k] = Rules[13]
        BY <1>12, <3>1
      <3>3. QED BY <3>1, <3>2, RulesAre
    <2>2. ASSUME NEW p \in 1..Len(t), t[p].kind = "secret" PROVE FALSE
      <3>1. t[p].class \in Shapes /\ \A j \in 1..k - 1 : Rules[j] # t[p].class
        BY <2>2 DEF Cleared
      <3>2. t[p].class \in Classes \ Contextual
        BY <3>1, ShapesAre
      <3>3. PICK j \in 1..13 : Rules[j] = t[p].class
        BY <3>2, RulesAre
      <3>4. j # 13
        BY <3>2, <3>3, RulesAre DEF Contextual
      <3>5. j \in 1..k - 1
        BY <2>1, <3>4
      <3>6. QED BY <3>1, <3>3, <3>5
    <2>3. n <= Cardinality(Names(t))
      BY <1>1, <1>12, <2>2, NamesFired DEF Cleared
    <2>4. QED BY <1>2, <1>3, <1>4, <1>6, <1>7, <2>3
  <1>13. ASSUME class \in Classes \ Contextual
         PROVE  n = Cardinality(SecretsOf(t, class)) /\ n <= Cardinality(SecretsOf(l, class))
    <2>1. n = Cardinality(SecretsOf(t, class))
      BY <1>1, <1>13, SecretsFired
    <2>2. QED BY <1>6, <2>1
  <1>14. k = 1 => n = Cardinality(SecretsOf(l, "github_token"))
    <2> SUFFICES ASSUME k = 1 PROVE n = Cardinality(SecretsOf(l, "github_token"))
      OBVIOUS
    <2>1. class = "github_token" /\ t = l
      BY RulesAre DEF Bounded
    <2>2. class \in Classes \ Contextual
      BY <1>1, <2>1 DEF Contextual
    <2>3. QED BY <1>13, <2>1, <2>2
  <1>15. n <= Len(l)
    <2>1. CASE class = "url_creds"
      BY <1>2, <1>3, <1>5, <1>7, <1>8, <1>9, <2>1
    <2>2. CASE class = "http_auth"
      BY <1>2, <1>3, <1>5, <1>7, <1>8, <1>10, <2>2
    <2>3. CASE class = "bearer_token"
      BY <1>2, <1>3, <1>5, <1>7, <1>8, <1>11, <2>3
    <2>4. CASE class = "env_secret"
      BY <1>2, <1>3, <1>5, <1>7, <1>8, <1>12, <2>4
    <2>5. CASE class \in Classes \ Contextual
      BY <1>2, <1>3, <1>5, <1>7, <1>8, <1>13, <2>5
    <2>6. QED BY <1>1, <2>1, <2>2, <2>3, <2>4, <2>5, ClassCases
  <1>16. n \in 0..Len(l)
    BY <1>2, <1>8, <1>15
  <1>17. QED BY <1>10, <1>11, <1>12, <1>14, <1>16

(* So the counts stay within what the line has. *)
LEMMA CountedStep ==
  ASSUME NEW l \in Seq(Atom), NEW k \in 1..13, NEW t \in Seq(Atom), NEW r \in Seq(Atom), NEW n,
         NEW K, NEW g, Laid(Rules[k], t, 1, r, n, K, g), Cleared(k - 1, t), Bounded(l, k - 1, t),
         NEW c, Counted(l, k - 1, c), NEW d, d = [c EXCEPT ![Rules[k]] = n]
  PROVE  Counted(l, k, d)
  <1> DEFINE class == Rules[k]
  <1>1. /\ class \in Classes
        /\ n \in 0..Len(l)
        /\ class = "http_auth" => n <= Cardinality(HttpWords(l))
        /\ class = "bearer_token" => n <= Cardinality(Bearers(l))
        /\ class = "env_secret" => n <= Cardinality(Names(l))
        /\ k = 1 => n = Cardinality(SecretsOf(l, "github_token"))
    BY SMTT(40), FiredBound, RulesAre
  <1>2. class = Rules[k] /\ d = [c EXCEPT ![class] = n]
    OBVIOUS
  <1> HIDE DEF class
  <1>3. c \in [Classes -> 0..Len(l)]
    BY DEF Counted
  <1>4. d \in [Classes -> 0..Len(l)]
    BY <1>1, <1>2, <1>3
  <1>5. \A other \in Classes : other # class => d[other] = c[other]
    BY <1>2, <1>3
  <1>6. d[class] = n
    BY <1>1, <1>2, <1>3
  <1>7. {"http_auth", "bearer_token", "env_secret", "github_token"} \subseteq Classes
    BY ClassesAre DEF Contextual
  <1>8. \A j \in 1..13 : j > k => d[Rules[j]] = 0
    <2> SUFFICES ASSUME NEW j \in 1..13, j > k PROVE d[Rules[j]] = 0
      OBVIOUS
    <2>1. j > k - 1 /\ j # k
      OBVIOUS
    <2>2. c[Rules[j]] = 0
      BY <2>1 DEF Counted
    <2>3. Rules[j] \in Classes /\ Rules[j] # class
      BY <1>2, <2>1, RulesAre
    <2>4. QED BY <1>5, <2>2, <2>3
  <1>9. d["http_auth"] <= Cardinality(HttpWords(l))
    BY <1>1, <1>5, <1>6, <1>7 DEF Counted
  <1>10. d["bearer_token"] <= Cardinality(Bearers(l))
    BY <1>1, <1>5, <1>6, <1>7 DEF Counted
  <1>11. d["env_secret"] <= Cardinality(Names(l))
    BY <1>1, <1>5, <1>6, <1>7 DEF Counted
  <1>12. d["github_token"] = Cardinality(SecretsOf(l, "github_token"))
    <2>1. CASE k = 1
      <3>1. class = "github_token"
        BY <1>2, <2>1, RulesAre
      <3>2. QED BY <1>1, <1>6, <2>1, <3>1
    <2>2. CASE k # 1
      <3>1. class # "github_token" /\ k - 1 >= 1
        BY <1>2, <2>2, RulesAre
      <3>2. c["github_token"] = Cardinality(SecretsOf(l, "github_token"))
        BY <3>1 DEF Counted
      <3>3. QED BY <1>5, <1>7, <3>1, <3>2
    <2>3. QED BY <2>1, <2>2
  <1>13. QED BY <1>4, <1>8, <1>9, <1>10, <1>11, <1>12 DEF Counted

(* A rule makes the tokens of its class, and what it covers is told by its   *)
(* own count.                                                                *)
LEMMA TracedStep ==
  ASSUME NEW l \in Seq(Atom), NEW k \in 1..13, NEW t \in Seq(Atom), NEW r \in Seq(Atom), NEW n,
         NEW K, NEW g, Laid(Rules[k], t, 1, r, n, K, g),
         NEW c, Counted(l, k - 1, c), Traced(k - 1, t, c), NEW d, d = [c EXCEPT ![Rules[k]] = n]
  PROVE  Traced(k, r, d)
  <1> DEFINE class == Rules[k]
  <1>1. class \in Classes /\ Laid(class, t, 1, r, n, K, g) /\ d = [c EXCEPT ![class] = n]
    BY RulesAre
  <1>2. class = Rules[k]
    OBVIOUS
  <1> HIDE DEF class
  <1>3. c \in [Classes -> 0..Len(l)]
    BY DEF Counted
  <1>4. \A other \in Classes : other # class => d[other] = c[other]
    BY <1>1, <1>3
  <1>5. d[class] = n
    BY <1>1, <1>3
  <1>6. n \in Nat
    BY <1>1, FiredIs
  <1>7. \A j \in 1..13 : Rules[j] \in Classes /\ (j # k => Rules[j] # class)
    BY <1>2, RulesAre
  <1>8. \A x : /\ IsFiniteSet(Closes(t, x)) /\ Cardinality(Closes(t, x)) \in Nat
               /\ IsFiniteSet(Closes(r, x)) /\ Cardinality(Closes(r, x)) \in Nat
    BY CountsAreFinite
  <1>9. \A x : x # class => Cardinality(Closes(r, x)) <= Cardinality(Closes(t, x))
    BY <1>1, PassCloses
  <1>10. \A x : x # class /\ class \notin Covering => Cardinality(Closes(t, x)) <= Cardinality(Closes(r, x))
    BY <1>1, PassCloses DEF Covering
  <1>11. Closes(t, class) = {} => Cardinality(Closes(r, class)) = n
    BY <1>1, PassCloses
  <1>12. ASSUME NEW j \in 1..13, j > k PROVE Closes(r, Rules[j]) = {}
    <2>1. j > k - 1 /\ j # k
      BY <1>12
    <2>2. Closes(t, Rules[j]) = {}
      BY <2>1 DEF Traced
    <2>3. Cardinality(Closes(t, Rules[j])) = 0
      BY <2>2, FS_EmptySet
    <2>4. Cardinality(Closes(r, Rules[j])) <= Cardinality(Closes(t, Rules[j]))
      BY <1>7, <1>9, <2>1
    <2>5. Cardinality(Closes(r, Rules[j])) = 0
      BY <1>8, <2>3, <2>4
    <2>6. QED BY <1>8, <2>5, FS_EmptySet
  <1>13. Cardinality(Closes(r, class)) = d[class]
    <2>1. k \in 1..13 /\ k > k - 1
      OBVIOUS
    <2>2. Closes(t, class) = {}
      BY <1>2, <2>1 DEF Traced
    <2>3. QED BY <1>5, <1>11, <2>2
  <1>14. ASSUME NEW j \in 1..k, j # k
         PROVE  /\ Cardinality(Closes(r, Rules[j])) <= d[Rules[j]]
                /\ Cardinality(Closes(r, Rules[j])) # d[Rules[j]] =>
                     \E i \in 1..k : j < i /\ d[Rules[i]] > 0 /\ Rules[i] \in Covering
    <2>1. j \in 1..k - 1 /\ j \in 1..13 /\ j < k
      BY <1>14
    <2>2. Rules[j] \in Classes /\ Rules[j] # class /\ d[Rules[j]] = c[Rules[j]] /\ d[Rules[j]] \in Nat
      <3>1. Rules[j] \in Classes /\ Rules[j] # class
        BY <1>7, <1>14, <2>1
      <3>2. d[Rules[j]] = c[Rules[j]]
        BY <1>4, <3>1
      <3>3. c[Rules[j]] \in 0..Len(l)
        BY <1>3, <3>1
      <3>4. c[Rules[j]] \in Nat
        BY <3>3
      <3>5. QED BY <3>1, <3>2, <3>4
    <2> DEFINE a == Cardinality(Closes(r, Rules[j]))
               b == Cardinality(Closes(t, Rules[j]))
    <2>3. a \in Nat /\ b \in Nat /\ a <= b /\ b <= d[Rules[j]]
      BY <1>8, <1>9, <2>1, <2>2 DEF Traced
    <2>4. ASSUME b # d[Rules[j]]
          PROVE  \E i \in 1..k : j < i /\ d[Rules[i]] > 0 /\ Rules[i] \in Covering
      <3>1. PICK i \in 1..k - 1 : j < i /\ c[Rules[i]] > 0 /\ Rules[i] \in Covering
        BY <2>1, <2>2, <2>4 DEF Traced
      <3>2. i \in 1..k /\ i \in 1..13 /\ i # k
        OBVIOUS
      <3>3. d[Rules[i]] = c[Rules[i]]
        BY <1>4, <1>7, <3>2
      <3>4. QED BY <3>1, <3>2, <3>3
    <2>5. ASSUME b = d[Rules[j]], a # d[Rules[j]]
          PROVE  \E i \in 1..k : j < i /\ d[Rules[i]] > 0 /\ Rules[i] \in Covering
      <3>1. class \in Covering
        BY <1>10, <2>2, <2>3, <2>5
      <3>2. n # 0
        <4> SUFFICES ASSUME n = 0 PROVE FALSE
          OBVIOUS
        <4>1. r = t
          BY <1>1, PassOfNone
        <4>2. QED BY <2>5, <4>1
      <3>3. d[Rules[k]] > 0
        BY <1>2, <1>5, <1>6, <3>2
      <3>4. k \in 1..k
        OBVIOUS
      <3>5. QED BY <1>2, <2>1, <3>1, <3>3, <3>4
    <2> HIDE DEF a, b
    <2>6. a <= d[Rules[j]]
      BY <2>2, <2>3
    <2>7. a # d[Rules[j]] => \E i \in 1..k : j < i /\ d[Rules[i]] > 0 /\ Rules[i] \in Covering
      BY <2>4, <2>5
    <2>8. QED BY <2>6, <2>7 DEF a
  <1>15. Cardinality(Closes(r, Rules[k])) <= d[Rules[k]] /\ Cardinality(Closes(r, Rules[k])) = d[Rules[k]]
    BY <1>2, <1>5, <1>6, <1>13
  <1>16. QED BY <1>12, <1>14, <1>15 DEF Traced

(* One rule preserves all of it. *)
LEMMA RuleStep ==
  ASSUME NEW l \in Seq(Atom), NEW k \in 1..13, NEW m, m.text \in Seq(Atom), Cleared(k - 1, m.text),
         Bounded(l, k - 1, m.text), Counted(l, k - 1, m.counts), Traced(k - 1, m.text, m.counts),
         NEW w, w = Apply(Rules[k], m)
  PROVE  /\ w.text \in Seq(Atom) /\ Cleared(k, w.text) /\ Bounded(l, k, w.text)
         /\ Counted(l, k, w.counts) /\ Traced(k, w.text, w.counts)
  <1> DEFINE s == Subn(Rules[k], m.text)
  <1>1. s.text \in Seq(Atom) /\ \E K, g : Laid(Rules[k], m.text, 1, s.text, s.n, K, g)
    BY RulesAre, SubnIsLaid
  <1>2. PICK K, g : Laid(Rules[k], m.text, 1, s.text, s.n, K, g)
    BY <1>1
  <1>3. w.text = s.text /\ w.counts = [m.counts EXCEPT ![Rules[k]] = s.n]
    BY DEF Apply
  <1> HIDE DEF s
  <1>4. Cleared(k, s.text)
    BY <1>1, <1>2, ClearedStep
  <1>5. Bounded(l, k, s.text)
    BY <1>1, <1>2, BoundedStep
  <1>6. Counted(l, k, w.counts)
    BY <1>1, <1>2, <1>3, CountedStep
  <1>7. Traced(k, s.text, w.counts)
    <2>1. PICK t, r, c, d, n : /\ t = m.text /\ r = s.text /\ c = m.counts /\ d = w.counts /\ n = s.n
      OBVIOUS
    <2>2. t \in Seq(Atom) /\ r \in Seq(Atom) /\ Laid(Rules[k], t, 1, r, n, K, g)
      BY <1>1, <1>2, <2>1
    <2>3. Counted(l, k - 1, c) /\ Traced(k - 1, t, c) /\ d = [c EXCEPT ![Rules[k]] = n]
      BY <1>3, <2>1
    <2>4. Traced(k, r, d)
      BY <2>2, <2>3, TracedStep
    <2>5. QED BY <2>1, <2>4
  <1>8. QED BY <1>1, <1>3, <1>4, <1>5, <1>6, <1>7

(* It holds of a line as it is read. *)
LEMMA LineIs ==
  ASSUME NEW l, IsLine(l), NEW n, n = [class \in Classes |-> 0]
  PROVE  Cleared(0, l) /\ Bounded(l, 0, l) /\ Counted(l, 0, n) /\ Traced(0, l, n)
  <1>1. l \in Seq(Atom) /\ DOMAIN l = 1..Len(l) /\ Len(l) \in Nat
    BY DEF IsLine
  <1>2. \A p \in 1..Len(l) : l[p].kind # "open" /\ l[p].kind # "close"
    BY DEF IsLine
  <1>3. AreWhole(l)
    BY <1>1, <1>2 DEF AreWhole, Is
  <1>4. \A p \in 1..Len(l) : l[p].kind = "secret" => l[p].class \in Shapes
    BY DEF IsLine
  <1>5. Cleared(0, l)
    <2>1. 1..0 = {}
      OBVIOUS
    <2>2. QED BY <1>3, <1>4, <2>1 DEF Cleared
  <1>6. \A c :
          /\ Cardinality(Urls(l)) \in Nat /\ Cardinality(HttpWords(l)) \in Nat
          /\ Cardinality(Bearers(l)) \in Nat /\ Cardinality(Names(l)) \in Nat
          /\ Cardinality(SecretsOf(l, c)) \in Nat
    BY <1>1, CountsAreFinite
  <1>7. Bounded(l, 0, l)
    <2>1. \A a \in Nat : a <= a
      OBVIOUS
    <2>2. QED BY <1>6, <2>1 DEF Bounded
  <1>8. n \in [Classes -> 0..Len(l)]
    BY <1>1
  <1>9. \A class \in Classes : n[class] = 0
    OBVIOUS
  <1>10. {"http_auth", "bearer_token", "env_secret"} \subseteq Classes
    BY ClassesAre DEF Contextual
  <1>11. Counted(l, 0, n)
    <2>1. n["http_auth"] <= Cardinality(HttpWords(l))
      BY <1>6, <1>9, <1>10
    <2>2. n["bearer_token"] <= Cardinality(Bearers(l))
      BY <1>6, <1>9, <1>10
    <2>3. n["env_secret"] <= Cardinality(Names(l))
      BY <1>6, <1>9, <1>10
    <2>4. \A j \in 1..13 : n[Rules[j]] = 0
      BY <1>9, RulesAre
    <2>5. QED BY <1>8, <2>1, <2>2, <2>3, <2>4 DEF Counted
  <1>12. \A c : Closes(l, c) = {}
    BY <1>1, <1>2 DEF Closes, Is
  <1>13. Traced(0, l, n)
    <2>1. 1..0 = {}
      OBVIOUS
    <2>2. QED BY <1>12, <2>1 DEF Traced
  <1>14. QED BY <1>5, <1>7, <1>11, <1>13

(* What mask_counted makes of any line: all of it holds once the thirteen    *)
(* rules have run (normalize).                                               *)
THEOREM FirstPass ==
  ASSUME NEW l, IsLine(l), NEW m, m = mask_counted(l)
  PROVE  /\ m.text \in Seq(Atom) /\ Cleared(13, m.text)
         /\ Counted(l, 13, m.counts) /\ Traced(13, m.text, m.counts)
  <1>1. l \in Seq(Atom)
    BY DEF IsLine
  <1>2. PICK after : Chain(l, after) /\ m = after[13]
    BY MaskCountedIs
  <1> DEFINE Known(k, w) == /\ w.text \in Seq(Atom) /\ Cleared(k, w.text) /\ Bounded(l, k, w.text)
                            /\ Counted(l, k, w.counts) /\ Traced(k, w.text, w.counts)
             Bad == {k \in Nat : k <= 13 /\ ~Known(k, after[k])}
  <1>3. SUFFICES ASSUME Bad # {} PROVE FALSE
    <2>1. Known(13, after[13])
      BY <1>3
    <2>2. QED BY <1>2, <2>1
  <1>4. PICK k \in Bad : \A j \in Bad : k <= j
    <2>1. Bad \in SUBSET Nat
      OBVIOUS
    <2> HIDE DEF Bad
    <2>2. QED BY <1>3, <2>1, LeastNatural
  <1>5. k # 0
    <2>1. after[0].text = l /\ after[0].counts = [class \in Classes |-> 0]
      BY <1>2 DEF Chain, Unmasked
    <2>2. Known(0, after[0])
      BY <1>1, <2>1, LineIs
    <2> HIDE DEF Known
    <2>3. QED BY <1>4, <2>2
  <1>6. k \in 1..13 /\ k - 1 \in Nat /\ k - 1 \notin Bad /\ k - 1 <= 13
    BY <1>4, <1>5
  <1>7. Known(k - 1, after[k - 1])
    <2> HIDE DEF Known
    <2>1. QED BY <1>6
  <1>8. after[k] = Apply(Rules[k], after[k - 1])
    BY <1>2, <1>6 DEF Chain
  <1>9. Known(k, after[k])
    BY <1>1, <1>6, <1>7, <1>8, RuleStep
  <1> HIDE DEF Known
  <1>10. QED BY <1>4, <1>9

(* Once every rule has run, only a URL can fire one. *)
LEMMA ClearedIsStill ==
  ASSUME NEW t \in Seq(Atom), Cleared(13, t)
  PROVE  Still(t)
  <1>1. ASSUME NEW p \in 1..Len(t), t[p].kind = "secret" PROVE FALSE
    <2>1. t[p].class \in Shapes /\ \A j \in 1..13 : Rules[j] # t[p].class
      BY <1>1 DEF Cleared
    <2>2. t[p].class \in Classes
      BY <2>1, ShapesAre
    <2>3. QED BY <2>1, <2>2, RulesAre
  <1>2. \A p \in 1..Len(t) : ~HttpStarts(t, p)
    BY DEF Cleared
  <1>3. \A p \in 1..Len(t) : ~BearerStarts(t, p)
    BY DEF Cleared
  <1>4. \A p \in 1..Len(t) : ~EnvStarts(t, p)
    BY DEF Cleared
  <1>5. QED BY <1>1, <1>2, <1>3, <1>4 DEF Still

-----------------------------------------------------------------------------
(* The program: a line is masked once when the log is read, and once more in *)
(* an answer.                                                               *)

SanInv ==
  /\ line \in Lines /\ phase \in {"read", "masked", "answered"}
  /\ phase = "read" => text = << >> /\ counts = [class \in Classes |-> 0]
  /\ phase # "read" => text = mask_counted(line).text /\ counts = mask_counted(line).counts
  /\ phase # "answered" => answer = << >>
  /\ phase = "answered" => answer = mask(text)

(* The invariant holds before the line is masked. *)
LEMMA InitSanInv == Init => SanInv
  BY DEF Init, SanInv

(* Both maskings preserve it. *)
LEMMA NextSanInv == SanInv /\ [Next]_vars => SanInv'
  <1> SUFFICES ASSUME SanInv, [Next]_vars PROVE SanInv'
    OBVIOUS
  <1>1. CASE MaskLine
    BY <1>1 DEF SanInv, MaskLine
  <1>2. CASE MaskResponse
    BY <1>2 DEF SanInv, MaskResponse
  <1>3. CASE Answered
    BY <1>3 DEF SanInv, Answered, vars
  <1>4. CASE UNCHANGED vars
    BY <1>4 DEF SanInv, vars
  <1>5. QED BY <1>1, <1>2, <1>3, <1>4 DEF Next

(* Of every line: what is stored is what mask_counted makes of it, and what  *)
(* is answered is that masked again.                                         *)
THEOREM SanitizerInvariant == Spec => []SanInv
  BY InitSanInv, NextSanInv, PTL DEF Spec

(* What the invariant says of the text and the counts once a line is masked. *)
LEMMA MaskedIs ==
  ASSUME SanInv, phase # "read"
  PROVE  /\ IsLine(line) /\ text \in Seq(Atom) /\ Cleared(13, text)
         /\ Counted(line, 13, counts) /\ Traced(13, text, counts) /\ Still(text)
  <1>1. IsLine(line)
    BY ShapesAre DEF SanInv
  <1>2. text = mask_counted(line).text /\ counts = mask_counted(line).counts
    BY DEF SanInv
  <1>3. /\ text \in Seq(Atom) /\ Cleared(13, text)
        /\ Counted(line, 13, counts) /\ Traced(13, text, counts)
    BY <1>1, <1>2, FirstPass
  <1>4. Still(text)
    BY <1>3, ClearedIsStill
  <1>5. QED BY <1>1, <1>3, <1>4

(* An answer's line is what url_creds makes of the report's. *)
LEMMA AnswerIs ==
  ASSUME SanInv, phase = "answered"
  PROVE  answer = Subn("url_creds", text).text
  <1>1. text \in Seq(Atom) /\ Still(text)
    BY MaskedIs
  <1>2. answer = mask(text)
    BY DEF SanInv
  <1>3. QED BY <1>1, <1>2, SecondPass

(* Nothing is a line, and has no token. *)
LEMMA EmptyIs == << >> \in Seq(Atom) /\ AreWhole(<< >>)
  BY DEF AreWhole

(* The invariant implies the type invariant. *)
LEMMA InvTypeOK == SanInv => TypeOK
  <1> SUFFICES ASSUME SanInv PROVE TypeOK
    OBVIOUS
  <1>1. IsLine(line) /\ line \in Seq(Atom) /\ phase \in {"read", "masked", "answered"}
    BY ShapesAre DEF SanInv, IsLine
  <1>2. text \in Seq(Atom) /\ AreWhole(text)
    <2>1. CASE phase = "read"
      BY <2>1, EmptyIs DEF SanInv
    <2>2. CASE phase # "read"
      BY <2>2, MaskedIs DEF Cleared
    <2>3. QED BY <2>1, <2>2
  <1>3. counts \in [Classes -> 0..Len(line)]
    <2>1. CASE phase = "read"
      <3>1. counts = [class \in Classes |-> 0]
        BY <2>1 DEF SanInv
      <3>2. 0 \in 0..Len(line)
        BY <1>1
      <3>3. QED BY <3>1, <3>2
    <2>2. CASE phase # "read"
      BY <2>2, MaskedIs DEF Counted
    <2>3. QED BY <2>1, <2>2
  <1>4. answer \in Seq(Atom) /\ AreWhole(answer)
    <2>1. CASE phase # "answered"
      BY <2>1, EmptyIs DEF SanInv
    <2>2. CASE phase = "answered"
      <3> DEFINE s == Subn("url_creds", text)
      <3>1. "url_creds" \in Classes
        BY ClassesAre DEF Contextual
      <3>2. text \in Seq(Atom) /\ AreWhole(text)
        BY <1>2
      <3>3. s.text \in Seq(Atom) /\ \E K, g : Laid("url_creds", text, 1, s.text, s.n, K, g)
        BY <3>1, <3>2, SubnIsLaid
      <3>4. PICK K, g : Laid("url_creds", text, 1, s.text, s.n, K, g)
        BY <3>3
      <3>5. answer = s.text
        BY <2>2, AnswerIs
      <3> HIDE DEF s
      <3>6. AreWhole(s.text)
        BY <3>1, <3>2, <3>3, <3>4, PassIsWhole
      <3>7. QED BY <3>3, <3>5, <3>6
    <2>3. QED BY <2>1, <2>2
  <1>5. QED BY <1>1, <1>2, <1>3, <1>4 DEF TypeOK

(* The invariant of the rules implies the contract on their order. *)
LEMMA InvCountedByShape == SanInv => CountedByShape
  <1> SUFFICES ASSUME SanInv, phase # "read" PROVE CountedByShape
    BY DEF CountedByShape
  <1>1. /\ IsLine(line) /\ text \in Seq(Atom)
        /\ Counted(line, 13, counts) /\ Traced(13, text, counts)
    BY MaskedIs
  <1>2. line \in Seq(Atom) /\ DOMAIN line = 1..Len(line) /\ Len(line) \in Nat
    BY <1>1 DEF IsLine
  <1>3. IsFiniteSet(DOMAIN line)
    <2>1. 1 \in Int /\ Len(line) \in Int
      BY <1>2
    <2>2. QED BY <1>2, <2>1, FS_Interval
  <1>4. \A P, Q \in SUBSET DOMAIN line :
          P \subseteq Q => Cardinality(P) <= Cardinality(Q) /\ Cardinality(P) \in Nat
                           /\ Cardinality(Q) \in Nat
    BY <1>3, FS_Subset, FS_CardinalityType
  <1>5. counts \in [Classes -> 0..Len(line)]
    BY <1>1 DEF Counted
  <1>6. {"http_auth", "bearer_token", "env_secret", "github_token"} \subseteq Classes
    BY ClassesAre DEF Contextual
  <1>7. /\ counts["http_auth"] \in Nat /\ counts["bearer_token"] \in Nat
        /\ counts["env_secret"] \in Nat
    BY <1>2, <1>5, <1>6
  <1>8. counts["github_token"] = Those(line, LAMBDA n : line[n] = Secret("github_token"))
    <2>1. counts["github_token"] = Cardinality(SecretsOf(line, "github_token"))
      BY <1>1 DEF Counted
    <2>2. QED BY <2>1 DEF Those, SecretsOf
  <1>9. counts["env_secret"] <=
          Those(line, LAMBDA n : Is(line, n, {"name"}) /\ Is(line, n + 1, NonSpace \ {"secret"}))
    <2> DEFINE P == Names(line)
               Q == {n \in DOMAIN line : Is(line, n, {"name"}) /\ Is(line, n + 1, NonSpace \ {"secret"})}
    <2>1. P \subseteq Q /\ P \in SUBSET DOMAIN line /\ Q \in SUBSET DOMAIN line
      BY DEF Names, Is
    <2>2. counts["env_secret"] <= Cardinality(P)
      BY <1>1 DEF Counted
    <2>3. Those(line, LAMBDA n : Is(line, n, {"name"}) /\ Is(line, n + 1, NonSpace \ {"secret"}))
            = Cardinality(Q)
      BY DEF Those
    <2> HIDE DEF P, Q
    <2>4. counts["env_secret"] <= Cardinality(Q)
      BY <1>4, <1>7, <2>1, <2>2
    <2>5. QED BY <2>3, <2>4
  <1>10. counts["bearer_token"] <=
           Those(line, LAMBDA n :
             /\ Is(line, n, {"bearer"}) /\ n + 2 \in DOMAIN line
             /\ line[n + 2] # Secret("github_token"))
    <2> DEFINE P == Bearers(line)
               Q == {n \in DOMAIN line : /\ Is(line, n, {"bearer"}) /\ n + 2 \in DOMAIN line
                                         /\ line[n + 2] # Secret("github_token")}
    <2>1. P \subseteq Q /\ P \in SUBSET DOMAIN line /\ Q \in SUBSET DOMAIN line
      BY DEF Bearers, Is
    <2>2. counts["bearer_token"] <= Cardinality(P)
      BY <1>1 DEF Counted
    <2>3. Those(line, LAMBDA n :
             /\ Is(line, n, {"bearer"}) /\ n + 2 \in DOMAIN line
             /\ line[n + 2] # Secret("github_token")) = Cardinality(Q)
      BY DEF Those
    <2> HIDE DEF P, Q
    <2>4. counts["bearer_token"] <= Cardinality(Q)
      BY <1>4, <1>7, <2>1, <2>2
    <2>5. QED BY <2>3, <2>4
  <1>11. counts["http_auth"] <=
           Those(line, LAMBDA n :
             Is(line, n, {"word", "authorization"}) /\ Is(line, n + 1, {"space"}))
    <2>1. counts["http_auth"] <= Cardinality(HttpWords(line))
      BY <1>1 DEF Counted
    <2>2. QED BY <2>1 DEF Those, HttpWords
  <1>12. ASSUME NEW k \in DOMAIN Rules, Tokens(text, Rules[k]) # counts[Rules[k]]
         PROVE  \E m \in DOMAIN Rules :
                  /\ k < m /\ counts[Rules[m]] > 0
                  /\ Tokens(text, Rules[k]) < counts[Rules[k]]
                  /\ Rules[m] \in {"url_creds", "http_auth", "env_secret"}
    <2>1. k \in 1..13 /\ DOMAIN Rules = 1..13 /\ Rules[k] \in Classes
      BY RulesAre
    <2>2. Tokens(text, Rules[k]) = Cardinality(Closes(text, Rules[k]))
      BY DEF Tokens, Those, Closes
    <2>3. /\ Cardinality(Closes(text, Rules[k])) <= counts[Rules[k]]
          /\ Cardinality(Closes(text, Rules[k])) # counts[Rules[k]] =>
               \E i \in 1..13 : k < i /\ counts[Rules[i]] > 0 /\ Rules[i] \in Covering
      BY <1>1, <2>1 DEF Traced
    <2>4. Cardinality(Closes(text, Rules[k])) \in Nat /\ counts[Rules[k]] \in Nat
      BY <1>1, <1>2, <1>5, <2>1, CountsAreFinite
    <2>5. Tokens(text, Rules[k]) < counts[Rules[k]]
      BY <1>12, <2>2, <2>3, <2>4
    <2>6. PICK m \in 1..13 : k < m /\ counts[Rules[m]] > 0 /\ Rules[m] \in Covering
      BY <1>12, <2>2, <2>3
    <2>7. QED BY <2>1, <2>5, <2>6 DEF Covering
  <1>13. QED BY <1>8, <1>9, <1>10, <1>11, <1>12 DEF CountedByShape

(* And so does that of the second pass. *)
LEMMA InvSecondPass == SanInv => SecondPassTouchesUrlsOnly
  BY AnswerIs DEF SecondPassTouchesUrlsOnly

(* Of every line, what it is masked to and what it is answered with is a     *)
(* line of atoms in which every mask token is whole, and no rule fires more *)
(* often than the line is long: rules applied one after the other to what   *)
(* the one before left (mask_counted) tear no token of each other.          *)
THEOREM SanitizerTypeOK == Spec => []TypeOK
  BY SanitizerInvariant, InvTypeOK, PTL

(* Of every line: a GitHub token is counted as one wherever it stands, an    *)
(* env_secret, a bearer token and an HTTP credential are counted where none *)
(* of the rules before could tell them, and a token that has gone again is  *)
(* within what a later rule took whole (the order of _RULES, sanitize.py).  *)
THEOREM SanitizerCountedByShape == Spec => []CountedByShape
  BY SanitizerInvariant, InvCountedByShape, PTL

(* Of every line: to mask what is masked already (mcp/server.py over a       *)
(* report's line) is to apply url_creds alone once more, the other twelve   *)
(* rules find nothing to replace.                                           *)
THEOREM SanitizerSecondPassTouchesUrlsOnly == Spec => []SecondPassTouchesUrlsOnly
  BY SanitizerInvariant, InvSecondPass, PTL

=============================================================================
