----------------------------- MODULE Sanitizer -----------------------------
(***************************************************************************)
(* parsing/sanitize.py: the masking rules, applied in order, each to what  *)
(* the one before it left.  A line is masked when the log is normalized,   *)
(* and once more when the MCP server answers with it (mcp/server.py).      *)
(*                                                                         *)
(* A line is a sequence of atoms: the longest pieces whose inside makes no  *)
(* difference to a rule.  "://" is one, and a name that ends in a keyword,  *)
(* with its "=".  A mask token is three, so that a rule may see into it.    *)
(***************************************************************************)
EXTENDS Integers, Sequences, FiniteSets

CONSTANTS
  Lines,                \* the lines masked
  Shapes                \* the classes of secrets that are told by their shape

(* Mutant: the most generic rule first. *)
Rules_envFirst ==
  <<"env_secret", "github_token", "private_key", "url_creds", "http_auth", "bearer_token",
    "jwt", "aws_key_id", "slack_token", "stripe_key", "npm_token", "pypi_token",
    "google_api_key">>

Rules ==
  <<"github_token", "private_key", "url_creds", "http_auth", "bearer_token", "jwt",
    "aws_key_id", "slack_token", "stripe_key", "npm_token", "pypi_token",
    "google_api_key", "env_secret">>

Classes == {Rules[k] : k \in DOMAIN Rules}

Plain == {"space", "quote", "colon", "at", "://", ";", "[", "word", "opaque",
          "authorization", "bearer", "name", "open"}

Atom == [kind : Plain, class : {"none"}] \cup [kind : {"secret", "close"}, class : Classes]

The(kind) == [kind |-> kind, class |-> "none"]

Secret(class) == [kind |-> "secret", class |-> class]

Token(class) == <<The("open"), The("colon"), [kind |-> "close", class |-> class]>>

Is(t, n, kinds) == n \in DOMAIN t /\ t[n].kind \in kinds

(* What has letters or digits at its ends would be one with a neighbour     *)
(* that has; a run of blanks is one atom.                                   *)
Words == {"word", "opaque", "authorization", "bearer", "secret"}

IsLexed(t) ==
  \A n \in DOMAIN t :
    /\ Is(t, n, Words) => ~Is(t, n + 1, Words \cup {"name"})
    /\ Is(t, n, {"space"}) => ~Is(t, n + 1, {"space"})

ASSUME SanitizerAssumption ==
  /\ Shapes \subseteq Classes \ {"url_creds", "http_auth", "bearer_token", "env_secret"}
  /\ \A t \in Lines :
       /\ t \in Seq(Atom) /\ IsLexed(t)
       /\ \A n \in DOMAIN t :
            t[n].kind \notin {"open", "close"} /\ (t[n].kind = "secret" => t[n].class \in Shapes)

VARIABLES
  line,                 \* the line of the log
  text,                 \* what it is masked to: LogLine.text
  counts,               \* how often each rule fired
  answer,               \* the same line in an answer of the MCP server
  phase                 \* "read", "masked" or "answered"

vars == <<line, text, counts, answer, phase>>

-----------------------------------------------------------------------------
(* The rules: where each one that matches at atom s of t ends.               *)

(* [^\s'"]: *)
NonSpace == {kind : kind \in Plain \ {"space", "quote"}} \cup {"secret", "close"}

(* Mutant: a value ends before a colon. *)
Value_noColon == NonSpace \ {"colon"}

(* The characters of an assigned value. *)
Value == NonSpace

(* The longest run from v on of what is in kinds. *)
Run(t, v, kinds) ==
  {e \in v..Len(t) : (\A n \in v..e : Is(t, n, kinds)) /\ ~Is(t, e + 1, kinds)}

UrlCreds(t, s) ==
  {e \in s + 4..Len(t) :
     /\ Is(t, s, {"://"}) /\ Is(t, e, {"at"})
     /\ \E c \in s + 2..e - 2 :
          /\ Is(t, c, {"colon"})
          /\ \A n \in s + 1..c - 1 : ~Is(t, n, {"space", "colon", "at", "://"})
          /\ \A n \in c + 1..e - 1 : ~Is(t, n, {"space", "at", "://"})}

AfterSpace(t, n) == IF Is(t, n, {"space"}) THEN n + 1 ELSE n

HttpAuth(t, s) ==
  LET c == AfterSpace(t, s + 1)
      w == AfterSpace(t, c + 1)
  IN  {e \in Run(t, w + 2, NonSpace) :
         /\ Is(t, s, {"authorization"}) /\ Is(t, c, {"colon"})
         /\ Is(t, w, {"word", "authorization"})        \* not "bearer"
         /\ Is(t, w + 1, {"space"})}

(* At least eight characters: no word alone has as many. *)
Bearer(t, s) ==
  {e \in Run(t, s + 2, Words \cup {"name"}) :
     /\ Is(t, s, {"bearer"}) /\ Is(t, s + 1, {"space"})
     /\ \E n \in s + 2..e : ~Is(t, n, {"word", "bearer"})}

(* A name after "[" is the parameter of a test.  A value that is a token    *)
(* already is left alone.                                                   *)
EnvSecret(t, s) ==
  {e \in Run(t, s + 1, Value) :
     /\ Is(t, s, {"name"})
     /\ s = 1 \/ Is(t, s - 1, {"space", "colon", ";"})
     /\ ~Is(t, s + 1, {"open"})}

Ends(class, t, s) ==
  CASE class = "url_creds"    -> UrlCreds(t, s)
    [] class = "http_auth"    -> HttpAuth(t, s)
    [] class = "bearer_token" -> Bearer(t, s)
    [] class = "env_secret"   -> EnvSecret(t, s)
    [] OTHER                  -> IF t[s] = Secret(class) THEN {s} ELSE {}

Replacement(class) ==
  CASE class = "url_creds"    -> <<The("://")>> \o Token(class) \o <<The("at")>>
    [] class = "http_auth"    -> <<The("authorization"), The("colon"), The("space")>> \o Token(class)
    [] class = "bearer_token" -> <<The("bearer"), The("space")>> \o Token(class)
    [] class = "env_secret"   -> <<The("name")>> \o Token(class)
    [] OTHER                  -> Token(class)

-----------------------------------------------------------------------------
(* Pattern.subn: from left to right, matches that do not overlap. *)
Subn(class, t) ==
  LET from[s \in 1..Len(t) + 1] ==
        IF s > Len(t) THEN [text |-> << >>, n |-> 0]
        ELSE IF Ends(class, t, s) = {}
        THEN [from[s + 1] EXCEPT !.text = <<t[s]>> \o @]
        ELSE [from[(CHOOSE e \in Ends(class, t, s) : TRUE) + 1] EXCEPT
                !.text = Replacement(class) \o @, !.n = @ + 1]
  IN  from[1]

(* Mutant: a rule replaces its first match only. *)
Apply_once(class, masked) ==
  LET first == {s \in DOMAIN masked.text : Ends(class, masked.text, s) # {}}
      s     == CHOOSE n \in first : \A m \in first : n <= m
      e     == CHOOSE n \in Ends(class, masked.text, s) : TRUE
  IN  IF first = {} THEN masked
      ELSE [text   |-> SubSeq(masked.text, 1, s - 1) \o Replacement(class)
                         \o SubSeq(masked.text, e + 1, Len(masked.text)),
            counts |-> [masked.counts EXCEPT ![class] = 1]]

Apply(class, masked) ==
  [text   |-> Subn(class, masked.text).text,
   counts |-> [masked.counts EXCEPT ![class] = Subn(class, masked.text).n]]

mask_counted(t) ==
  LET after[k \in 0..Len(Rules)] ==
        IF k = 0 THEN [text |-> t, counts |-> [class \in Classes |-> 0]]
        ELSE Apply(Rules[k], after[k - 1])
  IN  after[Len(Rules)]

mask(t) == mask_counted(t).text

Init ==
  /\ line \in Lines
  /\ text = << >> /\ counts = [class \in Classes |-> 0] /\ answer = << >>
  /\ phase = "read"

(* normalize *)
MaskLine ==
  /\ phase = "read"
  /\ LET masked == mask_counted(line)
     IN  text' = masked.text /\ counts' = masked.counts
  /\ phase' = "masked"
  /\ UNCHANGED <<line, answer>>

(* _mask_response *)
MaskResponse ==
  /\ phase = "masked"
  /\ answer' = mask(text)
  /\ phase' = "answered"
  /\ UNCHANGED <<line, text, counts>>

Answered == phase = "answered" /\ UNCHANGED vars

Next == MaskLine \/ MaskResponse \/ Answered

Spec == Init /\ [][Next]_vars

-----------------------------------------------------------------------------
Those(t, P(_)) == Cardinality({n \in DOMAIN t : P(n)})

Tokens(t, class) == Those(t, LAMBDA n : Is(t, n, {"close"}) /\ t[n].class = class)

(* No rule tears the token of another: what is left of one is all of it     *)
(* ("mask-token format is frozen", sanitize.py:59).                         *)
AreWhole(t) ==
  \A n \in DOMAIN t :
    /\ Is(t, n, {"open"}) => Is(t, n + 1, {"colon"}) /\ Is(t, n + 2, {"close"})
    /\ Is(t, n, {"close"}) => n > 2 /\ Is(t, n - 2, {"open"}) /\ Is(t, n - 1, {"colon"})

TypeOK ==
  /\ line \in Seq(Atom)
  /\ text \in Seq(Atom) /\ AreWhole(text)
  /\ counts \in [Classes -> 0..Len(line)]
  /\ answer \in Seq(Atom) /\ AreWhole(answer)
  /\ phase \in {"read", "masked", "answered"}

(* The contract on the order of the rules (sanitize.py:15-54): a secret is  *)
(* counted under the most specific class.  A GitHub token is one wherever   *)
(* it stands, a value is an env_secret or a bearer token for want of        *)
(* a shape only, and Bearer has a rule of its own.  A token that has        *)
(* gone again was within what a later rule takes whole.                     *)
CountedByShape ==
  phase # "read" =>
    /\ counts["github_token"] =
         Those(line, LAMBDA n : line[n] = Secret("github_token"))
    /\ counts["env_secret"] <=
         Those(line, LAMBDA n :
           Is(line, n, {"name"}) /\ Is(line, n + 1, NonSpace \ {"secret"}))
    /\ counts["bearer_token"] <=
         Those(line, LAMBDA n :
           /\ Is(line, n, {"bearer"}) /\ n + 2 \in DOMAIN line
           /\ line[n + 2] # Secret("github_token"))
    /\ counts["http_auth"] <=
         Those(line, LAMBDA n :
           Is(line, n, {"word", "authorization"}) /\ Is(line, n + 1, {"space"}))
    /\ \A k \in DOMAIN Rules :
         Tokens(text, Rules[k]) # counts[Rules[k]] =>
           \E m \in DOMAIN Rules :
             /\ k < m /\ counts[Rules[m]] > 0
             /\ Tokens(text, Rules[k]) < counts[Rules[k]]
             /\ Rules[m] \in {"url_creds", "http_auth", "env_secret"}

(* Masking is idempotent but for URLs (docs/plans/section-7-security.md:273 *)
(* says it is): a line in an answer is the line of the report, except that  *)
(* a token in the place of a user's name has the form of credentials.       *)
SecondPassTouchesUrlsOnly ==
  phase = "answered" => answer = Subn("url_creds", text).text

=============================================================================
