-------------------------------- MODULE Dial --------------------------------
(***************************************************************************)
(* One call of Dial in internal/sshconn/dial.go: the client configuration, *)
(* the TCP connection and the SSH handshake, directly or through the jump  *)
(* host that ~/.ssh/config names (ProxyJump).  A dial over a jump host is  *)
(* a dial of the jump host, a channel through it (the hop) and a handshake *)
(* over the hop.                                                           *)
(*                                                                         *)
(* The peers, the ssh-agent and the files are outside: every step they     *)
(* answer may succeed, fail or, where the code sets no deadline, never be  *)
(* answered.  Which user, host name, port and key a target resolves to     *)
(* makes no difference here and is left out.                               *)
(***************************************************************************)
EXTENDS Sequences, Naturals

CONSTANTS
  Hosts,      \* aliases of ~/.ssh/config
  ProxyJump   \* of each alias: the jump hosts it names, in order

Off == "none"   \* ssh_config's word for "no jump host"

VARIABLES
  target,   \* the alias being dialed
  step,     \* where the dial stands; "idle" between dials
  jump,     \* the dial holds an open client to the jump host
  hop,      \* the dial holds an open channel through the jump host
  hung      \* the peer of this step will never answer

dialVars == <<target, step, jump, hop, hung>>

Steps == {"idle", "config", "connect", "shake", "jumpConfig", "jumpConnect",
          "jumpShake", "jumpDial", "hopShake"}

\* A definition named Faulty... is a seeded fault: the definition that follows
\* it with a plausible slip of the code.  Nothing uses it; the properties below
\* are expected to reject it.

\* How Dial reaches a target: chained jump hosts are refused, and so is a jump
\* host whose own entry names a ProxyJump (the word "none" included).
Route(t) ==
  LET j == ProxyJump[t] IN
  IF j = <<>> \/ j = <<Off>> THEN "direct"
  ELSE IF Len(j) = 1 /\ ProxyJump[j[1]] = <<>> THEN "jump"
  ELSE "refused"

\* The configuration comes first, then the route is looked at.
NextStep ==
  CASE step = "config"      -> IF Route(target) = "direct" THEN "connect"
                               ELSE "jumpConfig"
    [] step = "connect"     -> "shake"
    [] step = "jumpConfig"  -> "jumpConnect"
    [] step = "jumpConnect" -> "jumpShake"
    [] step = "jumpShake"   -> "jumpDial"
    [] step = "jumpDial"    -> "hopShake"

\* The steps nothing bounds: Config.Timeout covers the TCP connection alone,
\* Dial has no context, the ssh-agent is asked for its keys over a socket with
\* no deadline, and a passphrase prompt waits for the user.
Unbounded == Steps \ {"idle", "connect", "jumpConnect"}

Init ==
  /\ target \in Hosts
  /\ step = "idle"
  /\ jump = FALSE /\ hop = FALSE /\ hung = FALSE

Start ==
  /\ step = "idle"
  /\ step' = "config"
  /\ UNCHANGED <<target, jump, hop, hung>>

\* known_hosts and some credentials were found, a connection was made, a
\* handshake accepted.
Advance ==
  /\ step \notin {"idle", "shake", "hopShake"}
  /\ ~hung
  /\ step = "config" => Route(target) # "refused"
  /\ step' = NextStep
  /\ jump' = (jump \/ step = "jumpShake")
  /\ hop' = (hop \/ step = "jumpDial")
  /\ UNCHANGED <<target, hung>>

\* No known_hosts or credentials, a refused route, connection or handshake, a
\* host key that is not the recorded one: what the dial holds is closed.
FaultyKeptOnFailure == jump /\ step = "hopShake"
KeptOnFailure == FALSE

Fail ==
  /\ step # "idle"
  /\ ~hung
  /\ step' = "idle"
  /\ jump' = KeptOnFailure
  /\ hop' = FALSE
  /\ UNCHANGED <<target, hung>>

\* The client is returned; the client to the jump host, if any, is handed to
\* the goroutine that outlives the dial, and the hop to the client itself.
Succeed ==
  /\ step \in {"shake", "hopShake"}
  /\ ~hung
  /\ step' = "idle"
  /\ jump' = FALSE /\ hop' = FALSE
  /\ UNCHANGED <<target, hung>>

\* The peer accepts the connection and then says nothing.
Hang ==
  /\ step \in Unbounded
  /\ ~hung
  /\ hung' = TRUE
  /\ UNCHANGED <<target, step, jump, hop>>
=============================================================================
