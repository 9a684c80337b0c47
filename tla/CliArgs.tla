------------------------------- MODULE CliArgs -------------------------------
(***************************************************************************)
(* apply_cli_overrides (airpcez/src/config.rs): one scan over the argument *)
(* vector that turns `--flag value` pairs into settings.  Of the flags,    *)
(* one of each kind is kept: --ui-port (a number), --role, --llama-dir     *)
(* (any text) and --advertise-gpu (a truth value); the other six take      *)
(* their values as one of these does.                                      *)
(***************************************************************************)
LOCAL INSTANCE Naturals
LOCAL INSTANCE Sequences

FlagTokens == {"--ui-port", "--role", "--llama-dir", "--advertise-gpu"}
Numbers    == {"9000"}
Truths     == {"false"}
Others     == {"host", "--worker"}      \* --worker is read by main, not here
Tokens     == FlagTokens \cup Numbers \cup Truths \cup Others

Settings == [f \in FlagTokens |->
    CASE f = "--ui-port" -> "8675" [] f = "--role" -> "worker"
      [] f = "--llama-dir" -> "none" [] f = "--advertise-gpu" -> "true"]

-----------------------------------------------------------------------------
\* Whether a flag accepts the token after it: the two parsed kinds only if
\* it parses, the two textual kinds whatever it is.
Takes(flag, value) ==
    CASE flag = "--ui-port"       -> value \in Numbers
      [] flag = "--advertise-gpu" -> value \in Truths
      [] OTHER                    -> TRUE

\* What the flag stores for it.  --role takes whatever follows it, a number
\* or another flag too, for "worker" unless it is "host".
Stored(flag, value) ==
    IF flag = "--role" /\ value # "host" THEN "worker" ELSE value

IsPair(s, as) ==
    s.at < Len(as) /\ as[s.at] \in FlagTokens /\ Takes(as[s.at], as[s.at + 1])

\* Mutant: the value a flag has taken is scanned as a flag again.
RescanValue(s, as) ==
    [at |-> s.at + 1,
     config |-> IF IsPair(s, as)
                THEN [s.config EXCEPT ![as[s.at]] = Stored(as[s.at], as[s.at + 1])]
                ELSE s.config]

\* One round of the loop: a flag that takes the next token skips it.
ScanToken(s, as) ==
    IF IsPair(s, as)
    THEN [at |-> s.at + 2,
          config |-> [s.config EXCEPT ![as[s.at]] = Stored(as[s.at], as[s.at + 1])]]
    ELSE [s EXCEPT !.at = @ + 1]

\* As many rounds as there are tokens are enough, and the rest do nothing.
Overrides(config, as) ==
    LET scan[i \in 0..Len(as)] ==
            IF i = 0 THEN [at |-> 1, config |-> config] ELSE ScanToken(scan[i - 1], as)
    IN  scan[Len(as)].config

-----------------------------------------------------------------------------
(* What the scan is for.                                                   *)

\* A position whose token is the value of the flag before it.  (A run of
\* flags that all take their successors is consumed in pairs from its left
\* end.)
IsValue(as) ==
    LET value[i \in 0..Len(as)] ==
            /\ i > 1
            /\ ~value[i - 1]
            /\ as[i - 1] \in FlagTokens
            /\ Takes(as[i - 1], as[i])
    IN  value

Given(flag, as) == {i \in 2..Len(as) : IsValue(as)[i] /\ as[i - 1] = flag}

\* Each setting is decided by the last pair that names its flag and by
\* nothing else; a token that is a value never acts as a flag, and a setting
\* without a pair keeps its default.  A pair is what Takes makes one: a
\* --role whose value is no role is a pair and decides for "worker", as the
\* flag was designed, and is not ignored, as the comment of
\* apply_cli_overrides has it.
LastPairDecides(as) ==
    \A flag \in FlagTokens :
        Overrides(Settings, as)[flag] =
            LET given == Given(flag, as)
            IN  IF given = {} THEN Settings[flag]
                ELSE Stored(flag, as[CHOOSE i \in given : \A j \in given : j <= i])
=============================================================================
