---------------------------- MODULE InputContract ----------------------------
(***************************************************************************)
(* What the browser, the relay and the host together promise about input:  *)
(* an input takes effect at most once and in the order in which its user   *)
(* made it, it gets one verdict, and the verdict is true.  "uncertain" is  *)
(* the only verdict after which an input may still take effect.            *)
(***************************************************************************)
EXTENDS Naturals, Sequences

CONSTANT Clients

VARIABLES
    verdicts,   \* the verdict of each intent of each client, in order of consumption
    effects     \* the intents that took effect, as pairs of a client and a place

contractVars == <<verdicts, effects>>

ContractInit ==
    /\ verdicts = [c \in Clients |-> <<>>]
    /\ effects = <<>>

Effective(c, i) == \E k \in DOMAIN effects : effects[k] = <<c, i>>

Justified(c, i, verdict) ==
    CASE verdict = "none" -> TRUE
      [] verdict = "written" -> Effective(c, i)
      [] verdict \in {"not-sent", "rejected"} -> ~Effective(c, i)
      [] verdict = "uncertain" -> TRUE

Before(c, i) == IF i \in DOMAIN verdicts[c] THEN verdicts[c][i] ELSE "none"

\* Intents are consumed, and some of those without a verdict get one.
Report ==
    /\ UNCHANGED effects
    /\ \A c \in Clients :
          /\ Len(verdicts[c]) <= Len(verdicts'[c])
          /\ \A i \in DOMAIN verdicts'[c] :
                \/ verdicts'[c][i] = Before(c, i)
                \/ Before(c, i) = "none" /\ Justified(c, i, verdicts'[c][i])

\* No intent takes effect after a later one of the same client.
TakeEffect(c, i) ==
    /\ verdicts[c][i] \in {"none", "uncertain"}
    /\ \A k \in DOMAIN effects : effects[k][1] = c => effects[k][2] < i
    /\ effects' = Append(effects, <<c, i>>)
    /\ UNCHANGED verdicts

ContractNext ==
    \/ Report
    \/ \E c \in Clients : \E i \in DOMAIN verdicts[c] : TakeEffect(c, i)

Contract == ContractInit /\ [][ContractNext]_contractVars
=============================================================================
