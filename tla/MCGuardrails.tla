---------------------------- MODULE MCGuardrails ----------------------------
(* A small instance of Guardrails: two regimes, a portfolio that can lose  *)
(* a fifth of its peak, exits that lose one percent or nothing.            *)
EXTENDS Guardrails

MCValues == {100, 80}
MCLosses == {0, 1}
MCRegimes == {"trending_up", "risk_off"}
MCRegimeMax == [r \in MCRegimes |-> IF r = "trending_up" THEN 2 ELSE 1]
=============================================================================
