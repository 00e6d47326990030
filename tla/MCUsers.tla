------------------------------ MODULE MCUsers ------------------------------
(* An executive and a partner; a country of each kind.                     *)
EXTENDS Users

CONSTANTS boss, freelancer
MCAccounts == {boss, freelancer}
MCRoleAtStart == (boss :> "Executive") @@ (freelancer :> "Partner")
MCCountries == {"US", "UG"}
MCCurrencies == {"UGX"}
=============================================================================
