----------------------------- MODULE Countries -----------------------------
(***************************************************************************)
(* The country table of src/config/countryRequirements.ts, as far as the   *)
(* application reads it: the accepted currencies, the payout methods and   *)
(* the KYC tier a country asks for.                                        *)
(***************************************************************************)
EXTENDS Naturals, TLC

Tiers == {"basic", "standard", "enhanced"}
TierRank == [basic |-> 0, standard |-> 1, enhanced |-> 2]

Requirement(currencies, methods, tier) ==
    [currencies |-> currencies \cup {"USD"}, methods |-> methods, tier |-> tier]

WestAfrica ==
    "GH" :> Requirement({"GHS"}, {"momo", "card"}, "standard")
    @@ "NG" :> Requirement({"NGN"}, {"momo", "card"}, "standard")

EastAndSouthAfrica ==
    "KE" :> Requirement({"KES"}, {"momo", "card"}, "standard")
    @@ "ZA" :> Requirement({"ZAR"}, {"card"}, "standard")
    @@ "UG" :> Requirement({"UGX"}, {"momo"}, "basic")
    @@ "TZ" :> Requirement({"TZS"}, {"momo"}, "basic")

RestOfAfrica ==
    "RW" :> Requirement({"RWF"}, {"momo"}, "basic")
    @@ "SN" :> Requirement({"XOF", "EUR"}, {"momo"}, "standard")
    @@ "ZM" :> Requirement({"ZMW"}, {"momo"}, "basic")
    @@ "EG" :> Requirement({"EGP"}, {"card"}, "enhanced")

Europe ==
    "GB" :> Requirement({"GBP", "EUR"}, {"card"}, "standard")
    @@ "DE" :> Requirement({"EUR"}, {"card"}, "standard")
    @@ "FR" :> Requirement({"EUR"}, {"card"}, "standard")

Americas ==
    "US" :> Requirement({}, {"card"}, "enhanced")
    @@ "CA" :> Requirement({"CAD"}, {"card"}, "standard")
    @@ "MX" :> Requirement({"MXN"}, {"card"}, "standard")
    @@ "BR" :> Requirement({"BRL"}, {"card"}, "standard")
    @@ "CO" :> Requirement({"COP"}, {"card"}, "standard")

Asia ==
    "IN" :> Requirement({"INR"}, {"card"}, "standard")
    @@ "PH" :> Requirement({"PHP"}, {"momo", "card"}, "standard")
    @@ "ID" :> Requirement({"IDR"}, {"card"}, "standard")
    @@ "SG" :> Requirement({"SGD"}, {"card"}, "enhanced")

OceaniaAndGulf ==
    "AU" :> Requirement({"AUD"}, {"card"}, "standard")
    @@ "AE" :> Requirement({"AED"}, {"card"}, "enhanced")

CountryRequirements ==
    WestAfrica @@ EastAndSouthAfrica @@ RestOfAfrica @@ Europe @@ Americas
    @@ Asia @@ OceaniaAndGulf

SupportedCountries == DOMAIN CountryRequirements

Supports(country, method) ==
    country \in SupportedCountries /\ method \in CountryRequirements[country].methods

MeetsKyc(tier, country) ==
    TierRank[tier] >= TierRank[CountryRequirements[country].tier]
=============================================================================
