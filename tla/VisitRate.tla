------------------------------ MODULE VisitRate -----------------------------
(***************************************************************************)
(* What trackVisit reads out of a request and out of the link it visits:   *)
(* device, country and the payout of the two.                              *)
(*                                                                         *)
(* A user agent is the set of its marks.  A country code is a name; codes  *)
(* outside CountryCodes are the ones that are not 2 to 10 letters, and     *)
(* CodeOf gives a code in upper case, without blanks around it.  A field   *)
(* of a payload is a number n as <<n>>, of any sign, or no number, as a    *)
(* field that is missing is.                                               *)
(***************************************************************************)
EXTENDS Integers, FiniteSets, Sequences

CONSTANTS
    CountryCodes,  \* the names that are country codes
    CodeOf         \* a function: the country code in upper case

ASSUME CodeAssumption ==
    /\ CodeOf \in [CountryCodes -> CountryCodes]
    /\ "UNK" \in CountryCodes /\ CodeOf["UNK"] = "UNK"
    /\ \A name \in CountryCodes : CodeOf[CodeOf[name]] = CodeOf[name]

(***************************************************************************)
(* The request                                                             *)
(***************************************************************************)
TabletMarks == {"ipad", "tablet", "kindle", "playbook", "silk"}
MobileMarks == {"mobi", "android", "iphone", "ipod", "blackberry", "iemobile", "opera mini"}

DetectDevice(agent) ==
    IF agent \cap TabletMarks # {} THEN "tablet"
    ELSE IF agent \cap MobileMarks # {} THEN "mobile" ELSE "desktop"

DetectBrowser(agent) ==
    IF "edg/" \in agent THEN "Edge"
    ELSE IF "chrome/" \in agent THEN "Chrome"
    ELSE IF "safari/" \in agent THEN "Safari"
    ELSE IF "firefox/" \in agent THEN "Firefox"
    ELSE IF agent \cap {"opr/", "opera/"} # {} THEN "Opera" ELSE "Unknown"

DetectOs(agent) ==
    IF "windows nt" \in agent THEN "Windows"
    ELSE IF "android" \in agent THEN "Android"
    ELSE IF agent \cap {"iphone", "ipad", "ipod"} # {} THEN "iOS"
    ELSE IF "mac os x" \in agent THEN "macOS"
    ELSE IF "linux" \in agent THEN "Linux" ELSE "Unknown"

SanitizeCountry(name) == IF name \in CountryCodes THEN CodeOf[name] ELSE "UNK"

(* A mutant of BuildDetectionMask: a bit too far. *)
BuildDetectionMaskShifted(detected) ==
    (IF "adBlock" \in detected THEN 2 ELSE 0) + (IF "proxyVpn" \in detected THEN 4 ELSE 0)
       + (IF "ipChange" \in detected THEN 8 ELSE 0)

BuildDetectionMask(detected) ==
    (IF "adBlock" \in detected THEN 1 ELSE 0) + (IF "proxyVpn" \in detected THEN 2 ELSE 0)
       + (IF "ipChange" \in detected THEN 4 ELSE 0)

(***************************************************************************)
(* The link: parseLinkDetailPayload, for Laravel's answer and for a cached *)
(* link.                                                                   *)
(***************************************************************************)
NotANumber == <<>>

Field    == [1..1 -> Int] \cup {NotANumber}
RatePair == [mobile : Field, desktop : Field]
Rate     == [payout : RatePair, daily_limit : RatePair]

Payload ==
    [link_id : Field, user_id : Field, level_id : Field, tier_level : Field,
     bonus_percent : Field, status : STRING, default : Rate, countries : Seq([name : STRING, rate : Rate])]

IsNumber(field) == field # NotANumber

(* An incomplete pair of rates makes its whole rate invalid. *)
ParseRate(rate) ==
    \A pair \in {rate.payout, rate.daily_limit} : IsNumber(pair.mobile) /\ IsNumber(pair.desktop)

(* Entries of countries come in their order: of two that have one code the *)
(* later wins, and an invalid one is passed over.                          *)
ParsedCountries(countries) ==
    LET valid == {i \in DOMAIN countries : ParseRate(countries[i].rate)}
        Code(i) == SanitizeCountry(countries[i].name)
    IN [code \in {Code(i) : i \in valid} |->
          countries[CHOOSE i \in valid : /\ Code(i) = code
                                         /\ \A j \in valid : Code(j) = code => j <= i].rate]

ParseTier(payload) == IsNumber(payload.tier_level) /\ IsNumber(payload.bonus_percent)

IsValidLink(payload) ==
    /\ \A field \in {"link_id", "user_id", "level_id"} : IsNumber(payload[field])
    /\ payload.status # ""
    /\ ParseRate(payload.default)
    /\ ParseTier(payload)

ParseLink(payload) ==
    [status |-> payload.status, default |-> payload.default,
     countries |-> ParsedCountries(payload.countries)]

(* The link as it is stored in Redis is parsed again, its countries in any *)
(* order: no two of them have one code.                                    *)
ParseStoredLink(link) ==
    LET names == DOMAIN link.countries
    IN [link EXCEPT !.countries =
          [code \in {SanitizeCountry(name) : name \in names} |->
             link.countries[CHOOSE name \in names : SanitizeCountry(name) = code]]]

(***************************************************************************)
(* The payout                                                              *)
(***************************************************************************)
(* A mutant of ResolveRate: the country as the request names it. *)
ResolveRateOfName(link, name) ==
    IF name \in DOMAIN link.countries THEN link.countries[name] ELSE link.default

ResolveRate(link, name) ==
    IF SanitizeCountry(name) \in DOMAIN link.countries
    THEN link.countries[SanitizeCountry(name)] ELSE link.default

Payout(link, name, agent) ==
    LET rate == ResolveRate(link, name)
    IN IF DetectDevice(agent) = "mobile" THEN rate.payout.mobile[1] ELSE rate.payout.desktop[1]
=============================================================================
