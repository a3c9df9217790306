-------------------------------- MODULE Otp --------------------------------
(* One-time passwords of an entry (otp.rs, time_otp.rs and the otp part of *)
(* entry.rs): how settings and `otpauth' urls are read and written, and    *)
(* the two formats an entry may keep them in - the url of the field `otp', *)
(* or the TimeOtp-* fields of the original KeePass.                        *)
(*                                                                         *)
(* The fields of an entry are a function from their names to records with  *)
(* a value, which is a sequence of tokens, and a protection flag. A token  *)
(* that is about one-time passwords is one of                              *)
(*   <<"url", host, label, params>>  a url, its label percent-decoded      *)
(*   <<encoding, secret>>            a secret as text                      *)
(*   <<"num", n>>, <<"alg", name, spelling>>                               *)
(* A result that may be missing or an error is a sequence of length <= 1.  *)
EXTENDS Naturals, Sequences, SequencesExt, Functions

CONSTANTS
    Secrets,      \* decoded secrets
    TextSecrets   \* those whose bytes are text, so that they have a plain form

ASSUME SecretsAssumption == TextSecrets \subseteq Secrets

None == <<>>
Some(x) == <<x>>

Algorithms == {"SHA1", "SHA256", "SHA512"}
verify_period(n) == n \in 1..60
verify_digits(n) == n \in 6..10

----------------------------------------------------------------------------
(* Settings and urls *)

DefaultOtp == [secret |-> None, period |-> 30, digits |-> 6, algorithm |-> "SHA1",
               issuer |-> None, account |-> None]

\* What tokens are computed from; issuer and account are only labels
TokenOf(d) == [secret |-> d.secret, period |-> d.period, digits |-> d.digits,
               algorithm |-> d.algorithm]

from_key(v) ==
    IF Len(v) = 1 /\ v[1][1] = "Base32" THEN Some([DefaultOtp EXCEPT !.secret = Some(v[1][2])])
    ELSE None

\* One parameter of a url applied to what the label and earlier ones gave
UrlParam(read, param) ==
    IF read = None THEN None
    ELSE LET d == read[1]
             x == param[2]
         IN  CASE param[1] = "algorithm" ->
                    IF x \in Algorithms THEN Some([d EXCEPT !.algorithm = x]) ELSE None
               [] param[1] = "digits" ->
                    IF verify_digits(x) THEN Some([d EXCEPT !.digits = x]) ELSE None
               [] param[1] = "period" ->
                    IF verify_period(x) THEN Some([d EXCEPT !.period = x]) ELSE None
               [] param[1] = "secret" ->
                    IF x \in Secrets THEN Some([d EXCEPT !.secret = Some(x)]) ELSE None
               [] param[1] = "issuer" ->
                    IF d.issuer \in {None, Some(x)} THEN Some([d EXCEPT !.issuer = Some(x)])
                    ELSE None
               [] OTHER -> read

from_url(url) ==
    LET label == url[3]
        colon == SelectInSeq(label, LAMBDA t : t = ":")
        labelled == [DefaultOtp EXCEPT
                       !.issuer = IF colon = 0 THEN None ELSE Some(SubSeq(label, 1, colon - 1)),
                       !.account = Some(SubSeq(label, colon + 1, Len(label)))]
        read == FoldLeft(UrlParam, Some(labelled), url[4])
    IN  IF url[2] = "totp" /\ read # None /\ read[1].secret # None THEN read ELSE None

\* The algorithm is left out of a url
get_url_NoAlgorithm(d) ==
    LET account == IF d.account = None THEN <<"None">> ELSE d.account[1]
        If(c, p) == IF c THEN <<p>> ELSE <<>>
    IN  <<"url", "totp", (IF d.issuer = None THEN <<>> ELSE d.issuer[1] \o <<":">>) \o account,
          <<<<"secret", d.secret[1]>>>> \o If(d.digits # 6, <<"digits", d.digits>>)
            \o If(d.period # 30, <<"period", d.period>>)>>

get_url(d) ==
    LET account == IF d.account = None THEN <<"None">> ELSE d.account[1]
        If(c, p) == IF c THEN <<p>> ELSE <<>>
    IN  <<"url", "totp", (IF d.issuer = None THEN <<>> ELSE d.issuer[1] \o <<":">>) \o account,
          <<<<"secret", d.secret[1]>>>>
            \o If(d.digits # 6, <<"digits", d.digits>>)
            \o If(d.algorithm # "SHA1", <<"algorithm", d.algorithm>>)
            \o If(d.issuer # None, <<"issuer", d.issuer[1]>>)
            \o If(d.period # 30, <<"period", d.period>>)>>

StartsWithUrl(v) == v # <<>> /\ v[1][1] = "url"

\* The optional numbers and the algorithm of the settings, over the defaults
from_otp_settings(s) ==
    IF StartsWithUrl(s.secret_or_url) THEN from_url(s.secret_or_url[1])
    ELSE LET key == from_key(s.secret_or_url)
             Or(option, default) == IF option = None THEN default ELSE option[1]
             d == [key[1] EXCEPT !.period = Or(s.period, @), !.digits = Or(s.digits, @),
                                 !.algorithm = Or(s.hash_algorithm, @)]
         IN  IF key # None /\ verify_period(d.period) /\ verify_digits(d.digits)
             THEN Some(d) ELSE None

otp_url(s) == LET d == from_otp_settings(s) IN IF d = None THEN None ELSE Some(get_url(d[1]))

----------------------------------------------------------------------------
(* The TimeOtp fields *)

OTP == "otp"
PERIOD == "TimeOtp-Period"
LENGTH == "TimeOtp-Length"
ALGORITHM == "TimeOtp-Algorithm"

SECRET_FIELDS == << <<"TimeOtp-Secret-Base32", "Base32">>, <<"TimeOtp-Secret-Hex", "Hex">>,
                    <<"TimeOtp-Secret-Base64", "Base64">>, <<"TimeOtp-Secret", "Plain">> >>
SecretNames == {pair[1] : pair \in Range(SECRET_FIELDS)}

Without(fields, names) == RestrictDomain(fields, LAMBDA f : f \notin names)
ValueOf(fields, f) == fields[f].value

\* The first secret field the entry has, whether or not its value is readable
secret_field_of(fields) == SelectInSeq(SECRET_FIELDS, LAMBDA pair : pair[1] \in DOMAIN fields)

decode(encoding, v) == IF Len(v) = 1 /\ v[1][1] = encoding THEN Some(v[1][2]) ELSE None
encode(encoding, secret) ==
    IF encoding = "Plain" /\ secret \notin TextSecrets THEN None
    ELSE Some(<< <<encoding, secret>> >>)

\* An absent field is the default; one that cannot be read is an error
Setting(fields, name, kind) ==
    IF name \notin DOMAIN fields THEN [ok |-> TRUE, value |-> None]
    ELSE LET v == ValueOf(fields, name)
         IN  IF Len(v) = 1 /\ v[1][1] = kind THEN [ok |-> TRUE, value |-> Some(v[1][2])]
             ELSE [ok |-> FALSE, value |-> None]
number_field(fields, name) == Setting(fields, name, "num")
algorithm_field(fields) == Setting(fields, ALGORITHM, "alg")

build(fields, i) ==
    LET secret == decode(SECRET_FIELDS[i][2], ValueOf(fields, SECRET_FIELDS[i][1]))
        p == number_field(fields, PERIOD)
        n == number_field(fields, LENGTH)
        a == algorithm_field(fields)
    IN  IF secret # None /\ p.ok /\ n.ok /\ a.ok
        THEN from_otp_settings([secret_or_url |-> << <<"Base32", secret[1]>> >>,
                                period |-> p.value, digits |-> n.value,
                                hash_algorithm |-> a.value])
        ELSE None

set_field(fields, f, v, protected) ==
    (f :> [value |-> v, protected |-> IF f \in DOMAIN fields THEN fields[f].protected
                                      ELSE protected]) @@ fields
set_or_remove(fields, f, option) ==
    IF option = None THEN Without(fields, {f}) ELSE set_field(fields, f, option[1], FALSE)

\* The spelling of the file is kept where it means the same algorithm
algorithm_value(fields, algorithm) ==
    LET a == algorithm_field(fields)
    IN  IF algorithm = "SHA1" THEN None
        ELSE IF a.ok /\ a.value = Some(algorithm) THEN Some(ValueOf(fields, ALGORITHM))
        ELSE Some(<< <<"alg", algorithm, "name">> >>)

\* Writes the settings in the encoding the entry used and drops other secrets
write(fields, d, i) ==
    LET field == SECRET_FIELDS[i][1]
        secret == encode(SECRET_FIELDS[i][2], d.secret[1])
        If(c, n) == IF c THEN Some(<< <<"num", n>> >>) ELSE None
        f1 == set_field(Without(fields, SecretNames \ {field}), field, secret[1], TRUE)
        f2 == set_or_remove(f1, PERIOD, If(d.period # 30, d.period))
        f3 == set_or_remove(f2, LENGTH, If(d.digits # 6, d.digits))
    IN  IF secret = None THEN None
        ELSE Some(set_or_remove(f3, ALGORITHM, algorithm_value(f3, d.algorithm)))

remove_all(fields) == Without(fields, SecretNames \cup {PERIOD, LENGTH, ALGORITHM})

----------------------------------------------------------------------------
(* The one-time passwords of an entry *)

\* The fields a token can be generated for
parse_all_otp_fields(fields) ==
    LET Url(f) == IF StartsWithUrl(ValueOf(fields, f)) THEN from_url(ValueOf(fields, f)[1])
                  ELSE None
        urls == {f \in DOMAIN fields : Url(f) # None}
        i == secret_field_of(fields)
        timeOtp == IF i = 0 THEN None ELSE build(fields, i)
    IN  (IF timeOtp = None THEN <<>> ELSE SECRET_FIELDS[i][1] :> timeOtp[1])
          @@ [f \in urls |-> Url(f)[1]]

set_otp_url(fields, v) == set_field(fields, OTP, v, TRUE)

\* In the format the entry already uses; None where nothing is written
set_otp(fields, settings) ==
    LET d == from_otp_settings(settings)
        i == secret_field_of(fields)
    IN  IF d = None THEN None
        ELSE IF i = 0 THEN Some(set_otp_url(fields, <<get_url(d[1])>>))
        ELSE write(fields, d[1], i)

\* `otp' belongs to the entry type: emptied, and protected as a new field is
remove_otp(fields) ==
    LET rest == remove_all(fields)
    IN  IF OTP \in DOMAIN rest THEN set_otp_url(Without(rest, {OTP}), <<>>) ELSE rest

\* The field whose token a list shows: the standard one, or the only one
list_otp_token_data(parsed) ==
    IF OTP \in DOMAIN parsed THEN Some(OTP)
    ELSE IF \E f \in DOMAIN parsed : DOMAIN parsed = {f}
         THEN Some(CHOOSE f \in DOMAIN parsed : TRUE)
         ELSE None
=============================================================================
