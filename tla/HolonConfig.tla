----------------------------- MODULE HolonConfig -----------------------------
(***************************************************************************)
(* The integer accessors of config.HolonConfig. Each reads os.environ on   *)
(* every call; an environment value is Unset or a string (a sequence of    *)
(* characters, see PyInt).                                                 *)
(***************************************************************************)
EXTENDS PyInt

CONSTANTS
    Unset,   \* os.environ.get(name) is None
    None,    \* Python's None, returned as a default
    Raises   \* int() raised ValueError out of the call

\* Fault variant: _int_env without its try, so int() raises to the caller.
IntEnvNoTry(value, default) ==
    IF value = Unset \/ value = <<>>
    THEN default
    ELSE LET r == PyInt(value) IN IF r.ok THEN r.val ELSE Raises

\* HolonConfig._int_env(name, default), given os.environ.get(name)
IntEnv(value, default) ==
    IF value = Unset \/ value = <<>>
    THEN default
    ELSE LET r == PyInt(value) IN IF r.ok THEN r.val ELSE default

\* get_env_host_uid / get_env_host_gid, given HOST_UID or HOST_GID
GetEnvHostId(value) == IntEnv(value, None)

\* The four duration accessors, given their variable
GetEnvTimeoutSeconds(value) == IntEnv(value, 300)
GetEnvHeartbeatSeconds(value) == IntEnv(value, 60)
GetEnvIdleTimeoutSeconds(value) == IntEnv(value, 1800)
GetEnvTotalTimeoutSeconds(value) == IntEnv(value, 7200)

\* Python's `x or y` on os.environ.get results: y when x is None or ""
EnvOr(x, y) == IF x = Unset \/ x = <<>> THEN y ELSE x

\* "https://api.anthropic.com", a non-empty string
DefaultBaseUrl == <<"h">>

\* get_env_auth_token, given ANTHROPIC_AUTH_TOKEN and ANTHROPIC_API_KEY
GetEnvAuthToken(token, apiKey) ==
    LET v == EnvOr(token, apiKey) IN IF v = Unset THEN None ELSE v

\* get_env_base_url, given ANTHROPIC_BASE_URL and ANTHROPIC_API_URL
GetEnvBaseUrl(url, apiUrl) == EnvOr(EnvOr(url, apiUrl), DefaultBaseUrl)

-----------------------------------------------------------------------------
(* Spec §4.1 checked against the reference conversion RefInt              *)

\* The strings the check ranges over: every string of up to four
\* characters from digits, whitespace, signs, underscore and a letter.
CheckChars == {"0", "7", " ", "+", "-", "_", "x"}
CheckStrings == BoundedSeq(CheckChars, 4) \cup {Unset}

\* Every duration accessor gives its spec §4.1 default for an unset, empty
\* or malformed value and the integer the reference assigns to any other,
\* for every value of S.
IntEnvAgreesOn(S) ==
    \A s \in S :
        LET Expected(default) ==
                IF s # Unset /\ RefInt(s).ok THEN RefInt(s).val ELSE default
        IN  /\ GetEnvTimeoutSeconds(s) = Expected(300)
            /\ GetEnvHeartbeatSeconds(s) = Expected(60)
            /\ GetEnvIdleTimeoutSeconds(s) = Expected(1800)
            /\ GetEnvTotalTimeoutSeconds(s) = Expected(7200)

\* The agreement over all of CheckStrings, evaluated once
CheckedStringsAgree == IntEnvAgreesOn(CheckStrings)

=============================================================================
