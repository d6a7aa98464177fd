-------------------------- MODULE SessionManager --------------------------
(***************************************************************************)
(* The bookkeeping of src/auth/session_manager.cpp as operators on values: *)
(* the rolling window of valid PINs and, for one client address, the ban   *)
(* record.  The three unordered_maps m_authFailures, m_blockedUntil and    *)
(* m_banCount are always read and written at the same key inside one       *)
(* critical section, so one record per address stands for their entries;   *)
(* an absent entry of a counter is 0, an absent deadline is NoBan.         *)
(*                                                                         *)
(* Modules that own the state (ClientSession, PairingPin) apply these      *)
(* operators; every method below holds m_mutex from beginning to end and   *)
(* is therefore one step of theirs.                                        *)
(***************************************************************************)
EXTENDS Integers, Sequences

CONSTANTS
  Pins,                    \* the PINs generatePin can draw
  MAX_RECENT_PINS,
  AUTH_FAIL_THRESHOLD,
  AUTH_BAN_INITIAL_SECS,
  AUTH_BAN_MAX_SECS

ASSUME PinWindowAssumption == MAX_RECENT_PINS \in Nat \ {0}

ASSUME BanAssumption ==
  /\ AUTH_FAIL_THRESHOLD \in Nat \ {0}
  /\ AUTH_BAN_INITIAL_SECS \in Nat \ {0}
  /\ AUTH_BAN_MAX_SECS \in Nat
  /\ AUTH_BAN_INITIAL_SECS <= AUTH_BAN_MAX_SECS

-----------------------------------------------------------------------------
(* The window of recent PINs. *)

(* generateSession's push_back, and the erase of the oldest entry. *)
Remember(window, pin) ==
  LET longer == Append(window, pin)
  IN  IF Len(longer) > MAX_RECENT_PINS THEN Tail(longer) ELSE longer

ValidateKey(window, pin) == \E i \in DOMAIN window : window[i] = pin

-----------------------------------------------------------------------------
(* The ban record of one address. *)

NoBan == -1

BanRecord == [authFailures : Nat, blockedUntil : Nat \union {NoBan}, banCount : Nat]

Clean == [authFailures |-> 0, blockedUntil |-> NoBan, banCount |-> 0]

(* The length of a ban: AUTH_BAN_INITIAL_SECS for the first one, doubled    *)
(* once for every ban before it by a loop that stops at the cap.            *)
Doubled[nBans \in Nat] ==
  IF nBans = 0 THEN AUTH_BAN_INITIAL_SECS
  ELSE LET secs == Doubled[nBans - 1]
       IN  IF secs < AUTH_BAN_MAX_SECS THEN 2 * secs ELSE secs

BanSecs(nBans) ==
  IF nBans = 0 THEN AUTH_BAN_INITIAL_SECS
  ELSE IF Doubled[nBans] < AUTH_BAN_MAX_SECS THEN Doubled[nBans] ELSE AUTH_BAN_MAX_SECS

(* isIpBlocked: a ban whose deadline has passed is forgotten together with  *)
(* both counters; the address is blocked if a ban is left after that.       *)
AfterCheck(ban, now) ==
  IF ban.blockedUntil # NoBan /\ ban.blockedUntil <= now THEN Clean ELSE ban

IsIpBlocked(ban, now) == AfterCheck(ban, now).blockedUntil # NoBan

(* registerAuthFailure and registerAuthSuccess. *)
RegisterAuthFailure_Late(ban, now) ==
  IF ban.authFailures >= AUTH_FAIL_THRESHOLD
  THEN [authFailures |-> 0, blockedUntil |-> now + BanSecs(ban.banCount),
        banCount |-> ban.banCount + 1]
  ELSE [ban EXCEPT !.authFailures = @ + 1]
RegisterAuthFailure(ban, now) ==
  IF ban.authFailures + 1 >= AUTH_FAIL_THRESHOLD
  THEN [authFailures |-> 0,
        blockedUntil |-> now + BanSecs(ban.banCount),
        banCount     |-> ban.banCount + 1]
  ELSE [ban EXCEPT !.authFailures = @ + 1]

RegisterAuthSuccess(ban) == Clean
=============================================================================
