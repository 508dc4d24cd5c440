------------------------------ MODULE Settings ------------------------------
(***************************************************************************)
(* The defaults of optdash/config.py that decide a recommendation or an    *)
(* exit.  Ratios, imbalances and exposures are in hundredths, percentages  *)
(* in per cent, clock times in minutes since midnight.                     *)
(***************************************************************************)
EXTENDS Integers

HHMM(h, m) == 60 * h + m

EOD_FORCE_CLOSE_TIME == HHMM(15, 20)
EOD_SWEEP_TIME       == HHMM(15, 25)

\* Python weekdays: 0 is Monday.
EXPIRY_WEEKDAY == [NIFTY |-> 3, BANKNIFTY |-> 2, FINNIFTY |-> 1,
                   MIDCPNIFTY |-> 0, NIFTYNXT50 |-> 4]

GEX_DECLINE_THRESHOLD   == 70
VCOC_BULL_THRESHOLD     == 10
VCOC_BEAR_THRESHOLD     == -10
VCOC_SPIKE_EXPIRY_SNAPS == 3

VEX_THRESHOLDS == [NIFTY |-> 50, BANKNIFTY |-> 50, FINNIFTY |-> 25,
                   MIDCPNIFTY |-> 15, NIFTYNXT50 |-> 15]
DEALER_OCLOCK_DTE   == 1
DEALER_OCLOCK_START == HHMM(14, 0)

PCR_DIV_BULL_THRESHOLD == 25
PCR_DIV_BEAR_THRESHOLD == -20
OBI_THRESHOLD          == 10
FUT_OBI_BEAR_THRESHOLD == [NIFTY |-> -20, BANKNIFTY |-> -20, FINNIFTY |-> -25,
                           MIDCPNIFTY |-> -35, NIFTYNXT50 |-> -30]

SCREENER_TOP_N == 20

GATE_GO_THRESHOLD   == 7
GATE_WAIT_THRESHOLD == 5
GATE_MAX_SCORE      == 11

SESSION_OPENING_END   == HHMM(10, 15)
SESSION_MIDDAY_START  == HHMM(11, 30)
SESSION_MIDDAY_END    == HHMM(13, 0)
SESSION_CLOSING_START == HHMM(14, 30)

PREFLIGHT_MIN_GATE_SCORE      == 5
PREFLIGHT_MIN_CONFIDENCE      == 50
PREFLIGHT_MAX_THETA_RATIO     == 3
PREFLIGHT_MAX_PAIN_PROXIMITY  == 500    \* 0.5 %, in thousandths of a per cent
PREFLIGHT_MIN_SSCORE          == 60
PREFLIGHT_DTE1_MIN_GATE       == 7
PREFLIGHT_DTE1_MIN_CONFIDENCE == 65

AI_SL_PCT           == 35
AI_TARGET_MULT      == 150
AI_EXPIRY_MAX_SNAPS == 3

TRAILING_STOP_ACTIVATION   == 20
GATE_SUSTAINED_NO_GO_SNAPS == 2

SESSION_MIDDAY_CONFIDENCE_PENALTY == 10
SESSION_CLOSING_CONFIDENCE_CAP    == 60
=============================================================================
