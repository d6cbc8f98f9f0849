SPECIFICATION Spec
CONSTANTS
  MaxLength = 3
  Sources <- MCSources
  Decode_Limits <- MCLimits
  Bound <- MCBound
  Negative_Bound <- MCNegativeBound
  Format_Key <- MCFormatKey
  Format_Value <- MCFormatValue
  Version_Key <- MCVersionKey
CHECK_DEADLOCK FALSE
INVARIANT TakenExactlyIfAdmissible
