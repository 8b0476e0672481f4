SPECIFICATION BootSpec
CONSTANTS
  MaxOutages = 0
PROPERTIES
  KeycloakNeverDead
CHECK_DEADLOCK FALSE
