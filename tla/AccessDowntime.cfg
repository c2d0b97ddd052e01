SPECIFICATION Spec
CONSTANTS
  Users = {u1, u2, u3}
  Nobody = Nobody
  Grace = 2
  MaxBusy = 2
PROPERTIES
  AccessSurvivesDowntime
