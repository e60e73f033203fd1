SPECIFICATION Spec
CONSTANTS
  Days = 2
  MaxExportFaults = 1
  MaxManual = 1
  Weeks = 2
  MaxRetrainFaults = 1
  MaxEarlyEnds = 1
  RecapWeeks = 2
  Charts = 1
  MaxRecapFaults = 1
  MaxManualRecaps = 1

  
  
  
PROPERTIES
  JobGetsDone
CHECK_DEADLOCK FALSE
