SPECIFICATION DeviceSpec
CONSTANTS
  Users = {u1}
  Domains = {d1}
  Devices = {v1, v2}
  Codes = {c1}
  Requests = {r1, r2, r3}
  Offers <- MCOffers
  Keys = {"level", "mode"}
  Values <- MCValues
  Names = {n1}
  Granted = {"ADMIN"}
  Nobody = Nobody
  MaxRoleChanges = 1
SYMMETRY Symmetry
INVARIANTS
  DeviceInv
  StatesFitTheirCapabilities
  OneDevicePerCode
  PairedByManagers
  TwinInSync
  QuietMeansAnnounced
PROPERTIES
  DeletedStaysDeleted
