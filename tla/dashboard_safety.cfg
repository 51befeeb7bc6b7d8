SPECIFICATION DashboardSpec
CONSTANTS
  Users = {u1}
  Domains = {d1}
  Devices = {v1}
  Codes = {c1}
  Requests = {r1, r2, r3}
  Offers <- MCOffers
  Keys = {"level"}
  Values <- MCValues
  Names = {n1}
  Granted = {"ADMIN"}
  Nobody = Nobody
  MaxRoleChanges = 0
  Viewers = {u1}
  Home = d1
  Fetches = {f1, f2}
  MaxDisconnects = 1
SYMMETRY Symmetry
CONSTRAINT SomeViewerIsNotStale
INVARIANTS
  UpToDateDashboardsListTheDevices
  ReportsReachTheDashboards
