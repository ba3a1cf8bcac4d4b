SPECIFICATION Spec
CONSTANTS
  Hosts <- MCHosts
  Releases <- MCReleases
  DefaultsLayer <- MCDefaults
  LegacyLayer <- MCLegacy
  CatalogLayer <- MCCatalog
  SettingsLayers <- MCSettings
  Values <- MCValues
  Pinned <- MCPinned
INVARIANTS
  InstallIsTrue
