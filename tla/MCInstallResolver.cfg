SPECIFICATION Spec
CONSTANTS
  Versions <- MCVersions
  Jobs <- MCJobs
  Platforms = {"darwin-aarch64", "windows-x86_64"}
  Asked = {"darwin-aarch64", "windows-x86_64", "plan9"}
  MaxRuns = 2
INVARIANTS
  ManifestsTrue
  CliServed
PROPERTIES
  AssetThere
CHECK_DEADLOCK FALSE
