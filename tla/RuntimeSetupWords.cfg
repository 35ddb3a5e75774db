\* Two requests and a change between them, for every entry of the template.
SPECIFICATION Spec
CONSTANTS
  Names = {"APP", "PATH", "_HANDLER"}
  Environments <- SomeEnvironments
  Assigns <- SomeAssigns
  Expands <- SomeExpands
  Cleaned = {"PATH", "_HANDLER"}
  Dirs = {"hash"}
  Base = "."
  Runtimes = {"python3.6", "nodejs6.10", "java8"}
  Handlers <- TwoHandlers
  Spellings = {"FALSE", "TRUE", "pydev", "legacy"}
  MaxVersion = 2
  MaxChanges = 1
  MaxCalls = 2
INVARIANTS EnvironmentKept
