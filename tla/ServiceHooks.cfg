\* Every command with up to two jobs over two packages, next to pkg services.
CONSTANTS
  web = web
  panel = panel
  agent = agent
  cron = cron
  app = app
  lib = lib
  base = base
  Base = base
  Services <- MCServices
  Packages <- MCPackages
  Owner <- MCOwner
  Uses <- MCUses
  Blocklist <- MCBlocklist
  MaxJobs = 2

SPECIFICATION MCHookSpec

INVARIANTS
  StoppedBeforeRemoval
  RestartedAfterUpgrade
  BlocklistHonouredOnUpgrade
  ShowsWhatIsThere
