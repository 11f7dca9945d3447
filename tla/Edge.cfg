SPECIFICATION EdgeSpec
CONSTANTS
  cli = cli
  menu = menu
  browser = browser
  nginx = nginx
  Clients <- MCClients
  Hosts <- MCHosts
  HostOf <- MCHostOf
  MaxRequests = 1
  Window = 1
  MaxTime = 2
  LastRequest = 3
  From <- MCFrom
  Once <- MCOnce
  Menu <- MCMenu
  Proxy = nginx
  Patience = 1
  ProxyPatience = 2
  Confs <- MCConfs
  Texts <- MCTexts
  Visits <- MCVisits
INVARIANTS
  EdgeTypeOK WindowRespected RefusedOnlyWhenFull LimitWhereDue BarcodesGenuine ReadyHonest ReadableInBrowser
PROPERTIES
  ImplementsContract EveryRequestAnswered
CHECK_DEADLOCK FALSE
